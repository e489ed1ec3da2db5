------------------------- MODULE PlanExecutionProofs -------------------------
(***************************************************************************)
(* Proofs about PlanExecution, for every domain, problem and plan: a plan  *)
(* VAL accepts is one, one that it rejects has a fault, the states it goes *)
(* through are those the effects of the plan make, and the actions of a    *)
(* happening do not interfere.                                             *)
(***************************************************************************)
EXTENDS PlanExecution, FiniteSetTheorems, SequenceTheorems, WellFoundedInduction, TLAPS

-----------------------------------------------------------------------------
(* The happenings, in the order of their times.                              *)

\* A finite set of integers has a smallest element.
LEMMA Smallest ==
  ASSUME NEW T \in SUBSET Int, IsFiniteSet(T), T # {}
  PROVE  Min(T) \in T /\ \A y \in T : Min(T) <= y
<1> DEFINE Below(x) == {y \in T : y <= x}
           Belows == {Below(x) : x \in T}
<1>1. Belows \subseteq FiniteSubsetsOf(T)
  <2>1. \A x \in T : Below(x) \in SUBSET T /\ IsFiniteSet(Below(x))
    BY FS_Subset
  <2> QED
    BY <2>1 DEF FiniteSubsetsOf
<1>2. IsWellFoundedOn(StrictSubsetOrdering(T), FiniteSubsetsOf(T))
  BY FS_StrictSubsetOrderingWellFounded
<1>3. Belows # {}
  OBVIOUS
<1>4. PICK B \in Belows : \A C \in Belows : <<C, B>> \notin StrictSubsetOrdering(T)
  <2> HIDE DEF Belows
  <2> QED
    BY <1>1, <1>2, <1>3, WFMin
<1>5. PICK x \in T : B = Below(x)
  BY <1>4
<1>6. ASSUME NEW y \in T, y < x PROVE FALSE
  <2>0. x <= x /\ ~ (x <= y) /\ \A z \in T : z <= y => z <= x
    BY <1>6
  <2>1. Below(y) \subseteq Below(x) /\ x \in Below(x) /\ x \notin Below(y)
    BY <2>0
  <2>2. Below(y) \in SUBSET T /\ Below(x) \in SUBSET T /\ Below(y) \in Belows
    OBVIOUS
  <2> QED
    BY <1>4, <1>5, <2>1, <2>2 DEF StrictSubsetOrdering
<1>7. \A y \in T : x <= y
  BY <1>6
<1> QED
  BY <1>7 DEF Min

\* The times of the happenings of a problem are finitely many.
LEMMA TimesFinite ==
  ASSUME problem \in Problems
  PROVE  IsFiniteSet(Times) /\ Times \in SUBSET Int /\ \A t \in Times : t \in Nat
<1> DEFINE Ends == {s \in Plan : Op(s.op).durative}
           StartOf == [s \in Plan |-> s.start]
           EndOf == [s \in Ends |-> s.end]
<1>1. IsFiniteSet(Plan) /\ \A s \in Plan : s.start \in Nat /\ s.end \in Nat
  BY ProblemsAssumption DEF Plan
<1>2. IsFiniteSet(Ends)
  BY <1>1, FS_Subset
<1>3. IsFiniteSet({s.start : s \in Plan})
  <2>1. StartOf \in Surjection(Plan, {s.start : s \in Plan})
    BY DEF Surjection
  <2> QED
    BY <1>1, <2>1, FS_Surjection
<1>4. IsFiniteSet({s.end : s \in Ends})
  <2>1. EndOf \in Surjection(Ends, {s.end : s \in Ends})
    BY DEF Surjection
  <2> QED
    BY <1>2, <2>1, FS_Surjection
<1>5. Times = {s.start : s \in Plan} \cup {s.end : s \in Ends}
  BY DEF Times
<1>6. \A t \in Times : t \in Nat
  BY <1>1, <1>5
<1>7. IsFiniteSet(Times)
  BY <1>3, <1>4, <1>5, FS_Union
<1> QED
  BY <1>6, <1>7

\* Happenings are numbered in the order of their times.
LEMMA Numbered ==
  ASSUME problem \in Problems, NEW t \in Times, NEW u \in Times
  PROVE  /\ Number(t) \in 1..Cardinality(Times)
         /\ t < u => Number(t) < Number(u)
<1> DEFINE Upto(v) == {w \in Times : w <= v}
<1>1. IsFiniteSet(Times) /\ \A v \in Times : v \in Nat
  BY TimesFinite
<1>2. \A v \in Times : Upto(v) \in SUBSET Times /\ IsFiniteSet(Upto(v)) /\ v \in Upto(v)
  BY <1>1, FS_Subset
<1>3. /\ Cardinality(Upto(t)) \in Nat /\ Cardinality(Upto(t)) # 0
      /\ Cardinality(Upto(t)) <= Cardinality(Times) /\ Cardinality(Times) \in Nat
  BY <1>1, <1>2, FS_Subset, FS_CardinalityType, FS_EmptySet
<1>4. ASSUME t < u PROVE Cardinality(Upto(t)) < Cardinality(Upto(u))
  <2>0. ~ (u <= t) /\ \A v \in Times : v <= t => v <= u
    BY <1>1, <1>4
  <2>1. Upto(t) \in SUBSET Upto(u) /\ u \notin Upto(t)
    BY <2>0
  <2>2. Cardinality(Upto(t)) <= Cardinality(Upto(u)) /\ Cardinality(Upto(t)) # Cardinality(Upto(u))
    BY <1>2, <2>1, FS_Subset
  <2>3. Cardinality(Upto(t)) \in Nat /\ Cardinality(Upto(u)) \in Nat
    BY <1>2, FS_CardinalityType
  <2> QED
    BY <2>2, <2>3
<1> QED
  BY <1>3, <1>4 DEF Number

\* The first happening has the number 1.
LEMMA FirstNumber ==
  ASSUME problem \in Problems, Times # {}
  PROVE  Min(Times) \in Times /\ Number(Min(Times)) = 1
<1>1. /\ IsFiniteSet(Times) /\ (\A v \in Times : v \in Nat) /\ Min(Times) \in Times
      /\ \A u \in Times : Min(Times) <= u
  BY TimesFinite, Smallest
<1>2. {u \in Times : u <= Min(Times)} = {Min(Times)}
  <2>1. \A u \in Times : u <= Min(Times) <=> u = Min(Times)
    BY <1>1
  <2> QED
    BY <1>1, <2>1
<1> QED
  BY <1>1, <1>2, FS_Singleton DEF Number

\* The happening after the one at t has the next number.
LEMMA NextNumber ==
  ASSUME problem \in Problems, NEW t \in Times, Later(t) # {}
  PROVE  /\ NextTime(t) \in Times /\ NextTime(t) > t
         /\ \A u \in Times : u <= t \/ u >= NextTime(t)
         /\ Number(NextTime(t)) = Number(t) + 1
<1>1. IsFiniteSet(Times) /\ \A v \in Times : v \in Nat
  BY TimesFinite
<1>2. IsFiniteSet(Later(t)) /\ Later(t) \in SUBSET Int
  <2>1. Later(t) \in SUBSET Times
    BY DEF Later
  <2> QED
    BY <1>1, <2>1, FS_Subset
<1>3. NextTime(t) \in Later(t) /\ \A u \in Later(t) : NextTime(t) <= u
  BY <1>2, Smallest DEF NextTime
<1>4. NextTime(t) \in Times /\ NextTime(t) > t /\ \A u \in Times : u <= t \/ u >= NextTime(t)
  BY <1>1, <1>3 DEF Later
<1>5. {u \in Times : u <= NextTime(t)} = {u \in Times : u <= t} \cup {NextTime(t)}
  <2>1. \A u \in Times : u <= NextTime(t) <=> u <= t \/ u = NextTime(t)
    BY <1>1, <1>4
  <2> QED
    BY <1>4, <2>1
<1>6. IsFiniteSet({u \in Times : u <= t}) /\ NextTime(t) \notin {u \in Times : u <= t}
  <2>1. {u \in Times : u <= t} \in SUBSET Times /\ ~ (NextTime(t) <= t)
    BY <1>1, <1>4
  <2> QED
    BY <1>1, <2>1, FS_Subset
<1> QED
  BY <1>4, <1>5, <1>6, FS_AddElement DEF Number

\* The last happening has the number of all.
LEMMA LastNumber ==
  ASSUME problem \in Problems, NEW t \in Times, Later(t) = {}
  PROVE  Number(t) = Cardinality(Times)
<1>1. {u \in Times : u <= t} = Times
  <2>1. \A u \in Times : u \in Nat /\ t \in Nat /\ ~ (u > t)
    BY TimesFinite DEF Later
  <2>2. \A u \in Times : u <= t
    BY <2>1
  <2> QED
    BY <2>2
<1> QED
  BY <1>1 DEF Number
-----------------------------------------------------------------------------
(* The monitor, against the states of a plan it has seen.                    *)

Monitors(C) ==
    [atEnd : SUBSET C, always : SUBSET C, sometime : SUBSET C, within : SUBSET (C \X Int),
     atMostOnce : SUBSET C, currently : SUBSET C, never : SUBSET C,
     sometimeAfter : SUBSET C, sometimeBefore : SUBSET C, alwaysWithin : SUBSET C,
     holdDuring : SUBSET C, holdAfter : SUBSET C, violated : SUBSET C]

\* A new monitor has its type.
LEMMA NewMonitorTyped ==
  ASSUME NEW C, \A c \in C : c.by \in Int
  PROVE  NewMonitor(C) \in Monitors(C)
  BY DEF NewMonitor, Monitors, OfKind

\* A check keeps the type, and gives each list what the check makes of it.
LEMMA Checked ==
  ASSUME NEW C, NEW m \in Monitors(C), NEW S, NEW t \in Int, \A c \in C : c.by \in Int
  PROVE  LET o == CheckAtState(m, S, t) IN
         /\ o \in Monitors(C)
         /\ o.atEnd = m.atEnd /\ o.sometimeAfter = m.sometimeAfter
         /\ o.alwaysWithin = m.alwaysWithin
         /\ o.always = AlwaysAt(m, t)
         /\ o.holdAfter = {c \in m.holdAfter : c.by > t}
         /\ o.within = {w \in WithinAt(m, S, t) : t <= w[2] /\ w[1].p \notin S}
         /\ o.sometime = {c \in SometimeAt(m, S) : c.p \notin S}
         /\ o.atMostOnce = {c \in m.atMostOnce : c.p \notin S}
         /\ o.currently = {c \in CurrentlyAt(m, S) : c.p \in S}
         /\ o.never = NeverAt(m, S)
         /\ o.sometimeBefore = {c \in m.sometimeBefore : c.p \notin S}
         /\ o.violated = m.violated \cup ViolatedAt(m, S, t)
<1> DEFINE o == CheckAtState(m, S, t)
<1>1. /\ AlwaysAt(m, t) \subseteq C /\ SometimeAt(m, S) \subseteq C
      /\ CurrentlyAt(m, S) \subseteq C /\ NeverAt(m, S) \subseteq C
      /\ WithinAt(m, S, t) \subseteq C \X Int
  BY DEF Monitors, AlwaysAt, SometimeAt, CurrentlyAt, NeverAt, WithinAt
<1>2. ViolatedAt(m, S, t) \subseteq C
  BY <1>1 DEF Monitors, ViolatedAt
<1>3. /\ o.atEnd = m.atEnd /\ o.sometimeAfter = m.sometimeAfter
      /\ o.alwaysWithin = m.alwaysWithin
      /\ o.always = AlwaysAt(m, t)
      /\ o.holdAfter = {c \in m.holdAfter : c.by > t}
      /\ o.within = {w \in WithinAt(m, S, t) : t <= w[2] /\ w[1].p \notin S}
      /\ o.sometime = {c \in SometimeAt(m, S) : c.p \notin S}
      /\ o.atMostOnce = {c \in m.atMostOnce : c.p \notin S}
      /\ o.currently = {c \in CurrentlyAt(m, S) : c.p \in S}
      /\ o.never = NeverAt(m, S)
      /\ o.sometimeBefore = {c \in m.sometimeBefore : c.p \notin S}
      /\ o.violated = m.violated \cup ViolatedAt(m, S, t)
  BY DEF CheckAtState, Monitors
<1>4. o \in Monitors(C)
  BY <1>1, <1>2 DEF CheckAtState, Monitors
<1> QED
  BY <1>3, <1>4

\* The t-th look falls on the last of the states tr[1..L], of which n have been
\* seen; a state may be seen again, later than it was reached.
Looks(C, m, tr, L, n, t) ==
    /\ m \in Monitors(C) /\ L \in Nat \ {0} /\ n \in {L - 1, L} /\ t \in Nat
    /\ \A k \in 1..L : tr[k].time \in Nat
    /\ tr[L].time <= t /\ (n = L - 1 => t = tr[L].time)
    /\ \A c \in C : c.kind \in ConstraintKinds /\ c.from \in Int /\ c.by \in Int
    /\ \A c \in C : c.kind = "hold-after" => c.by = 0

Shows(tr, k, p) == p \in tr[k].state
\* What a constraint c that is not violated after n states has been promised:
\* it is still watched, or what was asked of those states has been found.
WatchedAlways(c, m, tr, n) == c \in m.always /\ \A k \in 1..n : Shows(tr, k, c.p)

WatchedSometime(c, m, tr, n) == c \in m.sometime \/ \E k \in 1..n : Shows(tr, k, c.p)

WatchedWithin(c, m, tr, n) ==
    <<c, c.by>> \in m.within \/ \E k \in 1..n : Shows(tr, k, c.p) /\ tr[k].time <= c.by

WatchedOnce(c, m, tr, n) ==
    /\ c \in m.atMostOnce \cup m.currently \cup m.never
    /\ c \in m.atMostOnce => \A k \in 1..n : ~Shows(tr, k, c.p)
    /\ c \in m.currently =>
          \A i, j \in 1..n : i < j /\ Shows(tr, i, c.p) => Shows(tr, j, c.p)
    /\ ~\E i, j, k \in 1..n :
          i < j /\ j < k /\ Shows(tr, i, c.p) /\ ~Shows(tr, j, c.p) /\ Shows(tr, k, c.p)

WatchedAfter(c, m, tr, n) ==
    /\ c \in m.sometimeAfter
    /\ c \in m.sometime \/ \A k \in 1..n : Shows(tr, k, c.q) => \E j \in k..n : Shows(tr, j, c.p)

WatchedBefore(c, m, tr, n) ==
    /\ c \in m.sometimeBefore \/ \E j \in 1..n : Shows(tr, j, c.p)
    /\ \A k \in 1..n : Shows(tr, k, c.q) => \E j \in 1..(k - 1) : Shows(tr, j, c.p)

WatchedAlwaysWithin(c, m, tr, n) ==
    /\ c \in m.alwaysWithin
    /\ \A k \in 1..n : Shows(tr, k, c.q) =>
          \/ <<c, tr[k].time + c.by>> \in m.within
          \/ \E j \in k..n : Shows(tr, j, c.p) /\ tr[j].time <= tr[k].time + c.by

WatchedHold(c, m, tr, n) ==
    /\ c \in m.holdAfter \cup m.always
    /\ \A k \in 1..n : Shows(tr, k, c.p)

Watched(c, m, tr, n) ==
    /\ c.kind = "at-end" => c \in m.atEnd
    /\ c.kind = "always" => WatchedAlways(c, m, tr, n)
    /\ c.kind = "sometime" => WatchedSometime(c, m, tr, n)
    /\ c.kind = "within" => WatchedWithin(c, m, tr, n)
    /\ c.kind = "at-most-once" => WatchedOnce(c, m, tr, n)
    /\ c.kind = "sometime-after" => WatchedAfter(c, m, tr, n)
    /\ c.kind = "sometime-before" => WatchedBefore(c, m, tr, n)
    /\ c.kind = "always-within" => WatchedAlwaysWithin(c, m, tr, n)
    /\ c.kind = "hold-after" => WatchedHold(c, m, tr, n)

\* A new monitor watches every constraint.
LEMMA WatchedAtFirst ==
  ASSUME NEW C, NEW c \in C, NEW tr
  PROVE  Watched(c, NewMonitor(C), tr, 0)
  BY DEF NewMonitor, OfKind, Watched, WatchedAlways, WatchedSometime, WatchedWithin, WatchedOnce,
         WatchedAfter, WatchedBefore, WatchedAlwaysWithin, WatchedHold

\* What a look at a state tells of the states seen.
LEMMA SeenSplit ==
  ASSUME NEW L \in Nat \ {0}, NEW n \in {L - 1, L}
  PROVE  /\ L \in 1..L /\ n \in Nat
         /\ \A k \in 1..L : k \in 1..n \/ k = L
         /\ \A k \in 1..n : k \in 1..L
         /\ n = L - 1 => \A k \in 1..n : k < L
  OBVIOUS

\* One look keeps the promise, kind by kind, unless it finds a violation.
LEMMA AlwaysWatched ==
  ASSUME NEW C, NEW c \in C, NEW m, NEW tr, NEW L, NEW n, NEW t, Looks(C, m, tr, L, n, t),
         c \notin CheckAtState(m, tr[L].state, t).violated
  PROVE  /\ WatchedAlways(c, m, tr, n) =>
              WatchedAlways(c, CheckAtState(m, tr[L].state, t), tr, L)
         /\ c.kind = "hold-after" /\ WatchedHold(c, m, tr, n) =>
              WatchedHold(c, CheckAtState(m, tr[L].state, t), tr, L)
<1> DEFINE S == tr[L].state
           o == CheckAtState(m, S, t)
<1>1. /\ o.always = AlwaysAt(m, t) /\ o.holdAfter = {d \in m.holdAfter : d.by > t}
      /\ o.violated = m.violated \cup ViolatedAt(m, S, t)
  BY Checked DEF Looks
<1>2. c \in AlwaysAt(m, t) => Shows(tr, L, c.p)
  BY <1>1 DEF ViolatedAt, Shows
<1>3. \A k \in 1..L : k \in 1..n \/ k = L
  BY SeenSplit DEF Looks
<1> HIDE DEF o, S
<1>4. WatchedAlways(c, m, tr, n) => WatchedAlways(c, o, tr, L)
  BY <1>1, <1>2, <1>3 DEF WatchedAlways, AlwaysAt
<1>5. c.kind = "hold-after" /\ WatchedHold(c, m, tr, n) => WatchedHold(c, o, tr, L)
  <2> SUFFICES ASSUME c.kind = "hold-after", WatchedHold(c, m, tr, n) PROVE WatchedHold(c, o, tr, L)
    OBVIOUS
  <2>1. c.by <= t
    BY DEF Looks
  <2>2. c \in AlwaysAt(m, t)
    BY <2>1 DEF WatchedHold, AlwaysAt
  <2> QED
    BY <1>1, <1>2, <1>3, <2>2 DEF WatchedHold
<1> QED
  BY <1>4, <1>5 DEF o, S
LEMMA SometimeWatched ==
  ASSUME NEW C, NEW c \in C, NEW m, NEW tr, NEW L, NEW n, NEW t, Looks(C, m, tr, L, n, t),
         c \notin CheckAtState(m, tr[L].state, t).violated
  PROVE  /\ WatchedSometime(c, m, tr, n) =>
              WatchedSometime(c, CheckAtState(m, tr[L].state, t), tr, L)
         /\ WatchedWithin(c, m, tr, n) =>
              WatchedWithin(c, CheckAtState(m, tr[L].state, t), tr, L)
<1> DEFINE S == tr[L].state
           o == CheckAtState(m, S, t)
<1>1. /\ o.sometime = {d \in SometimeAt(m, S) : d.p \notin S}
      /\ o.within = {w \in WithinAt(m, S, t) : t <= w[2] /\ w[1].p \notin S}
      /\ o.violated = m.violated \cup ViolatedAt(m, S, t)
  BY Checked DEF Looks
<1>2. L \in 1..L /\ \A k \in 1..n : k \in 1..L
  BY SeenSplit DEF Looks
<1>3. <<c, c.by>> \in WithinAt(m, S, t) => ~(t > c.by)
  <2>1. <<c, c.by>>[1] = c /\ <<c, c.by>>[2] = c.by
    OBVIOUS
  <2> QED
    BY <1>1, <2>1 DEF ViolatedAt
<1> HIDE DEF o
<1>4. WatchedSometime(c, m, tr, n) => WatchedSometime(c, o, tr, L)
  BY <1>1, <1>2 DEF WatchedSometime, SometimeAt, Shows
<1>5. WatchedWithin(c, m, tr, n) => WatchedWithin(c, o, tr, L)
  <2> SUFFICES ASSUME <<c, c.by>> \in m.within PROVE WatchedWithin(c, o, tr, L)
    BY <1>2 DEF WatchedWithin
  <2>1. tr[L].time \in Int /\ tr[L].time <= t /\ t \in Int /\ c.by \in Int
    BY DEF Looks
  <2>2. <<c, c.by>> \in WithinAt(m, S, t)
    BY DEF WithinAt
  <2>3. t <= c.by /\ tr[L].time <= c.by
    BY <1>3, <2>1, <2>2
  <2>4. CASE c.p \in S
    BY <1>2, <2>3, <2>4 DEF WatchedWithin, Shows
  <2>5. CASE c.p \notin S
    BY <1>1, <2>2, <2>3, <2>5 DEF WatchedWithin
  <2> QED
    BY <2>4, <2>5
<1> QED
  BY <1>4, <1>5 DEF o

LEMMA OnceWatched ==
  ASSUME NEW C, NEW c \in C, NEW m, NEW tr, NEW L, NEW n, NEW t, Looks(C, m, tr, L, n, t),
         c \notin CheckAtState(m, tr[L].state, t).violated, WatchedOnce(c, m, tr, n)
  PROVE  WatchedOnce(c, CheckAtState(m, tr[L].state, t), tr, L)
<1> DEFINE S == tr[L].state
           o == CheckAtState(m, S, t)
<1>1. /\ o.atMostOnce = {d \in m.atMostOnce : d.p \notin S}
      /\ o.currently = {d \in CurrentlyAt(m, S) : d.p \in S}
      /\ o.never = NeverAt(m, S)
      /\ o.violated = m.violated \cup ViolatedAt(m, S, t)
  BY Checked DEF Looks
<1>2. /\ L \in 1..L /\ n \in Nat /\ L \in Nat /\ n \in {L - 1, L}
      /\ \A k \in 1..L : k \in 1..n \/ k = L
      /\ \A k \in 1..n : k \in 1..L
  BY SeenSplit DEF Looks
<1>3. c \in NeverAt(m, S) => c.p \notin S
  BY <1>1 DEF ViolatedAt
<1>4. Shows(tr, L, c.p) <=> c.p \in S
  BY DEF Shows
<1> HIDE DEF o, S
<1>5. c \in o.atMostOnce \cup o.currently \cup o.never
  BY <1>1 DEF WatchedOnce, CurrentlyAt, NeverAt
<1>6. c \in o.atMostOnce => \A k \in 1..L : ~Shows(tr, k, c.p)
  BY <1>1, <1>2, <1>4 DEF WatchedOnce
<1>7. ASSUME c \in o.currently, NEW i \in 1..L, NEW j \in 1..L, i < j, Shows(tr, i, c.p)
      PROVE  Shows(tr, j, c.p)
  <2>1. CASE j = L
    BY <1>1, <1>4, <1>7, <2>1
  <2>2. CASE j # L
    <3>1. j \in 1..n /\ i \in 1..n
      BY <1>2, <1>7, <2>2
    <3>2. c \notin m.atMostOnce
      BY <1>7, <3>1 DEF WatchedOnce
    <3> QED
      BY <1>1, <1>7, <3>1, <3>2 DEF WatchedOnce, CurrentlyAt
  <2> QED
    BY <2>1, <2>2
<1>8. ASSUME NEW i \in 1..L, NEW j \in 1..L, NEW k \in 1..L, i < j, j < k,
             Shows(tr, i, c.p), ~Shows(tr, j, c.p), Shows(tr, k, c.p)
      PROVE  FALSE
  <2>1. i \in 1..n /\ j \in 1..n
    BY <1>2, <1>8
  <2>2. k \notin 1..n
    BY <1>8, <2>1 DEF WatchedOnce
  <2>3. c.p \in S /\ c \notin NeverAt(m, S)
    BY <1>2, <1>3, <1>4, <1>8, <2>2
  <2>4. c \in m.currently
    BY <1>8, <2>1, <2>3 DEF WatchedOnce, NeverAt
  <2> QED
    BY <1>8, <2>1, <2>4 DEF WatchedOnce
<1>9. WatchedOnce(c, o, tr, L)
  BY <1>5, <1>6, <1>7, <1>8 DEF WatchedOnce
<1> QED
  BY <1>9 DEF o, S

LEMMA OrderWatched ==
  ASSUME NEW C, NEW c \in C, NEW m, NEW tr, NEW L, NEW n, NEW t, Looks(C, m, tr, L, n, t),
         c \notin CheckAtState(m, tr[L].state, t).violated
  PROVE  /\ WatchedAfter(c, m, tr, n) =>
              WatchedAfter(c, CheckAtState(m, tr[L].state, t), tr, L)
         /\ WatchedBefore(c, m, tr, n) =>
              WatchedBefore(c, CheckAtState(m, tr[L].state, t), tr, L)
<1> DEFINE S == tr[L].state
           o == CheckAtState(m, S, t)
<1>1. /\ o.sometime = {d \in SometimeAt(m, S) : d.p \notin S}
      /\ o.sometimeAfter = m.sometimeAfter
      /\ o.sometimeBefore = {d \in m.sometimeBefore : d.p \notin S}
      /\ o.violated = m.violated \cup ViolatedAt(m, S, t)
  BY Checked DEF Looks
<1>2. /\ L \in 1..L /\ n \in Nat /\ L \in Nat /\ n \in {L - 1, L}
      /\ \A k \in 1..L : k \in 1..n \/ k = L
      /\ \A k \in 1..n : k \in 1..L
  BY SeenSplit DEF Looks
<1>3. c \in m.sometimeBefore => c.q \notin S
  BY <1>1 DEF ViolatedAt
<1>4. /\ Shows(tr, L, c.p) <=> c.p \in S
      /\ Shows(tr, L, c.q) <=> c.q \in S
  BY DEF Shows
<1> HIDE DEF o, S
<1>5. ASSUME WatchedAfter(c, m, tr, n) PROVE WatchedAfter(c, o, tr, L)
  <2>1. CASE c.p \in S
    <3>1. \A k \in 1..L : L \in k..L
      BY <1>2
    <3> QED
      BY <1>1, <1>4, <1>5, <2>1, <3>1 DEF WatchedAfter
  <2>2. CASE c.p \notin S /\ (c.q \in S \/ c \in m.sometime)
    BY <1>1, <1>5, <2>2 DEF WatchedAfter, SometimeAt
  <2>3. CASE c.q \notin S /\ c \notin m.sometime
    <3>1. \A k \in 1..L : Shows(tr, k, c.q) => k \in 1..n
      BY <1>2, <1>4, <2>3
    <3>2. \A k \in 1..n : \A j \in k..n : j \in k..L
      BY <1>2
    <3> QED
      BY <1>1, <1>5, <2>3, <3>1, <3>2 DEF WatchedAfter
  <2> QED
    BY <2>1, <2>2, <2>3
<1>6. ASSUME WatchedBefore(c, m, tr, n) PROVE WatchedBefore(c, o, tr, L)
  <2>1. c \in o.sometimeBefore \/ \E j \in 1..L : Shows(tr, j, c.p)
    BY <1>1, <1>2, <1>4, <1>6 DEF WatchedBefore
  <2>2. ASSUME NEW k \in 1..L, Shows(tr, k, c.q)
        PROVE  \E j \in 1..(k - 1) : Shows(tr, j, c.p)
    <3>1. CASE k \in 1..n
      BY <1>6, <2>2, <3>1 DEF WatchedBefore
    <3>2. CASE k \notin 1..n
      <4>1. k = L /\ n = L - 1 /\ c \notin m.sometimeBefore
        BY <1>2, <1>3, <1>4, <2>2, <3>2
      <4> QED
        BY <1>6, <4>1 DEF WatchedBefore
    <3> QED
      BY <3>1, <3>2
  <2> QED
    BY <2>1, <2>2 DEF WatchedBefore
<1> QED
  BY <1>5, <1>6 DEF o, S

LEMMA DeadlineWatched ==
  ASSUME NEW C, NEW c \in C, NEW m, NEW tr, NEW L, NEW n, NEW t, Looks(C, m, tr, L, n, t),
         c \notin CheckAtState(m, tr[L].state, t).violated, WatchedAlwaysWithin(c, m, tr, n)
  PROVE  WatchedAlwaysWithin(c, CheckAtState(m, tr[L].state, t), tr, L)
<1> DEFINE S == tr[L].state
           o == CheckAtState(m, S, t)
           D(k) == tr[k].time + c.by
<1>1. /\ o.alwaysWithin = m.alwaysWithin
      /\ o.within = {w \in WithinAt(m, S, t) : t <= w[2] /\ w[1].p \notin S}
      /\ o.violated = m.violated \cup ViolatedAt(m, S, t)
  BY Checked DEF Looks
<1>2. /\ L \in 1..L /\ n \in Nat /\ L \in Nat /\ n \in {L - 1, L}
      /\ \A k \in 1..L : k \in 1..n \/ k = L
      /\ \A k \in 1..n : k \in 1..L
  BY SeenSplit DEF Looks
<1>3. ASSUME NEW d, <<c, d>> \in WithinAt(m, S, t) PROVE ~(t > d)
  <2>1. <<c, d>>[1] = c /\ <<c, d>>[2] = d
    OBVIOUS
  <2> QED
    BY <1>1, <1>3, <2>1 DEF ViolatedAt
<1>4. /\ tr[L].time <= t /\ t \in Int /\ c.by \in Int
      /\ \A k \in 1..L : tr[k].time \in Int
      /\ n = L - 1 => t = tr[L].time
  BY DEF Looks
<1>5. ASSUME NEW k \in 1..L, Shows(tr, k, c.q)
      PROVE  \/ <<c, D(k)>> \in o.within
             \/ \E j \in k..L : Shows(tr, j, c.p) /\ tr[j].time <= D(k)
  <2>1. CASE <<c, D(k)>> \in WithinAt(m, S, t)
    <3>1. t <= D(k) /\ tr[L].time <= D(k) /\ L \in k..L
      BY <1>2, <1>3, <1>4, <2>1
    <3>2. c.p \in S => Shows(tr, L, c.p)
      BY DEF Shows
    <3>3. c.p \notin S => <<c, D(k)>> \in o.within
      <4> HIDE DEF o, S, D
      <4> QED
        BY <1>1, <2>1, <3>1
    <3> QED
      BY <3>1, <3>2, <3>3
  <2>2. CASE k \in 1..n
    <3>1. CASE <<c, D(k)>> \in m.within
      BY <2>1, <3>1 DEF WithinAt
    <3>2. CASE \E j \in k..n : Shows(tr, j, c.p) /\ tr[j].time <= D(k)
      BY <1>2, <2>2, <3>2
    <3> QED
      BY <1>5, <2>2, <3>1, <3>2 DEF WatchedAlwaysWithin
  <2>3. CASE k \notin 1..n
    <3>1. k = L /\ n = L - 1
      BY <1>2, <2>3
    <3>2. D(k) = t + c.by /\ c.q \in S
      BY <1>4, <1>5, <3>1 DEF Shows
    <3>3. <<c, D(k)>> \in WithinAt(m, S, t)
      <4> HIDE DEF D, S
      <4> QED
        BY <3>2 DEF WithinAt, WatchedAlwaysWithin
    <3> QED
      BY <2>1, <3>3
  <2> QED
    BY <2>2, <2>3
<1> QED
  BY <1>1, <1>5 DEF WatchedAlwaysWithin

\* One look keeps what a constraint has been promised, unless it is violated.
LEMMA WatchedKept ==
  ASSUME NEW C, NEW c \in C, NEW m, NEW tr, NEW L, NEW n, NEW t, Looks(C, m, tr, L, n, t),
         c \notin CheckAtState(m, tr[L].state, t).violated, Watched(c, m, tr, n)
  PROVE  Watched(c, CheckAtState(m, tr[L].state, t), tr, L)
<1>1. CheckAtState(m, tr[L].state, t).atEnd = m.atEnd
  BY Checked DEF Looks
<1> QED
  BY <1>1, AlwaysWatched, SometimeWatched, OnceWatched, OrderWatched, DeadlineWatched DEF Watched
-----------------------------------------------------------------------------
(* The monitor counts no violation without a reason.                         *)

\* Every list holds constraints of its kinds.
Kinded(m) ==
    /\ \A c \in m.atEnd : c.kind = "at-end"
    /\ \A c \in m.always : c.kind \in {"always", "hold-after"}
    /\ \A c \in m.sometime : c.kind \in {"sometime", "sometime-after"}
    /\ \A w \in m.within : w[1].kind \in {"within", "always-within"}
    /\ \A c \in m.atMostOnce \cup m.currently \cup m.never : c.kind = "at-most-once"
    /\ \A c \in m.sometimeAfter : c.kind = "sometime-after"
    /\ \A c \in m.sometimeBefore : c.kind = "sometime-before"
    /\ \A c \in m.alwaysWithin : c.kind = "always-within"
    /\ \A c \in m.holdDuring : c.kind = "hold-during"
    /\ \A c \in m.holdAfter : c.kind = "hold-after"

LEMMA KindedAtFirst ==
  ASSUME NEW C
  PROVE  Kinded(NewMonitor(C))
<1>1. \A w \in {<<c, c.by>> : c \in OfKind(C, "within")} : w[1].kind = "within"
  BY DEF OfKind
<1> QED
  BY <1>1 DEF NewMonitor, OfKind, Kinded

LEMMA KindedKept ==
  ASSUME NEW C, NEW m \in Monitors(C), NEW S, NEW t \in Int, \A c \in C : c.by \in Int, Kinded(m)
  PROVE  Kinded(CheckAtState(m, S, t))
<1> DEFINE o == CheckAtState(m, S, t)
<1>1. /\ o.atEnd = m.atEnd /\ o.sometimeAfter = m.sometimeAfter
      /\ o.alwaysWithin = m.alwaysWithin
      /\ o.always = AlwaysAt(m, t)
      /\ o.holdAfter = {c \in m.holdAfter : c.by > t}
      /\ o.within = {w \in WithinAt(m, S, t) : t <= w[2] /\ w[1].p \notin S}
      /\ o.sometime = {c \in SometimeAt(m, S) : c.p \notin S}
      /\ o.atMostOnce = {c \in m.atMostOnce : c.p \notin S}
      /\ o.currently = {c \in CurrentlyAt(m, S) : c.p \in S}
      /\ o.never = NeverAt(m, S)
      /\ o.sometimeBefore = {c \in m.sometimeBefore : c.p \notin S}
  BY Checked
<1>2. o.holdDuring = {c \in m.holdDuring : ~InWindow(c, t) /\ c.by > t}
  BY DEF CheckAtState, Monitors
<1> HIDE DEF o
<1>3. \A w \in WithinAt(m, S, t) : w[1].kind \in {"within", "always-within"}
  <2>1. \A w \in {<<c, t + c.by>> : c \in {c \in m.alwaysWithin : c.q \in S}} :
           w[1].kind = "always-within"
    BY DEF Kinded
  <2> QED
    BY <2>1 DEF WithinAt, Kinded
<1>4. Kinded(o)
  BY <1>1, <1>2, <1>3 DEF Kinded, AlwaysAt, SometimeAt, CurrentlyAt, NeverAt
<1> QED
  BY <1>4 DEF o

\* What is known of a constraint c that is pending, or violated, when n states
\* have been seen and the last look was at s.
FoundedAlways(c, m, tr, n) == c \in m.violated => \E k \in 1..n : ~Shows(tr, k, c.p)

FoundedSometime(c, m, tr, n) ==
    c \notin m.violated /\ (c \in m.sometime => \A k \in 1..n : ~Shows(tr, k, c.p))

FoundedWithin(c, m, tr, n, s) ==
    /\ \A d : <<c, d>> \in m.within => d = c.by /\ \A k \in 1..n : ~Shows(tr, k, c.p)
    /\ c \in m.violated =>
          s > c.by /\ \A k \in 1..n : Shows(tr, k, c.p) => tr[k].time > c.by

FoundedOnce(c, m, tr, n) ==
    /\ c \in m.currently => \E i \in 1..n : Shows(tr, i, c.p)
    /\ c \in m.never => \E i, j \in 1..n : i < j /\ Shows(tr, i, c.p) /\ ~Shows(tr, j, c.p)
    /\ c \in m.violated => \E i, j, k \in 1..n :
          i < j /\ j < k /\ Shows(tr, i, c.p) /\ ~Shows(tr, j, c.p) /\ Shows(tr, k, c.p)

FoundedAfter(c, m, tr, n) ==
    /\ c \notin m.violated
    /\ c \in m.sometime =>
          \E k \in 1..n : Shows(tr, k, c.q) /\ \A j \in k..n : ~Shows(tr, j, c.p)

FoundedBefore(c, m, tr, n) ==
    /\ c \in m.sometimeBefore => \A k \in 1..n : ~Shows(tr, k, c.p)
    /\ c \in m.violated =>
          \E k \in 1..n : Shows(tr, k, c.q) /\ \A j \in 1..(k - 1) : ~Shows(tr, j, c.p)

FoundedAlwaysWithin(c, m, tr, n, s) ==
    /\ \A d : <<c, d>> \in m.within =>
          \E k \in 1..n : /\ Shows(tr, k, c.q) /\ d >= tr[k].time + c.by
                          /\ \A j \in k..n : ~Shows(tr, j, c.p)
    /\ c \in m.violated =>
          \E k \in 1..n : /\ Shows(tr, k, c.q) /\ s > tr[k].time + c.by
                          /\ \A j \in k..n : Shows(tr, j, c.p) => tr[j].time > tr[k].time + c.by

Founded(c, m, tr, n, s) ==
    /\ c.kind = "at-end" => c \notin m.violated
    /\ c.kind \in {"always", "hold-after"} => FoundedAlways(c, m, tr, n)
    /\ c.kind = "sometime" => FoundedSometime(c, m, tr, n)
    /\ c.kind = "within" => FoundedWithin(c, m, tr, n, s)
    /\ c.kind = "at-most-once" => FoundedOnce(c, m, tr, n)
    /\ c.kind = "sometime-after" => FoundedAfter(c, m, tr, n)
    /\ c.kind = "sometime-before" => FoundedBefore(c, m, tr, n)
    /\ c.kind = "always-within" => FoundedAlwaysWithin(c, m, tr, n, s)

\* A new monitor has counted nothing.
LEMMA FoundedAtFirst ==
  ASSUME NEW C, NEW c \in C, NEW tr, NEW s
  PROVE  Founded(c, NewMonitor(C), tr, 0, s)
<1>1. ASSUME NEW d, <<c, d>> \in {<<e, e.by>> : e \in OfKind(C, "within")}
      PROVE  d = c.by /\ c.kind = "within"
  BY <1>1 DEF OfKind
<1>2. /\ NewMonitor(C).violated = {} /\ NewMonitor(C).currently = {} /\ NewMonitor(C).never = {}
      /\ NewMonitor(C).sometime = OfKind(C, "sometime")
      /\ NewMonitor(C).within = {<<e, e.by>> : e \in OfKind(C, "within")}
  BY DEF NewMonitor
<1>3. \A d : <<c, d>> \in NewMonitor(C).within => d = c.by /\ c.kind = "within"
  BY <1>1, <1>2
<1>4. c \in NewMonitor(C).sometime => c.kind = "sometime"
  BY <1>2 DEF OfKind
<1> QED
  BY <1>2, <1>3, <1>4 DEF Founded, FoundedAlways, FoundedSometime, FoundedWithin, FoundedOnce,
        FoundedAfter, FoundedBefore, FoundedAlwaysWithin

\* What a look finds violated is of the kind that can be violated so.
LEMMA Reasons ==
  ASSUME NEW C, NEW m \in Monitors(C), NEW S, NEW t \in Int, NEW c, Kinded(m),
         \A d \in C : d.by \in Int, c \in ViolatedAt(m, S, t)
  PROVE  \/ c.kind \in {"always", "hold-after"} /\ c.p \notin S
         \/ /\ c.kind \in {"within", "always-within"}
            /\ \E d : <<c, d>> \in WithinAt(m, S, t) /\ t > d
         \/ c.kind = "at-most-once" /\ c \in m.never /\ c.p \in S
         \/ c.kind = "hold-during"
         \/ c.kind = "sometime-before" /\ c \in m.sometimeBefore /\ c.q \in S
<1>1. CASE c \in AlwaysAt(m, t) /\ c.p \notin S
  BY <1>1 DEF AlwaysAt, Kinded
<1>2. CASE c \in {w[1] : w \in {w \in WithinAt(m, S, t) : t > w[2]}}
  <2>1. PICK w \in WithinAt(m, S, t) : t > w[2] /\ c = w[1]
    BY <1>2
  <2>2. w \in C \X Int
    BY <2>1 DEF WithinAt, Monitors
  <2>3. w = <<c, w[2]>>
    BY <2>1, <2>2
  <2>4. c.kind \in {"within", "always-within"}
    <3>1. CASE w \in m.within
      BY <2>1, <3>1 DEF Kinded
    <3>2. CASE \E d \in m.alwaysWithin : w = <<d, t + d.by>>
      BY <2>1, <3>2 DEF Kinded
    <3> QED
      BY <2>1, <3>1, <3>2 DEF WithinAt
  <2> QED
    BY <2>1, <2>3, <2>4
<1>3. CASE c \in NeverAt(m, S) /\ c.p \in S
  BY <1>3 DEF NeverAt, Kinded
<1>4. CASE c \in m.holdDuring
  BY <1>4 DEF Kinded
<1>5. CASE c \in m.sometimeBefore /\ c.q \in S
  BY <1>5 DEF Kinded
<1> QED
  BY <1>1, <1>2, <1>3, <1>4, <1>5 DEF ViolatedAt
\* One look keeps what is known, kind by kind.
LEMMA FoundedSimple ==
  ASSUME NEW C, NEW c \in C, NEW m, NEW tr, NEW L, NEW n, NEW s, NEW t,
         Looks(C, m, tr, L, n, t), Kinded(m), s \in Int, s <= t,
         Founded(c, m, tr, n, s), c.kind \in {"at-end", "always", "hold-after", "sometime"}
  PROVE  Founded(c, CheckAtState(m, tr[L].state, t), tr, L, t)
<1> DEFINE S == tr[L].state
           o == CheckAtState(m, S, t)
<1> SUFFICES Founded(c, o, tr, L, t)
  OBVIOUS
<1>1. /\ o.sometime = {d \in SometimeAt(m, S) : d.p \notin S}
      /\ o.violated = m.violated \cup ViolatedAt(m, S, t)
  BY Checked DEF Looks
<1>2. /\ L \in 1..L /\ n \in Nat /\ L \in Nat /\ n \in {L - 1, L}
      /\ \A k \in 1..L : k \in 1..n \/ k = L
      /\ \A k \in 1..n : k \in 1..L
  BY SeenSplit DEF Looks
<1>3. Shows(tr, L, c.p) <=> c.p \in S
  BY DEF Shows
<1>4. Shows(tr, L, c.q) <=> c.q \in S
  BY DEF Shows
<1>5. c \in ViolatedAt(m, S, t) => c.kind \in {"always", "hold-after"} /\ c.p \notin S
  BY Reasons DEF Looks
<1>6. c.kind = "sometime" => c \notin m.sometimeAfter
  BY DEF Kinded
<1> HIDE DEF o, S
<1>7. CASE c.kind = "at-end"
  <2>1. c \notin m.violated
    BY <1>7 DEF Founded
  <2>2. c \notin o.violated
    BY <1>1, <1>5, <1>7, <2>1
  <2> QED
    BY <1>7, <2>2 DEF Founded
<1>8. CASE c.kind \in {"always", "hold-after"}
  <2>1. FoundedAlways(c, m, tr, n)
    BY <1>8 DEF Founded
  <2>2. FoundedAlways(c, o, tr, L)
    BY <1>1, <1>2, <1>3, <1>5, <2>1 DEF FoundedAlways
  <2> QED
    BY <1>8, <2>2 DEF Founded
<1>9. CASE c.kind = "sometime"
  <2>1. FoundedSometime(c, m, tr, n)
    BY <1>9 DEF Founded
  <2>2. FoundedSometime(c, o, tr, L)
    BY <1>1, <1>2, <1>3, <1>5, <1>6, <1>9, <2>1 DEF FoundedSometime, SometimeAt
  <2> QED
    BY <1>9, <2>2 DEF Founded
<1> QED
  BY <1>7, <1>8, <1>9

LEMMA FoundedOnceKept ==
  ASSUME NEW C, NEW c \in C, NEW m, NEW tr, NEW L, NEW n, NEW s, NEW t,
         Looks(C, m, tr, L, n, t), Kinded(m), s \in Int, s <= t,
         Founded(c, m, tr, n, s), c.kind = "at-most-once"
  PROVE  Founded(c, CheckAtState(m, tr[L].state, t), tr, L, t)
<1> DEFINE S == tr[L].state
           o == CheckAtState(m, S, t)
<1> SUFFICES Founded(c, o, tr, L, t)
  OBVIOUS
<1>1. /\ o.currently = {d \in CurrentlyAt(m, S) : d.p \in S}
      /\ o.never = NeverAt(m, S)
      /\ o.violated = m.violated \cup ViolatedAt(m, S, t)
  BY Checked DEF Looks
<1>2. /\ L \in 1..L /\ n \in Nat /\ L \in Nat /\ n \in {L - 1, L}
      /\ \A k \in 1..L : k \in 1..n \/ k = L
      /\ \A k \in 1..n : k \in 1..L
  BY SeenSplit DEF Looks
<1>3. Shows(tr, L, c.p) <=> c.p \in S
  BY DEF Shows
<1>4. Shows(tr, L, c.q) <=> c.q \in S
  BY DEF Shows
<1>5. c \in ViolatedAt(m, S, t) => c \in m.never /\ c.p \in S
  BY Reasons DEF Looks
<1>6. FoundedOnce(c, m, tr, n)
  BY DEF Founded
<1> HIDE DEF o, S
<1>7. c \in o.currently => \E i \in 1..L : Shows(tr, i, c.p)
  BY <1>1, <1>2, <1>3
<1>8. ASSUME c \in o.never
      PROVE  \E i, j \in 1..L : i < j /\ Shows(tr, i, c.p) /\ ~Shows(tr, j, c.p)
  <2>1. CASE c \in m.never
    BY <1>2, <1>6, <2>1 DEF FoundedOnce
  <2>2. CASE c \notin m.never
    <3>1. c \in m.currently /\ c.p \notin S
      BY <1>1, <1>8, <2>2 DEF NeverAt, CurrentlyAt
    <3>2. PICK i \in 1..n : Shows(tr, i, c.p)
      BY <1>6, <3>1 DEF FoundedOnce
    <3>3. i < L /\ i \in 1..L
      BY <1>2, <1>3, <3>1, <3>2
    <3> QED
      BY <1>2, <1>3, <3>1, <3>2, <3>3
  <2> QED
    BY <2>1, <2>2
<1>9. ASSUME c \in o.violated
      PROVE  \E i, j, k \in 1..L :
                i < j /\ j < k /\ Shows(tr, i, c.p) /\ ~Shows(tr, j, c.p) /\ Shows(tr, k, c.p)
  <2>1. CASE c \in m.violated
    BY <1>2, <1>6, <2>1 DEF FoundedOnce
  <2>2. CASE c \notin m.violated
    <3>1. c \in m.never /\ c.p \in S
      BY <1>1, <1>5, <1>9, <2>2
    <3>2. PICK i \in 1..n, j \in 1..n : i < j /\ Shows(tr, i, c.p) /\ ~Shows(tr, j, c.p)
      BY <1>6, <3>1 DEF FoundedOnce
    <3>3. j < L /\ j \in 1..L /\ i \in 1..L
      BY <1>2, <1>3, <3>1, <3>2
    <3> QED
      BY <1>2, <1>3, <3>1, <3>2, <3>3
  <2> QED
    BY <2>1, <2>2
<1>10. FoundedOnce(c, o, tr, L)
  BY <1>7, <1>8, <1>9 DEF FoundedOnce
<1> QED
  BY <1>10 DEF Founded

LEMMA FoundedOrder ==
  ASSUME NEW C, NEW c \in C, NEW m, NEW tr, NEW L, NEW n, NEW s, NEW t,
         Looks(C, m, tr, L, n, t), Kinded(m), s \in Int, s <= t,
         Founded(c, m, tr, n, s), c.kind \in {"sometime-after", "sometime-before"}
  PROVE  Founded(c, CheckAtState(m, tr[L].state, t), tr, L, t)
<1> DEFINE S == tr[L].state
           o == CheckAtState(m, S, t)
<1> SUFFICES Founded(c, o, tr, L, t)
  OBVIOUS
<1>1. /\ o.sometime = {d \in SometimeAt(m, S) : d.p \notin S}
      /\ o.sometimeBefore = {d \in m.sometimeBefore : d.p \notin S}
      /\ o.violated = m.violated \cup ViolatedAt(m, S, t)
  BY Checked DEF Looks
<1>2. /\ L \in 1..L /\ n \in Nat /\ L \in Nat /\ n \in {L - 1, L}
      /\ \A k \in 1..L : k \in 1..n \/ k = L
      /\ \A k \in 1..n : k \in 1..L
  BY SeenSplit DEF Looks
<1>3. Shows(tr, L, c.p) <=> c.p \in S
  BY DEF Shows
<1>4. Shows(tr, L, c.q) <=> c.q \in S
  BY DEF Shows
<1>5. c \in ViolatedAt(m, S, t) =>
        c.kind = "sometime-before" /\ c \in m.sometimeBefore /\ c.q \in S
  BY Reasons DEF Looks
<1> HIDE DEF o, S
<1>6. CASE c.kind = "sometime-after"
  <2>1. FoundedAfter(c, m, tr, n) /\ c \notin o.violated
    BY <1>1, <1>5, <1>6 DEF Founded, FoundedAfter
  <2>2. ASSUME c \in o.sometime
        PROVE  \E k \in 1..L : Shows(tr, k, c.q) /\ \A j \in k..L : ~Shows(tr, j, c.p)
    <3>1. c.p \notin S /\ (c \in m.sometime \/ c.q \in S)
      BY <1>1, <2>2 DEF SometimeAt
    <3>2. CASE c \in m.sometime
      <4>1. PICK k \in 1..n : Shows(tr, k, c.q) /\ \A j \in k..n : ~Shows(tr, j, c.p)
        BY <2>1, <3>2 DEF FoundedAfter
      <4>2. \A j \in k..L : j \in k..n \/ j = L
        BY <1>2
      <4> QED
        BY <1>2, <1>3, <3>1, <4>1, <4>2
    <3>3. CASE c.q \in S
      <4>1. \A j \in L..L : j = L
        BY <1>2
      <4> QED
        BY <1>2, <1>3, <1>4, <3>1, <3>3, <4>1
    <3> QED
      BY <3>1, <3>2, <3>3
  <2>3. FoundedAfter(c, o, tr, L)
    BY <2>1, <2>2 DEF FoundedAfter
  <2> QED
    BY <1>6, <2>3 DEF Founded
<1>7. CASE c.kind = "sometime-before"
  <2>1. FoundedBefore(c, m, tr, n)
    BY <1>7 DEF Founded
  <2>2. c \in o.sometimeBefore => \A k \in 1..L : ~Shows(tr, k, c.p)
    BY <1>1, <1>2, <1>3, <2>1 DEF FoundedBefore
  <2>3. ASSUME c \in o.violated
        PROVE  \E k \in 1..L : Shows(tr, k, c.q) /\ \A j \in 1..(k - 1) : ~Shows(tr, j, c.p)
    <3>1. CASE c \in m.violated
      BY <1>2, <2>1, <3>1 DEF FoundedBefore
    <3>2. CASE c \notin m.violated
      <4>1. c \in m.sometimeBefore /\ c.q \in S
        BY <1>1, <1>5, <2>3, <3>2
      <4>2. \A j \in 1..(L - 1) : j \in 1..n
        BY <1>2
      <4> QED
        BY <1>2, <1>4, <2>1, <4>1, <4>2 DEF FoundedBefore
    <3> QED
      BY <3>1, <3>2
  <2>4. FoundedBefore(c, o, tr, L)
    BY <2>2, <2>3 DEF FoundedBefore
  <2> QED
    BY <1>7, <2>4 DEF Founded
<1> QED
  BY <1>6, <1>7

LEMMA FoundedDeadlines ==
  ASSUME NEW C, NEW c \in C, NEW m, NEW tr, NEW L, NEW n, NEW s, NEW t,
         Looks(C, m, tr, L, n, t), Kinded(m), s \in Int, s <= t,
         Founded(c, m, tr, n, s), c.kind \in {"within", "always-within"}
  PROVE  Founded(c, CheckAtState(m, tr[L].state, t), tr, L, t)
<1> DEFINE S == tr[L].state
           o == CheckAtState(m, S, t)
           D(k) == tr[k].time + c.by
<1> SUFFICES Founded(c, o, tr, L, t)
  OBVIOUS
<1>1. /\ o.within = {w \in WithinAt(m, S, t) : t <= w[2] /\ w[1].p \notin S}
      /\ o.violated = m.violated \cup ViolatedAt(m, S, t)
  BY Checked DEF Looks
<1>2. /\ L \in 1..L /\ n \in Nat /\ L \in Nat /\ n \in {L - 1, L}
      /\ \A k \in 1..L : k \in 1..n \/ k = L
      /\ \A k \in 1..n : k \in 1..L
  BY SeenSplit DEF Looks
<1>3. Shows(tr, L, c.p) <=> c.p \in S
  BY DEF Shows
<1>4. Shows(tr, L, c.q) <=> c.q \in S
  BY DEF Shows
<1>0. m \in Monitors(C) /\ t \in Int /\ \A d \in C : d.by \in Int
  BY DEF Looks
<1>5. c \in ViolatedAt(m, S, t) => \E d : <<c, d>> \in WithinAt(m, S, t) /\ t > d
  BY <1>0, Reasons
<1>6. /\ tr[L].time <= t /\ t \in Int /\ c.by \in Int /\ s \in Int /\ s <= t
      /\ \A k \in 1..L : tr[k].time \in Int
      /\ n = L - 1 => t = tr[L].time
  BY DEF Looks
<1>7. ASSUME NEW d, <<c, d>> \in WithinAt(m, S, t)
      PROVE  /\ d \in Int
             /\ \/ <<c, d>> \in m.within
                \/ c.kind = "always-within" /\ c.q \in S /\ d = t + c.by
  <2>1. <<c, d>> \in C \X Int
    BY <1>6, <1>7 DEF WithinAt, Looks, Monitors
  <2>2. \A e \in m.alwaysWithin : e.kind = "always-within"
    BY DEF Kinded
  <2> QED
    BY <1>7, <2>1, <2>2 DEF WithinAt
<1>8. \A d : <<c, d>> \in o.within => <<c, d>> \in WithinAt(m, S, t) /\ c.p \notin S
  <2> HIDE DEF o, S
  <2>1. \A d : <<c, d>>[1] = c
    OBVIOUS
  <2> QED
    BY <1>1, <2>1
<1> HIDE DEF o, S
<1>9. CASE c.kind = "within"
  <2>1. FoundedWithin(c, m, tr, n, s)
    BY <1>9 DEF Founded
  <2>2. \A d : <<c, d>> \in o.within => d = c.by /\ \A k \in 1..L : ~Shows(tr, k, c.p)
    BY <1>2, <1>3, <1>7, <1>8, <1>9, <2>1 DEF FoundedWithin
  <2>3. ASSUME c \in o.violated
        PROVE  t > c.by /\ \A k \in 1..L : Shows(tr, k, c.p) => tr[k].time > c.by
    <3>1. t > c.by /\ \A k \in 1..n : Shows(tr, k, c.p) => tr[k].time > c.by
      <4>1. CASE c \in m.violated
        BY <1>6, <2>1, <4>1 DEF FoundedWithin
      <4>2. CASE c \notin m.violated
        BY <1>1, <1>5, <1>7, <1>9, <2>1, <2>3, <4>2 DEF FoundedWithin
      <4> QED
        BY <4>1, <4>2
    <3>2. L \notin 1..n => tr[L].time = t
      BY <1>2, <1>6
    <3> QED
      BY <1>2, <3>1, <3>2
  <2>4. FoundedWithin(c, o, tr, L, t)
    BY <2>2, <2>3 DEF FoundedWithin
  <2> QED
    BY <1>9, <2>4 DEF Founded
<1>10. CASE c.kind = "always-within"
  <2>1. FoundedAlwaysWithin(c, m, tr, n, s)
    BY <1>10 DEF Founded
  <2>2. ASSUME NEW d, <<c, d>> \in WithinAt(m, S, t), <<c, d>> \notin m.within
        PROVE  Shows(tr, L, c.q) /\ d = t + c.by /\ d >= D(L) /\ d \in Int
    BY <1>2, <1>4, <1>6, <1>7, <2>2
  <2>3. ASSUME NEW d, <<c, d>> \in o.within
        PROVE  \E k \in 1..L : Shows(tr, k, c.q) /\ d >= D(k) /\ \A j \in k..L : ~Shows(tr, j, c.p)
    <3>1. <<c, d>> \in WithinAt(m, S, t) /\ ~Shows(tr, L, c.p)
      BY <1>3, <1>8, <2>3
    <3>2. CASE <<c, d>> \in m.within
      <4>1. PICK k \in 1..n : /\ Shows(tr, k, c.q) /\ d >= D(k)
                              /\ \A j \in k..n : ~Shows(tr, j, c.p)
        BY <2>1, <3>2 DEF FoundedAlwaysWithin
      <4>2. k \in 1..L /\ \A j \in k..L : j \in k..n \/ j = L
        BY <1>2
      <4> QED
        BY <3>1, <4>1, <4>2
    <3>3. CASE <<c, d>> \notin m.within
      <4>1. Shows(tr, L, c.q) /\ d >= D(L)
        BY <2>2, <3>1, <3>3
      <4>2. \A j \in L..L : j = L
        BY <1>2
      <4> QED
        BY <1>2, <3>1, <4>1, <4>2
    <3> QED
      BY <3>2, <3>3
  <2>4. ASSUME c \in o.violated
        PROVE  \E k \in 1..L : /\ Shows(tr, k, c.q) /\ t > D(k)
                               /\ \A j \in k..L : Shows(tr, j, c.p) => tr[j].time > D(k)
    <3>1. CASE \E k \in 1..n : /\ Shows(tr, k, c.q) /\ t > D(k)
                               /\ \A j \in k..n : Shows(tr, j, c.p) => tr[j].time > D(k)
      <4>1. PICK k \in 1..n : /\ Shows(tr, k, c.q) /\ t > D(k)
                              /\ \A j \in k..n : Shows(tr, j, c.p) => tr[j].time > D(k)
        BY <3>1
      <4>2. k \in 1..L /\ \A j \in k..L : j \in k..n \/ (j = L /\ tr[L].time = t)
        BY <1>2, <1>6
      <4>3. \A j \in k..L : Shows(tr, j, c.p) => tr[j].time > D(k)
        BY <4>1, <4>2
      <4> QED
        BY <4>1, <4>2, <4>3
    <3>2. CASE c \in m.violated
      <4>1. PICK k \in 1..n : /\ Shows(tr, k, c.q) /\ s > D(k)
                              /\ \A j \in k..n : Shows(tr, j, c.p) => tr[j].time > D(k)
        BY <2>1, <3>2 DEF FoundedAlwaysWithin
      <4>2. D(k) \in Int
        BY <1>2, <1>6
      <4>3. t > D(k)
        BY <1>6, <4>1, <4>2
      <4> QED
        BY <3>1, <4>1, <4>3
    <3>3. CASE c \notin m.violated
      <4>1. PICK d : <<c, d>> \in WithinAt(m, S, t) /\ t > d
        BY <1>1, <1>5, <2>4, <3>3
      <4>2. CASE <<c, d>> \in m.within
        <5>1. PICK k \in 1..n : /\ Shows(tr, k, c.q) /\ d >= D(k)
                                /\ \A j \in k..n : ~Shows(tr, j, c.p)
          BY <2>1, <4>2 DEF FoundedAlwaysWithin
        <5>2. D(k) \in Int /\ d \in Int
          BY <1>2, <1>6, <1>7, <4>1
        <5>3. t > D(k)
          BY <1>6, <4>1, <5>1, <5>2
        <5> QED
          BY <3>1, <5>1, <5>3
      <4>3. CASE <<c, d>> \notin m.within
        <5>1. Shows(tr, L, c.q) /\ d = t + c.by /\ d >= D(L) /\ d \in Int
          BY <2>2, <4>1, <4>3
        <5>2. t > D(L) /\ tr[L].time > D(L)
          BY <1>2, <1>6, <4>1, <5>1
        <5>3. \A j \in L..L : j = L
          BY <1>2
        <5> QED
          BY <1>2, <5>1, <5>2, <5>3
      <4> QED
        BY <4>2, <4>3
    <3> QED
      BY <3>2, <3>3
  <2>5. FoundedAlwaysWithin(c, o, tr, L, t)
    BY <2>3, <2>4 DEF FoundedAlwaysWithin
  <2> QED
    BY <1>10, <2>5 DEF Founded
<1> QED
  BY <1>9, <1>10

\* One look keeps what is known of a constraint.
LEMMA FoundedKept ==
  ASSUME NEW C, NEW c \in C, NEW m, NEW tr, NEW L, NEW n, NEW s, NEW t,
         Looks(C, m, tr, L, n, t), Kinded(m), s \in Int, s <= t,
         Founded(c, m, tr, n, s)
  PROVE  Founded(c, CheckAtState(m, tr[L].state, t), tr, L, t)
<1>1. c.kind \in ConstraintKinds
  BY DEF Looks
<1>2. CASE c.kind = "hold-during"
  BY <1>2 DEF Founded
<1> QED
  BY <1>1, <1>2, FoundedSimple, FoundedOnceKept, FoundedOrder, FoundedDeadlines DEF ConstraintKinds
-----------------------------------------------------------------------------
(* What the monitor says when it has seen the final state.                   *)

\* The last check counts what is still pending.
LEMMA FinallyChecked ==
  ASSUME NEW C, NEW m \in Monitors(C), NEW S, NEW t \in Int, \A c \in C : c.by \in Int
  PROVE  LET o == CheckAtState(m, S, t) IN
         CheckFinalState(m, S, t).violated =
            o.violated \cup {c \in o.atEnd : c.p \notin S} \cup o.sometime \cup {w[1] : w \in o.within}
<1> DEFINE o == CheckAtState(m, S, t)
<1>1. o \in Monitors(C)
  BY Checked
<1> HIDE DEF o
<1>2. \A V : [o EXCEPT !.violated = V].violated = V
  BY <1>1 DEF Monitors
<1> QED
  BY <1>1, <1>2 DEF CheckFinalState, o, Monitors

\* A constraint that is given what is asked for is satisfied.
LEMMA AskedIsEnough ==
  ASSUME NEW c, AskedFor(c)
  PROVE  Satisfied(c)
  BY DEF AskedFor, Satisfied

\* A constraint the monitor has not counted is given what is asked for.
LEMMA UncountedGiven ==
  ASSUME NEW C, NEW c \in C, NEW m, NEW n, NEW t, Looks(C, m, trace, Len(trace), n, t),
         c \in m.violated \/ Watched(c, m, trace, n), c.kind # "hold-during",
         c \notin CheckFinalState(m, trace[Len(trace)].state, t).violated
  PROVE  AskedFor(c)
<1> DEFINE L == Len(trace)
           S == trace[Len(trace)].state
           o == CheckAtState(m, S, t)
<1>1. /\ c \notin o.violated /\ (c \in o.atEnd => c.p \in S) /\ c \notin o.sometime
      /\ \A w \in o.within : w[1] # c
  BY FinallyChecked DEF Looks
<1>2. o.violated = m.violated \cup ViolatedAt(m, S, t)
  BY Checked DEF Looks
<1>3. Watched(c, o, trace, L)
  BY <1>1, <1>2, WatchedKept
<1>4. \A d : <<c, d>> \notin o.within
  <2>1. \A d : <<c, d>>[1] = c
    OBVIOUS
  <2> HIDE DEF o
  <2> QED
    BY <1>1, <2>1
<1>5. L \in 1..L /\ (c.p \in S <=> Sees(L, c.p))
  BY DEF Looks, Sees
<1>6. c.kind \in ConstraintKinds
  BY DEF Looks
<1> HIDE DEF o, S
<1>7. CASE c.kind = "at-end"
  BY <1>1, <1>3, <1>5, <1>7 DEF Watched, AskedFor, Satisfied
<1>8. CASE c.kind = "always"
  BY <1>3, <1>8 DEF Watched, WatchedAlways, AskedFor, Satisfied, Stages, Sees, Shows
<1>9. CASE c.kind = "sometime"
  BY <1>1, <1>3, <1>9 DEF Watched, WatchedSometime, AskedFor, Satisfied, Stages, Sees, Shows
<1>10. CASE c.kind = "within"
  BY <1>3, <1>4, <1>10 DEF Watched, WatchedWithin, AskedFor, Satisfied, Stages, Sees, Shows
<1>11. CASE c.kind = "at-most-once"
  BY <1>3, <1>11 DEF Watched, WatchedOnce, AskedFor, Satisfied, Stages, Sees, Shows
<1>12. CASE c.kind = "sometime-after"
  BY <1>1, <1>3, <1>12 DEF Watched, WatchedAfter, AskedFor, Satisfied, Stages, Sees, Shows
<1>13. CASE c.kind = "sometime-before"
  BY <1>3, <1>13 DEF Watched, WatchedBefore, AskedFor, Satisfied, Stages, Sees, Shows
<1>14. CASE c.kind = "always-within"
  BY <1>3, <1>4, <1>14 DEF Watched, WatchedAlwaysWithin, AskedFor, Satisfied, Stages, Sees, Shows
<1>15. CASE c.kind = "hold-after"
  BY <1>3, <1>15 DEF Watched, WatchedHold, AskedFor, Stages, Sees, Shows
<1> QED
  BY <1>6, <1>7, <1>8, <1>9, <1>10, <1>11, <1>12, <1>13, <1>14, <1>15 DEF ConstraintKinds

\* A constraint the monitor has counted is not given what is asked for.
LEMMA CountedViolated ==
  ASSUME NEW C, NEW c \in C, NEW m, NEW n, NEW s, NEW t, Looks(C, m, trace, Len(trace), n, t),
         Kinded(m), s \in Int, s <= t, Founded(c, m, trace, n, s),
         c.kind # "hold-during",
         c \in CheckFinalState(m, trace[Len(trace)].state, t).violated
  PROVE  ~AskedFor(c)
<1> DEFINE L == Len(trace)
           S == trace[Len(trace)].state
           o == CheckAtState(m, S, t)
<1>1. \/ c \in o.violated
      \/ c \in o.atEnd /\ c.p \notin S
      \/ c \in o.sometime
      \/ \E w \in o.within : w[1] = c
  BY FinallyChecked DEF Looks
<1>2. Founded(c, o, trace, L, t)
  BY FoundedKept
<1>3. Kinded(o) /\ o \in Monitors(C)
  BY KindedKept, Checked DEF Looks
<1>4. ASSUME NEW w \in o.within, w[1] = c
      PROVE  \E d \in Int : <<c, d>> \in o.within
  <2> HIDE DEF o
  <2>1. w \in C \X Int
    BY <1>3 DEF Monitors
  <2> QED
    BY <1>4, <2>1
<1>5. /\ L \in 1..L /\ L \in Nat /\ (c.p \in S <=> Sees(L, c.p))
      /\ \A k \in 1..L : trace[k].time \in Int
      /\ t \in Int /\ c.by \in Int
  BY DEF Looks, Sees
<1>6. c.kind \in ConstraintKinds
  BY DEF Looks
<1> HIDE DEF o, S
<1>7. CASE c.kind = "at-end"
  BY <1>1, <1>2, <1>3, <1>5, <1>7 DEF Founded, Kinded, AskedFor, Satisfied
<1>8. CASE c.kind \in {"always", "hold-after"}
  <2>1. FoundedAlways(c, o, trace, L) /\ c \in o.violated
    BY <1>1, <1>2, <1>3, <1>8 DEF Founded, Kinded
  <2> QED
    BY <1>8, <2>1 DEF FoundedAlways, AskedFor, Satisfied, Stages, Sees, Shows
<1>9. CASE c.kind = "sometime"
  <2>1. FoundedSometime(c, o, trace, L)
    BY <1>2, <1>9 DEF Founded
  <2>2. c \in o.sometime
    BY <1>1, <1>3, <1>9, <2>1 DEF FoundedSometime, Kinded
  <2> QED
    BY <1>9, <2>1, <2>2 DEF FoundedSometime, AskedFor, Satisfied, Stages, Sees, Shows
<1>10. CASE c.kind = "within"
  <2>1. FoundedWithin(c, o, trace, L, t)
    BY <1>2, <1>10 DEF Founded
  <2>2. c \in o.violated \/ \E d : <<c, d>> \in o.within
    BY <1>1, <1>3, <1>4, <1>10 DEF Kinded
  <2>3. \A k \in 1..L : Shows(trace, k, c.p) => trace[k].time > c.by
    BY <2>1, <2>2 DEF FoundedWithin
  <2>4. ~Satisfied(c)
    BY <1>5, <1>10, <2>3 DEF Satisfied, Stages, Sees, Shows
  <2> QED
    BY <2>4, AskedIsEnough
<1>11. CASE c.kind = "at-most-once"
  <2>1. FoundedOnce(c, o, trace, L) /\ c \in o.violated
    BY <1>1, <1>2, <1>3, <1>11 DEF Founded, Kinded
  <2> QED
    BY <1>11, <2>1 DEF FoundedOnce, AskedFor, Satisfied, Stages, Sees, Shows
<1>12. CASE c.kind = "sometime-after"
  <2>1. FoundedAfter(c, o, trace, L)
    BY <1>2, <1>12 DEF Founded
  <2>2. c \in o.sometime
    BY <1>1, <1>3, <1>12, <2>1 DEF FoundedAfter, Kinded
  <2> QED
    BY <1>12, <2>1, <2>2 DEF FoundedAfter, AskedFor, Satisfied, Stages, Sees, Shows
<1>13. CASE c.kind = "sometime-before"
  <2>1. FoundedBefore(c, o, trace, L) /\ c \in o.violated
    BY <1>1, <1>2, <1>3, <1>13 DEF Founded, Kinded
  <2> QED
    BY <1>13, <2>1 DEF FoundedBefore, AskedFor, Satisfied, Stages, Sees, Shows
<1>14. CASE c.kind = "always-within"
  <2>1. FoundedAlwaysWithin(c, o, trace, L, t)
    BY <1>2, <1>14 DEF Founded
  <2>2. c \in o.violated \/ \E d : <<c, d>> \in o.within
    BY <1>1, <1>3, <1>4, <1>14 DEF Kinded
  <2>3. PICK k \in 1..L :
          /\ Shows(trace, k, c.q)
          /\ \A j \in k..L : Shows(trace, j, c.p) => trace[j].time > trace[k].time + c.by
    BY <2>1, <2>2 DEF FoundedAlwaysWithin
  <2>4. \A j \in k..L : trace[j].time \in Int /\ trace[k].time \in Int
    BY <1>5
  <2>5. ~Satisfied(c)
    BY <1>5, <1>14, <2>3, <2>4 DEF Satisfied, Stages, Sees, Shows
  <2> QED
    BY <2>5, AskedIsEnough
<1> QED
  BY <1>6, <1>7, <1>8, <1>9, <1>10, <1>11, <1>12, <1>13, <1>14 DEF ConstraintKinds
-----------------------------------------------------------------------------
(* The execution, as long as nothing has failed.                             *)

Unfailed == phase \in {"execute", "goal"} /\ isOK

\* The trace ends with the state the execution is in.
TraceInv ==
    /\ \E S : trace \in Seq(S)
    /\ Len(trace) >= 1
    /\ trace[Len(trace)].state = state /\ trace[Len(trace)].values = values
    /\ \A k \in 1..Len(trace) : trace[k].time \in Nat

\* The iterator stands before the happening that is to be executed next, or at
\* the invariants after the last one executed, or behind all of them.
PlaceInv ==
    /\ kind \in {"REGULAR", "INVARIANT", "END"}
    /\ kind = "REGULAR" => \E t \in Times : next = t /\ Number(t) = Len(trace)
    /\ kind = "INVARIANT" =>
          \E t \in Times : next = t /\ Later(t) # {} /\ Number(t) + 1 = Len(trace)
    /\ kind = "END" => Len(trace) = Cardinality(Times) + 1
    /\ phase = "goal" => kind = "END"

\* Only the check of the invariants lets the time run ahead of the state.
TimeInv ==
    /\ time \in Nat /\ trace[Len(trace)].time <= time
    /\ kind = "REGULAR" => time <= next
    /\ kind # "REGULAR" => time = trace[Len(trace)].time
    /\ kind = "INVARIANT" => time = next

\* The context has the invariants of the actions that are running.
ContextHas(inv, t) ==
    \A s \in Plan :
        Op(s.op).durative /\ Op(s.op).over # {} /\ s.start <= t /\ t < s.end => s.op \in inv

ContextInv == kind # "END" => \E t \in Times : next = t /\ ContextHas(invariants, t)

\* The actions of every happening that was applied could be.
DoneInv ==
    \A t \in Times : Number(t) < Len(trace) =>
        \A a \in ActionsAt(t) :
            /\ TrueBefore(Snap(a).pre, t)
            /\ a[2] = "start" /\ Op(a[1]).durative => DurationOf(a[1]) \in Op(a[1]).durations

\* The invariants were true in every state that has been left, and are in the
\* present one when the next happening is to come.
InsideInv ==
    \A s \in Plan : Op(s.op).durative =>
        \A k \in Inside(s) :
            k < Len(trace) \/ (k = Len(trace) /\ kind = "REGULAR") => TrueIn(Op(s.op).over, k)

\* The monitor has seen all states but the last, or that one, too.
Monitored(C, m, tr, n, s) ==
    \A c \in C : /\ c \in m.violated \/ Watched(c, m, tr, n)
                 /\ Founded(c, m, tr, n, s)

MonitorInv ==
    /\ tjm \in Monitors(problem.constraints) /\ Kinded(tjm) /\ NothingSerious(tjm)
    /\ \E n \in {Len(trace) - 1, Len(trace)}, s \in Int :
          /\ s <= time /\ (n = Len(trace) - 1 => time = trace[Len(trace)].time)
          /\ Monitored(problem.constraints, tjm, trace, n, s)

Inv ==
    /\ problem \in Problems /\ phase \in {"execute", "goal", "valid", "invalid"}
    /\ phase = "goal" => isOK
    /\ Unfailed => TraceInv /\ PlaceInv /\ TimeInv /\ ContextInv /\ DoneInv /\ InsideInv /\ MonitorInv

\* What the plan says does not change with the state.
LEMMA PlanFixed ==
  ASSUME problem' = problem
  PROVE  /\ Plan' = Plan /\ Times' = Times
         /\ \A t : /\ Number(t)' = Number(t) /\ Later(t)' = Later(t)
                   /\ NextTime(t)' = NextTime(t) /\ ActionsAt(t)' = ActionsAt(t)
         /\ \A o : Op(o)' = Op(o) /\ DurationOf(o)' = DurationOf(o)
         /\ \A a : Snap(a)' = Snap(a)
         /\ \A s : Inside(s)' = Inside(s)
<1>1. Plan' = Plan /\ \A o : Op(o)' = Op(o)
  BY DEF Plan, Op
<1>2. Times' = Times
  BY <1>1 DEF Times
<1>3. \A t : /\ Number(t)' = Number(t) /\ Later(t)' = Later(t)
  BY <1>2 DEF Number, Later
<1>4. \A t : NextTime(t)' = NextTime(t)
  BY <1>3 DEF NextTime
<1>5. \A t : ActionsAt(t)' = ActionsAt(t)
  BY <1>1 DEF ActionsAt, StartsAt, EndsAt
<1>6. \A o : DurationOf(o)' = DurationOf(o)
  BY <1>1 DEF DurationOf
<1>7. \A a : Snap(a)' = Snap(a)
  BY <1>1 DEF Snap
<1>8. \A s : Inside(s)' = Inside(s)
  BY <1>3 DEF Inside
<1> QED
  BY <1>1, <1>2, <1>3, <1>4, <1>5, <1>6, <1>7, <1>8

\* A step of the plan starts and ends at happenings.
LEMMA StepTimes ==
  ASSUME problem \in Problems, NEW s \in Plan
  PROVE  /\ s.start \in Times /\ s.start \in Nat /\ s.end \in Nat /\ s.start <= s.end
         /\ Op(s.op).durative => s.end \in Times
         /\ <<s.op, "start">> \in ActionsAt(s.start)
         /\ \A r \in Plan : r.op = s.op => r = s
<1>1. s.start \in Times /\ (Op(s.op).durative => s.end \in Times)
  BY DEF Times
<1>2. s.op \in StartsAt(s.start)
  BY DEF StartsAt
<1> QED
  BY <1>1, <1>2, ProblemsAssumption DEF Plan, ActionsAt

\* An action runs in the states before the happenings after its start, up to
\* its end.
LEMMA InsideNumbers ==
  ASSUME problem \in Problems, NEW s \in Plan, Op(s.op).durative, NEW k \in Inside(s)
  PROVE  /\ k \in Nat /\ k > 1 /\ k <= Cardinality(Times)
         /\ \A t \in Times : Number(t) = k => s.start < t /\ t <= s.end
<1>1. s.start \in Times /\ s.end \in Times /\ \A t \in Times : t \in Nat
  BY StepTimes, TimesFinite
<1>2. Cardinality(Times) \in Nat
  BY TimesFinite, FS_CardinalityType
<1>3. \A t \in Times : Number(t) \in 1..Cardinality(Times)
  BY Numbered
<1>4. k \in (Number(s.start) + 1)..Number(s.end)
  BY DEF Inside
<1>5. /\ k \in Nat /\ k > 1 /\ k <= Cardinality(Times)
      /\ Number(s.start) < k /\ k <= Number(s.end)
  BY <1>1, <1>2, <1>3, <1>4
<1>6. ASSUME NEW t \in Times, Number(t) = k PROVE s.start < t /\ t <= s.end
  <2>1. ~ (t < s.start) /\ t # s.start
    BY <1>1, <1>3, <1>5, <1>6, Numbered
  <2>2. ~ (s.end < t)
    BY <1>1, <1>3, <1>5, <1>6, Numbered
  <2> QED
    BY <1>1, <2>1, <2>2
<1> QED
  BY <1>5, <1>6

\* The adjusted context has the invariants for the next happening.
LEMMA ContextAdjusted ==
  ASSUME problem \in Problems, NEW t \in Times, Later(t) # {}, NEW inv, ContextHas(inv, t), NEW late
  PROVE  ContextHas(AdjustInvariants(inv, NextTime(t), late), NextTime(t))
<1> DEFINE u == NextTime(t)
<1>1. u \in Times /\ u > t /\ t \in Nat /\ u \in Nat /\ \A v \in Times : v <= t \/ v >= u
  BY NextNumber, TimesFinite
<1> HIDE DEF u
<1>2. ASSUME NEW s \in Plan, Op(s.op).durative, Op(s.op).over # {}, s.start <= u, u < s.end
      PROVE  s.op \in AdjustInvariants(inv, u, late)
  <2>1. /\ s.start \in Times /\ s.start \in Nat /\ s.end \in Nat
        /\ \A r \in Plan : r.op = s.op => r = s
    BY StepTimes
  <2>2. CASE s.start = u
    BY <1>1, <1>2, <2>1, <2>2 DEF AdjustInvariants, Starting, StartsAt, EndsAt
  <2>3. CASE s.start # u
    <3>1. s.start <= t /\ t < s.end
      BY <1>1, <1>2, <2>1, <2>3
    <3>2. s.op \in inv
      BY <1>2, <3>1 DEF ContextHas
    <3>3. s.op \notin EndsAt(u)
      BY <1>1, <1>2, <2>1 DEF EndsAt
    <3> QED
      BY <3>2, <3>3 DEF AdjustInvariants
  <2> QED
    BY <2>2, <2>3
<1> QED
  BY <1>2 DEF ContextHas, u

\* The first happening puts the invariants of its actions into the context.
LEMMA ContextAtFirst ==
  ASSUME problem \in Problems, Times # {}, NEW late
  PROVE  ContextHas(AdjustInvariants({}, Min(Times), late), Min(Times))
<1>1. Min(Times) \in Times /\ \A u \in Times : Min(Times) <= u /\ u \in Nat
  BY TimesFinite, Smallest
<1>2. ASSUME NEW s \in Plan, Op(s.op).durative, Op(s.op).over # {},
             s.start <= Min(Times), Min(Times) < s.end
      PROVE  s.op \in AdjustInvariants({}, Min(Times), late)
  <2>1. /\ s.start \in Times /\ s.start \in Nat /\ Min(Times) \in Nat /\ Min(Times) <= s.start
        /\ s.end \in Nat /\ \A r \in Plan : r.op = s.op => r = s
    BY <1>1, StepTimes
  <2>2. s.start = Min(Times) /\ s.end # Min(Times)
    BY <1>2, <2>1
  <2> QED
    BY <1>2, <2>1, <2>2 DEF AdjustInvariants, Starting, StartsAt, EndsAt
<1> QED
  BY <1>2 DEF ContextHas

\* The promises depend on the states seen only.
LEMMA SameStates ==
  ASSUME NEW C, NEW m, NEW tr, NEW tr2, NEW n \in Nat, NEW s, Monitored(C, m, tr, n, s),
         \A k \in 1..n : tr2[k] = tr[k]
  PROVE  Monitored(C, m, tr2, n, s)
<1> SUFFICES ASSUME NEW c \in C
             PROVE  /\ c \in m.violated \/ Watched(c, m, tr2, n)
                    /\ Founded(c, m, tr2, n, s)
  BY DEF Monitored
<1>1. /\ c \in m.violated \/ Watched(c, m, tr, n)
      /\ Founded(c, m, tr, n, s)
  BY DEF Monitored
<1>2. /\ \A k \in 1..n : tr2[k].time = tr[k].time /\ \A p : Shows(tr2, k, p) <=> Shows(tr, k, p)
      /\ \A k \in 1..n : \A j \in k..n : j \in 1..n
      /\ \A k \in 1..n : \A j \in 1..(k - 1) : j \in 1..n
  BY DEF Shows
<1>3. Watched(c, m, tr, n) => Watched(c, m, tr2, n)
  BY <1>2 DEF Watched, WatchedAlways, WatchedSometime, WatchedWithin, WatchedOnce,
         WatchedAfter, WatchedBefore, WatchedAlwaysWithin, WatchedHold
<1>4. Founded(c, m, tr2, n, s)
  BY <1>1, <1>2 DEF Founded, FoundedAlways, FoundedSometime, FoundedWithin, FoundedOnce,
         FoundedAfter, FoundedBefore, FoundedAlwaysWithin
<1> QED
  BY <1>1, <1>3, <1>4
\* The execution starts with nothing failed.
LEMMA InitInv == Init => Inv
<1> SUFFICES ASSUME Init PROVE Inv
  OBVIOUS
<1> DEFINE C == problem.constraints
<1>1. /\ problem \in Problems /\ phase = "execute" /\ isOK = TRUE /\ time = 0
      /\ tjm = NewMonitor(C)
      /\ trace = <<[time |-> 0, state |-> problem.init, values |-> problem.vals]>>
      /\ state = problem.init /\ values = problem.vals
      /\ \A c \in C : c.kind \in ConstraintKinds /\ c.from \in Int /\ c.by \in Int
  BY ProblemsAssumption DEF Init
<1>2. /\ Len(trace) = 1 /\ trace[1].time = 0
      /\ trace[1].state = state /\ trace[1].values = values
      /\ trace \in Seq({trace[1]})
  BY <1>1
<1>3. TraceInv
  BY <1>2 DEF TraceInv
<1>4. MonitorInv
  <2>1. tjm \in Monitors(C) /\ Kinded(tjm)
    BY <1>1, NewMonitorTyped, KindedAtFirst
  <2>2. NothingSerious(tjm)
    BY <1>1 DEF NothingSerious, NewMonitor
  <2>3. Monitored(C, tjm, trace, 0, 0)
    BY <1>1, WatchedAtFirst, FoundedAtFirst DEF Monitored
  <2> QED
    BY <1>1, <1>2, <2>1, <2>2, <2>3 DEF MonitorInv
<1>5. PlaceInv /\ TimeInv /\ ContextInv /\ DoneInv /\ InsideInv
  <2>1. CASE Times = {}
    <3>1. kind = "END" /\ Cardinality(Times) = 0
      BY <2>1, FS_EmptySet DEF Init
    <3>2. Plan = {}
      BY <1>1, <2>1, StepTimes
    <3> QED
      BY <1>1, <1>2, <2>1, <3>1, <3>2 DEF PlaceInv, TimeInv, ContextInv, DoneInv, InsideInv
  <2>2. CASE Times # {}
    <3>1. /\ kind = "REGULAR" /\ next = Min(Times)
          /\ \E late : invariants = AdjustInvariants({}, next, late)
      BY <2>2 DEF Init
    <3>2. Min(Times) \in Times /\ Number(Min(Times)) = 1 /\ Min(Times) \in Nat
      BY <1>1, <2>2, FirstNumber, TimesFinite
    <3>3. PlaceInv /\ TimeInv
      BY <1>1, <1>2, <3>1, <3>2 DEF PlaceInv, TimeInv
    <3>4. ContextInv
      BY <1>1, <2>2, <3>1, <3>2, ContextAtFirst DEF ContextInv
    <3>5. \A t \in Times : Number(t) \in Nat /\ Number(t) >= 1
      BY <1>1, Numbered, TimesFinite, FS_CardinalityType
    <3>6. DoneInv
      BY <1>2, <3>5 DEF DoneInv
    <3>7. \A s \in Plan : Op(s.op).durative => \A k \in Inside(s) : k \in Nat /\ k > 1
      BY <1>1, InsideNumbers
    <3>8. InsideInv
      BY <1>2, <3>7 DEF InsideInv
    <3> QED
      BY <3>3, <3>4, <3>6, <3>8
  <2> QED
    BY <2>1, <2>2
<1> QED
  BY <1>1, <1>3, <1>4, <1>5 DEF Inv

\* The look the next step takes is at the last state.
LEMMA LookDue ==
  ASSUME Inv, Unfailed
  PROVE  /\ tjm \in Monitors(problem.constraints) /\ Kinded(tjm)
         /\ \E n \in {Len(trace) - 1, Len(trace)}, s \in Int :
              /\ Looks(problem.constraints, tjm, trace, Len(trace), n, time) /\ s <= time
              /\ Monitored(problem.constraints, tjm, trace, n, s)
<1> DEFINE C == problem.constraints
           L == Len(trace)
<1>1. TraceInv /\ TimeInv /\ MonitorInv /\ problem \in Problems
  BY DEF Inv
<1>2. /\ tjm \in Monitors(C) /\ Kinded(tjm) /\ time \in Nat
      /\ \A c \in C : c.kind \in ConstraintKinds /\ c.from \in Int /\ c.by \in Int
      /\ \A c \in C : c.kind = "hold-after" => c.by = 0
  BY <1>1, ProblemsAssumption DEF MonitorInv, TimeInv
<1>3. L \in Nat \ {0}
  BY <1>1 DEF TraceInv
<1>4. PICK n \in {L - 1, L}, s \in Int :
         /\ s <= time /\ (n = L - 1 => time = trace[L].time)
         /\ Monitored(C, tjm, trace, n, s)
  BY <1>1 DEF MonitorInv
<1>5. Looks(C, tjm, trace, L, n, time)
  BY <1>1, <1>2, <1>3, <1>4 DEF Looks, TimeInv, TraceInv
<1> QED
  BY <1>2, <1>4, <1>5

\* A look at the present state keeps the monitor's promises for it.
LEMMA LookTaken ==
  ASSUME Inv, Unfailed, NEW m, m = CheckAtState(tjm, state, time)
  PROVE  /\ m \in Monitors(problem.constraints) /\ Kinded(m)
         /\ Monitored(problem.constraints, m, trace, Len(trace), time)
<1> DEFINE C == problem.constraints
           L == Len(trace)
<1>1. /\ L \in Nat \ {0} /\ trace[L].state = state /\ time \in Int
      /\ tjm \in Monitors(C) /\ Kinded(tjm) /\ \A c \in C : c.by \in Int
  BY ProblemsAssumption, LookDue DEF Inv, TraceInv, TimeInv
<1>2. PICK n \in {L - 1, L}, s \in Int :
        Looks(C, tjm, trace, L, n, time) /\ s <= time /\ Monitored(C, tjm, trace, n, s)
  BY LookDue
<1>3. m \in Monitors(C) /\ Kinded(m) /\ m.violated = tjm.violated \cup ViolatedAt(tjm, state, time)
  BY <1>1, Checked, KindedKept
<1>4. ASSUME NEW c \in C
      PROVE  /\ c \in m.violated \/ Watched(c, m, trace, L)
             /\ Founded(c, m, trace, L, time)
  <2>1. Founded(c, tjm, trace, n, s) /\ (c \in tjm.violated \/ Watched(c, tjm, trace, n))
    BY <1>2 DEF Monitored
  <2>2. Founded(c, m, trace, L, time)
    BY <1>1, <1>2, <2>1, FoundedKept
  <2>3. c \notin m.violated => Watched(c, m, trace, L)
    BY <1>1, <1>2, <1>3, <2>1, WatchedKept
  <2> QED
    BY <2>2, <2>3
<1> QED
  BY <1>3, <1>4 DEF Monitored

\* The context follows the iterator to the next happening.
LEMMA NextContext ==
  ASSUME problem \in Problems, problem' = problem, ContextInv, kind # "END",
         NEW t \in Times, next = t, Later(t) # {},
         next' = NextTime(t),
         NEW late, invariants' = AdjustInvariants(invariants, NextTime(t), late)
  PROVE  ContextInv'
<1> DEFINE u == NextTime(t)
           inv == AdjustInvariants(invariants, u, late)
<1>1. ContextHas(invariants, t)
  BY DEF ContextInv
<1>2. u \in Times /\ ContextHas(inv, u)
  BY <1>1, ContextAdjusted, NextNumber
<1> QED
  BY <1>2, PlanFixed DEF ContextInv, ContextHas

\* The context stays while the iterator stops at the invariants.
LEMMA SameContext ==
  ASSUME problem' = problem, ContextInv, kind # "END", next' = next, invariants' = invariants
  PROVE  ContextInv'
<1>1. PICK t \in Times : next = t /\ ContextHas(invariants, t)
  BY DEF ContextInv
<1> QED
  BY <1>1, PlanFixed DEF ContextInv, ContextHas

\* A regular happening that goes well keeps the invariant.
LEMMA RegularInv ==
  ASSUME Inv, Unfailed, Unfailed', ExecuteRegular, ~ContinueAnyway
  PROVE  Inv'
<1> DEFINE C == problem.constraints
           L == Len(trace)
           r == [time |-> next, state |-> state', values |-> values']
           m == CheckAtState(tjm, state, time)
<1>1. /\ TraceInv /\ PlaceInv /\ TimeInv /\ ContextInv /\ DoneInv /\ InsideInv /\ MonitorInv
      /\ problem \in Problems /\ kind = "REGULAR" /\ phase = "execute"
  BY DEF Inv, ExecuteRegular, Executing
<1>2. /\ tjm' = m /\ NothingSerious(tjm') /\ CanHappen(next) /\ time' = next
      /\ trace' = Append(trace, r) /\ problem' = problem /\ phase' = phase /\ Advance
  BY DEF ExecuteRegular, Unfailed
<1>3. PICK t \in Times : next = t /\ Number(t) = L
  BY <1>1 DEF PlaceInv
<1>4. /\ t \in Nat /\ L \in Nat \ {0} /\ Cardinality(Times) \in Nat
      /\ \A u \in Times : u \in Nat /\ Number(u) \in 1..Cardinality(Times)
      /\ \A u \in Times : Number(u) = L => u = t
  <2>1. t \in Nat /\ Cardinality(Times) \in Nat /\ \A u \in Times : u \in Nat
    BY <1>1, TimesFinite, FS_CardinalityType
  <2>2. L \in Nat \ {0}
    BY <1>1 DEF TraceInv
  <2>3. \A u \in Times : Number(u) \in 1..Cardinality(Times)
    BY <1>1, Numbered
  <2>4. \A u \in Times : Number(u) = L => ~ (u < t) /\ ~ (t < u)
    BY <1>1, <1>3, <2>1, <2>3, Numbered
  <2> QED
    BY <2>1, <2>2, <2>3, <2>4
<1>5. /\ Len(trace') = L + 1 /\ trace'[L + 1] = r
      /\ \A k \in 1..L : trace'[k] = trace[k]
      /\ \E S : trace' \in Seq(S)
  <2>1. PICK S : trace \in Seq(S)
    BY <1>1 DEF TraceInv
  <2>2. trace \in Seq(S \cup {r}) /\ r \in S \cup {r}
    BY <2>1
  <2> HIDE DEF r
  <2> QED
    BY <1>2, <2>2
<1>6. \A k \in 1..L : \A c : TrueIn(c, k)' <=> TrueIn(c', k)
  BY <1>5 DEF TrueIn
<1>7. TraceInv'
  BY <1>1, <1>3, <1>4, <1>5 DEF TraceInv
<1>8. /\ kind' \in {"REGULAR", "INVARIANT", "END"}
      /\ kind' = "REGULAR" => /\ Later(t) # {} /\ next' = NextTime(t) /\ invariants = {}
                              /\ \E late : invariants' = AdjustInvariants(invariants, NextTime(t), late)
      /\ kind' = "INVARIANT" => Later(t) # {} /\ next' = t /\ invariants' = invariants
      /\ kind' = "END" => Later(t) = {}
  BY <1>1, <1>2, <1>3 DEF Advance, HasInvariants
<1>9. Later(t) # {} => /\ NextTime(t) \in Times /\ NextTime(t) > t
                       /\ (\A u \in Times : u <= t \/ u >= NextTime(t))
                       /\ Number(NextTime(t)) = L + 1
  BY <1>1, <1>3, NextNumber
<1>10. PlaceInv'
  <2>1. kind' = "REGULAR" => \E u \in Times' : next' = u /\ Number(u)' = Len(trace')
    BY <1>2, <1>5, <1>8, <1>9, PlanFixed
  <2>2. kind' = "INVARIANT" =>
          \E u \in Times' : next' = u /\ Later(u)' # {} /\ Number(u)' + 1 = Len(trace')
    BY <1>2, <1>3, <1>5, <1>8, PlanFixed
  <2>3. kind' = "END" => Len(trace') = Cardinality(Times') + 1
    BY <1>1, <1>2, <1>3, <1>5, <1>8, LastNumber, PlanFixed
  <2> QED
    BY <1>1, <1>2, <1>8, <2>1, <2>2, <2>3 DEF PlaceInv
<1>11. TimeInv'
  <2>1. trace'[Len(trace')].time = t /\ time' = t
    BY <1>2, <1>3, <1>5
  <2>2. kind' = "REGULAR" => next' > t /\ next' \in Nat
    BY <1>4, <1>8, <1>9
  <2> QED
    BY <1>4, <1>8, <2>1, <2>2 DEF TimeInv
<1>12. ContextInv'
  <2>1. CASE kind' = "REGULAR"
    BY <1>1, <1>2, <1>3, <1>8, <2>1, NextContext
  <2>2. CASE kind' = "INVARIANT"
    BY <1>1, <1>2, <1>3, <1>8, <2>2, SameContext
  <2>3. CASE kind' = "END"
    BY <2>3 DEF ContextInv
  <2> QED
    BY <1>8, <2>1, <2>2, <2>3
<1>13. DoneInv'
  <2> SUFFICES ASSUME NEW u \in Times, Number(u) < L + 1, NEW a \in ActionsAt(u)
               PROVE  /\ TrueIn(Snap(a).pre, Number(u))'
                      /\ a[2] = "start" /\ Op(a[1]).durative => DurationOf(a[1]) \in Op(a[1]).durations
    BY <1>2, <1>5, PlanFixed DEF DoneInv, TrueBefore
  <2>1. Number(u) \in 1..L /\ Number(u)' = Number(u) /\ Snap(a)' = Snap(a)
    BY <1>2, <1>4, PlanFixed
  <2>2. CASE Number(u) < L
    BY <1>1, <1>6, <2>1, <2>2 DEF DoneInv, TrueBefore
  <2>3. CASE Number(u) = L
    <3>1. u = t /\ Confirmed(a)
      BY <1>2, <1>3, <1>4, <2>3 DEF CanHappen
    <3>2. IsTrue(Snap(a).pre, trace[L].state, trace[L].values)
      BY <1>1, <3>1 DEF Confirmed, TraceInv
    <3> QED
      BY <1>5, <1>6, <2>1, <2>3, <3>1, <3>2 DEF TrueIn, Confirmed
  <2> QED
    BY <1>4, <2>1, <2>2, <2>3
<1>14. InsideInv'
  <2> SUFFICES ASSUME NEW s \in Plan, Op(s.op).durative, NEW k \in Inside(s),
                      k < L + 1 \/ (k = L + 1 /\ kind' = "REGULAR")
               PROVE  TrueIn(Op(s.op).over, k)'
    BY <1>2, <1>5, PlanFixed DEF InsideInv
  <2>1. k \in Nat /\ k > 1 /\ \A u \in Times : Number(u) = k => s.start < u /\ u <= s.end
    BY <1>1, InsideNumbers
  <2>2. Op(s.op)' = Op(s.op)
    BY <1>2, PlanFixed
  <2>3. CASE k < L + 1
    <3>1. k \in 1..L /\ TrueIn(Op(s.op).over, k)
      BY <1>1, <1>4, <2>1, <2>3 DEF InsideInv
    <3> QED
      BY <1>5, <2>2, <3>1 DEF TrueIn
  <2>4. CASE k = L + 1 /\ kind' = "REGULAR"
    <3>1. PICK u \in Times : /\ u = NextTime(t) /\ Number(u) = k /\ u > t
                             /\ \A v \in Times : v <= t \/ v >= u
      BY <1>8, <1>9, <2>4
    <3>2. /\ s.start < u /\ u <= s.end /\ s.start \in Times
          /\ s.start \in Nat /\ s.end \in Nat /\ u \in Nat /\ t \in Nat
      BY <1>1, <1>4, <2>1, <3>1, StepTimes
    <3>3. s.start <= t /\ t < s.end
      <4>1. s.start <= t \/ s.start >= u
        BY <3>1, <3>2
      <4> QED
        BY <3>1, <3>2, <4>1
    <3>4. Op(s.op).over = {}
      BY <1>1, <1>3, <1>8, <2>4, <3>3 DEF ContextInv, ContextHas
    <3> QED
      BY <2>2, <3>4 DEF TrueIn, IsTrue
  <2> QED
    BY <2>3, <2>4
<1>15. MonitorInv'
  <2>1. m \in Monitors(C) /\ Kinded(m) /\ Monitored(C, m, trace, L, time)
    BY LookTaken
  <2>2. Monitored(C, m, trace', L, time)
    BY <1>4, <1>5, <2>1, SameStates
  <2>3. time \in Int /\ time <= t
    BY <1>1, <1>3 DEF TimeInv
  <2>4. L = Len(trace') - 1 /\ time' = trace'[Len(trace')].time /\ time <= time'
    BY <1>2, <1>3, <1>4, <1>5, <2>3
  <2> HIDE DEF m, L
  <2> QED
    BY <1>2, <2>1, <2>2, <2>3, <2>4 DEF MonitorInv
<1> QED
  BY <1>1, <1>2, <1>7, <1>10, <1>11, <1>12, <1>13, <1>14, <1>15 DEF Inv

\* A check that finds the invariants true keeps the invariant.
LEMMA InvariantsInv ==
  ASSUME Inv, Unfailed, Unfailed', ExecuteInvariant, ~ContinueAnyway
  PROVE  Inv'
<1> DEFINE C == problem.constraints
           L == Len(trace)
           m == CheckAtState(tjm, state, time)
<1>1. /\ TraceInv /\ PlaceInv /\ TimeInv /\ ContextInv /\ DoneInv /\ InsideInv /\ MonitorInv
      /\ problem \in Problems /\ kind = "INVARIANT" /\ phase = "execute"
  BY DEF Inv, ExecuteInvariant, Executing
<1>2. PICK t \in Times : next = t /\ Later(t) # {} /\ Number(t) + 1 = L
  BY <1>1 DEF PlaceInv
<1>3. /\ tjm' = m /\ NothingSerious(tjm') /\ time' = NextTime(t)
      /\ \A o \in invariants : IsTrue(Op(o).over, state, values)
      /\ kind' = "REGULAR" /\ next' = NextTime(t)
      /\ \E late : invariants' = AdjustInvariants(invariants, NextTime(t), late)
      /\ UNCHANGED <<problem, state, values, phase, trace>>
  BY <1>1, <1>2 DEF ExecuteInvariant, Unfailed, Advance
<1>4. PICK u \in Times : /\ u = NextTime(t) /\ Number(u) = L /\ u > t
                         /\ \A v \in Times : v <= t \/ v >= u
  BY <1>1, <1>2, NextNumber
<1>5. L \in Nat \ {0} /\ t \in Nat /\ u \in Nat
  BY <1>1, TimesFinite DEF TraceInv
<1>6. TraceInv'
  BY <1>1, <1>3 DEF TraceInv
<1>7. PlaceInv'
  <2>1. \E v \in Times' : next' = v /\ Number(v)' = Len(trace')
    BY <1>3, <1>4, PlanFixed
  <2> QED
    BY <1>1, <1>3, <2>1 DEF PlaceInv
<1>8. time = t /\ time <= u /\ trace[L].time = t
  BY <1>1, <1>2, <1>4, <1>5 DEF TimeInv
<1>9. TimeInv'
  BY <1>3, <1>4, <1>5, <1>8 DEF TimeInv
<1>10. ContextInv'
  BY <1>1, <1>2, <1>3, NextContext
<1>11. \A k : \A c : TrueIn(c, k)' <=> TrueIn(c', k')
  BY <1>3 DEF TrueIn
<1>12. DoneInv'
  BY <1>1, <1>3, PlanFixed DEF DoneInv, TrueBefore, TrueIn
<1>13. InsideInv'
  <2> SUFFICES ASSUME NEW s \in Plan, Op(s.op).durative, NEW k \in Inside(s),
                      k < L \/ k = L
               PROVE  TrueIn(Op(s.op).over, k)'
    BY <1>3, PlanFixed DEF InsideInv
  <2>1. TrueIn(Op(s.op).over, k)' <=> TrueIn(Op(s.op).over, k)
    BY <1>3, PlanFixed DEF TrueIn
  <2>2. CASE k < L
    BY <1>1, <2>1, <2>2 DEF InsideInv
  <2>3. CASE k = L
    <3>1. /\ s.start < u /\ u <= s.end /\ s.start \in Times
          /\ s.start \in Nat /\ s.end \in Nat
      BY <1>1, <1>4, <2>3, InsideNumbers, StepTimes
    <3>2. s.start <= t /\ t < s.end
      <4>1. s.start <= t \/ s.start >= u
        BY <1>4, <3>1
      <4> QED
        BY <1>4, <1>5, <3>1, <4>1
    <3>3. Op(s.op).over # {} => s.op \in invariants
      BY <1>1, <1>2, <3>2 DEF ContextInv, ContextHas
    <3>4. IsTrue(Op(s.op).over, state, values)
      BY <1>3, <3>3 DEF IsTrue
    <3> QED
      BY <1>1, <2>1, <2>3, <3>4 DEF TrueIn, TraceInv
  <2> QED
    BY <2>2, <2>3
<1>14. MonitorInv'
  <2>1. m \in Monitors(C) /\ Kinded(m) /\ Monitored(C, m, trace, L, time)
    BY LookTaken
  <2>2. L \in {L - 1, L} /\ L # L - 1 /\ time \in Int /\ time <= time'
    BY <1>3, <1>4, <1>5, <1>8
  <2> HIDE DEF m
  <2> QED
    BY <1>3, <2>1, <2>2 DEF MonitorInv
<1> QED
  BY <1>1, <1>3, <1>6, <1>7, <1>9, <1>10, <1>12, <1>13, <1>14 DEF Inv

\* While nothing has failed, the invariant is kept by every step.
LEMMA StepInv ==
  ASSUME Inv, [Next]_vars, ~ContinueAnyway
  PROVE  Inv'
<1>1. /\ problem' \in Problems /\ phase' \in {"execute", "goal", "valid", "invalid"}
      /\ phase' = "goal" => isOK'
  <2>1. CASE ExecuteRegular \/ ExecuteInvariant
    BY <2>1 DEF Inv, ExecuteRegular, ExecuteInvariant, Executing
  <2>2. CASE EndExecution
    BY <2>2 DEF Inv, EndExecution
  <2>3. CASE CheckGoal
    BY <2>3 DEF Inv, CheckGoal
  <2>4. CASE UNCHANGED vars
    BY <2>4 DEF Inv, vars
  <2> QED
    BY <2>1, <2>2, <2>3, <2>4 DEF Next, Finished
<1> SUFFICES ASSUME Unfailed' PROVE Inv'
  BY <1>1 DEF Inv
<1>2. CASE ExecuteRegular
  BY <1>2, RegularInv DEF ExecuteRegular, Executing, Unfailed
<1>3. CASE ExecuteInvariant
  BY <1>3, InvariantsInv DEF ExecuteInvariant, Executing, Unfailed
<1>4. ASSUME UNCHANGED <<problem, next, kind, context, state, values, time, tjm, isOK, trace>>,
             Unfailed, phase' = "goal" => kind = "END"
      PROVE  Inv'
  <2>1. TraceInv /\ PlaceInv /\ TimeInv /\ ContextInv /\ DoneInv /\ InsideInv /\ MonitorInv
    BY <1>4 DEF Inv
  <2>2. TraceInv' /\ TimeInv'
    BY <1>4, <2>1 DEF TraceInv, TimeInv
  <2>3. PlaceInv' /\ ContextInv'
    BY <1>4, <2>1, PlanFixed, SameContext DEF PlaceInv, ContextInv, context
  <2>4. DoneInv' /\ InsideInv'
    BY <1>4, <2>1, PlanFixed DEF DoneInv, InsideInv, TrueBefore, TrueIn
  <2>5. MonitorInv'
    BY <1>4, <2>1 DEF MonitorInv
  <2> QED
    BY <1>1, <2>2, <2>3, <2>4, <2>5 DEF Inv
<1>5. CASE EndExecution
  <2>1. Unfailed /\ kind = "END"
    BY <1>5 DEF EndExecution, Executing, Unfailed
  <2> QED
    BY <1>4, <1>5, <2>1 DEF EndExecution
<1>6. CASE CheckGoal
  BY <1>6 DEF CheckGoal, Unfailed
<1>7. CASE UNCHANGED vars
  <2>1. Unfailed /\ (phase' = "goal" => kind = "END")
    BY <1>7 DEF vars, Unfailed, Inv, PlaceInv
  <2> QED
    BY <1>4, <1>7, <2>1 DEF vars
<1> QED
  BY <1>2, <1>3, <1>5, <1>6, <1>7 DEF Next, Finished
-----------------------------------------------------------------------------
(* The verdict.                                                              *)

\* What AcceptedIsValid says of an accepted plan, but for its constraints.
PlanIsOne ==
    /\ Executed
    /\ \A s \in {s \in Plan : Op(s.op).durative} :
          /\ s.end - s.start \in Op(s.op).durations
          /\ \A k \in Inside(s) : TrueIn(Op(s.op).over, k)
    /\ problem.goal \subseteq Final.state

\* When the goal is checked, the happenings have all been applied as they should.
LEMMA AllApplied ==
  ASSUME Inv, Unfailed, phase = "goal", problem.goal \subseteq state
  PROVE  PlanIsOne
<1> DEFINE N == Cardinality(Times)
<1>1. /\ TraceInv /\ DoneInv /\ InsideInv /\ problem \in Problems /\ Len(trace) = N + 1
  BY DEF Inv, PlaceInv
<1>2. N \in Nat /\ \A t \in Times : Number(t) \in 1..N
  BY <1>1, Numbered, TimesFinite, FS_CardinalityType
<1>3. \A t \in Times : Number(t) < Len(trace)
  BY <1>1, <1>2
<1>4. Executed
  BY <1>1, <1>3 DEF Executed, Applied, DoneInv
<1>5. ASSUME NEW s \in Plan, Op(s.op).durative
      PROVE  /\ s.end - s.start \in Op(s.op).durations
             /\ \A k \in Inside(s) : TrueIn(Op(s.op).over, k)
  <2>1. /\ s.start \in Times /\ <<s.op, "start">> \in ActionsAt(s.start)
        /\ \A r \in Plan : r.op = s.op => r = s
    BY <1>1, StepTimes
  <2>2. DurationOf(s.op) = s.end - s.start
    BY <2>1 DEF DurationOf
  <2>3. DurationOf(s.op) \in Op(s.op).durations
    BY <1>1, <1>3, <1>5, <2>1 DEF DoneInv
  <2>4. \A k \in Inside(s) : k \in Nat /\ k <= N
    BY <1>1, <1>5, InsideNumbers
  <2>5. \A k \in Inside(s) : TrueIn(Op(s.op).over, k)
    BY <1>1, <1>2, <1>5, <2>4 DEF InsideInv
  <2> QED
    BY <2>2, <2>3, <2>5
<1>6. problem.goal \subseteq Final.state
  BY <1>1 DEF TraceInv, Final
<1> QED
  BY <1>4, <1>5, <1>6 DEF PlanIsOne

\* The monitor's count in the final state is of what it asks for, up to the
\* windows it drops.
LEMMA CountIsRight ==
  ASSUME Inv, Unfailed, NEW c \in problem.constraints, c.kind # "hold-during"
  PROVE  LET o == CheckFinalState(tjm, state, time) IN
         /\ c \in o.violated <=> ~AskedFor(c)
         /\ c \notin o.violated => Satisfied(c)
<1> DEFINE C == problem.constraints
           L == Len(trace)
<1>1. trace[L].state = state /\ Kinded(tjm)
  BY LookDue DEF Inv, TraceInv
<1>2. PICK n \in {L - 1, L}, s \in Int :
        Looks(C, tjm, trace, L, n, time) /\ s <= time /\ Monitored(C, tjm, trace, n, s)
  BY LookDue
<1>3. Founded(c, tjm, trace, n, s) /\ (c \in tjm.violated \/ Watched(c, tjm, trace, n))
  BY <1>2 DEF Monitored
<1>4. c \notin CheckFinalState(tjm, state, time).violated => AskedFor(c)
  BY <1>1, <1>2, <1>3, UncountedGiven
<1>5. c \in CheckFinalState(tjm, state, time).violated => ~AskedFor(c)
  BY <1>1, <1>2, <1>3, CountedViolated
<1> QED
  BY <1>4, <1>5, AskedIsEnough

\* The verdict is about what the verdict leaves as it is.
LEMMA SamePlan ==
  ASSUME UNCHANGED <<problem, trace>>
  PROVE  /\ PlanIsOne => PlanIsOne'
         /\ \A c : (Satisfied(c)' <=> Satisfied(c)) /\ (AskedFor(c)' <=> AskedFor(c))
<1>1. \A c : Satisfied(c)' <=> Satisfied(c)
  BY DEF Satisfied, Stages, Sees
<1>4. \A c : AskedFor(c)' <=> AskedFor(c)
  BY <1>1 DEF AskedFor, Stages, Sees
<1>2. Executed => Executed'
  BY PlanFixed DEF Executed, Applied, TrueBefore, TrueIn
<1>3. PlanIsOne => PlanIsOne'
  BY <1>2, PlanFixed DEF PlanIsOne, TrueIn, Final
<1> QED
  BY <1>1, <1>3, <1>4

\* A plan is accepted only from the goal check, by a monitor that has counted
\* nothing serious in the final state.
LEMMA Accepted ==
  ASSUME Inv, [Next]_vars, phase' = "valid"
  PROVE  \/ UNCHANGED <<problem, trace, tjm>> /\ phase = "valid"
         \/ /\ UNCHANGED <<problem, trace>> /\ Unfailed /\ phase = "goal"
            /\ problem.goal \subseteq state
            /\ tjm' = CheckFinalState(tjm, state, time) /\ NothingSerious(tjm')
<1>1. CASE CheckGoal
  BY <1>1 DEF CheckGoal, Unfailed, Inv
<1>2. CASE ExecuteRegular \/ ExecuteInvariant
  BY <1>2 DEF ExecuteRegular, ExecuteInvariant, Executing
<1>3. CASE EndExecution
  BY <1>3 DEF EndExecution
<1>4. CASE UNCHANGED vars
  BY <1>4 DEF vars
<1> QED
  BY <1>1, <1>2, <1>3, <1>4 DEF Next, Finished

\* The windows of hold-during are not watched to their ends: what is said of a
\* problem with one that is no preference, or with any, is said without it.
NoHardWindows == \A pr \in Problems : \A c \in pr.constraints : c.kind = "hold-during" => c.pref
NoWindows == \A pr \in Problems : \A c \in pr.constraints : c.kind # "hold-during"

\* A plan VAL accepts is one: all its happenings were applied, every action
\* found its precondition true and had an allowed duration, the invariant of
\* every durative action was true in each state it ran in, and the goal and
\* every constraint that is no preference are met (Validator::execute,
\* Plan::const_iterator, Validator::checkGoal).
THEOREM AcceptedPlansAreValid ==
  ASSUME ~ContinueAnyway, NoHardWindows
  PROVE  Spec => []AcceptedIsValid
<1> DEFINE IInv == Inv /\ AcceptedIsValid
<1>1. Init => IInv
  BY InitInv DEF Init, AcceptedIsValid
<1>2. IInv /\ [Next]_vars => IInv'
  <2> SUFFICES ASSUME IInv, [Next]_vars, phase' = "valid" PROVE AcceptedIsValid'
    BY StepInv DEF AcceptedIsValid
  <2>1. CASE UNCHANGED <<problem, trace, tjm>> /\ phase = "valid"
    <3>1. PlanIsOne /\ \A c \in problem.constraints : ~c.pref => Satisfied(c)
      BY <2>1 DEF AcceptedIsValid, PlanIsOne
    <3>2. PlanIsOne' /\ \A c \in problem'.constraints : ~c.pref => Satisfied(c)'
      BY <2>1, <3>1, SamePlan
    <3> QED
      BY <3>2 DEF AcceptedIsValid, PlanIsOne
  <2>2. CASE /\ UNCHANGED <<problem, trace>> /\ Unfailed /\ phase = "goal"
             /\ problem.goal \subseteq state
             /\ tjm' = CheckFinalState(tjm, state, time) /\ NothingSerious(tjm')
    <3>1. PlanIsOne
      BY <2>2, AllApplied
    <3>2. ASSUME NEW c \in problem.constraints, ~c.pref
          PROVE  Satisfied(c)
      <4>1. c.kind # "hold-during"
        BY <3>2 DEF NoHardWindows, Inv
      <4>2. c \notin CheckFinalState(tjm, state, time).violated
        BY <2>2, <3>2 DEF NothingSerious
      <4> QED
        BY <2>2, <4>1, <4>2, CountIsRight
    <3>3. PlanIsOne' /\ \A c \in problem'.constraints : ~c.pref => Satisfied(c)'
      BY <2>2, <3>1, <3>2, SamePlan
    <3> QED
      BY <3>3 DEF AcceptedIsValid, PlanIsOne
  <2> QED
    BY <2>1, <2>2, Accepted
<1> QED
  BY <1>1, <1>2, PTL DEF Spec

\* When a plan is accepted, the preferences VAL has counted as violated are
\* those the states of the plan violate, although the monitor also saw states
\* again at a later time, with the invariants (checkAtState, violationSerious).
\* A hold-after is counted if it is violated, but also if it is met from its
\* time on and was not before: VAL asks for more than the constraint says.
THEOREM PreferencesAreCounted ==
  ASSUME ~ContinueAnyway, NoWindows
  PROVE  Spec => []PreferencesCounted
<1> DEFINE IInv == Inv /\ PreferencesCounted
<1>1. Init => IInv
  BY InitInv DEF Init, PreferencesCounted
<1>2. IInv /\ [Next]_vars => IInv'
  <2> SUFFICES ASSUME IInv, [Next]_vars, phase' = "valid", NEW c \in problem'.constraints
               PROVE  /\ c \in tjm'.violated => c.pref
                      /\ c \in tjm'.violated <=> ~AskedFor(c)'
    BY StepInv DEF PreferencesCounted
  <2>1. CASE UNCHANGED <<problem, trace, tjm>> /\ phase = "valid"
    BY <2>1, SamePlan DEF PreferencesCounted
  <2>2. CASE /\ UNCHANGED <<problem, trace>> /\ Unfailed /\ phase = "goal"
             /\ problem.goal \subseteq state
             /\ tjm' = CheckFinalState(tjm, state, time) /\ NothingSerious(tjm')
    <3>1. c \in problem.constraints /\ c.kind # "hold-during"
      BY <2>2 DEF NoWindows, Inv
    <3>2. c \in tjm'.violated => c.pref
      BY <2>2 DEF NothingSerious
    <3>3. AskedFor(c)' <=> AskedFor(c)
      BY <2>2, SamePlan
    <3> QED
      BY <2>2, <3>1, <3>2, <3>3, CountIsRight
  <2> QED
    BY <2>1, <2>2, Accepted
<1> QED
  BY <1>1, <1>2, PTL DEF Spec

\* A set of naturals that has 0 and, with every number, the next one.
LEMMA AllNumbers ==
  ASSUME NEW S \in SUBSET Nat, 0 \in S, \A n \in S : n + 1 \in S
  PROVE  \A n \in Nat : n \in S
<1> SUFFICES ASSUME NEW x \in Nat, x \notin S PROVE FALSE
  OBVIOUS
<1> DEFINE Missing == {y \in 0..x : y \notin S}
<1>1. IsFiniteSet(Missing) /\ Missing \in SUBSET Int /\ Missing # {}
  <2>1. IsFiniteSet(0..x) /\ Missing \in SUBSET (0..x)
    BY FS_Interval
  <2> QED
    BY <2>1, FS_Subset
<1>2. PICK y \in Missing : \A z \in Missing : y <= z
  BY <1>1, Smallest
<1>3. y \in Nat /\ y # 0 /\ y \notin S
  BY <1>2
<1>4. y - 1 \in 0..x
  BY <1>2, <1>3
<1>5. y - 1 \in S
  BY <1>2, <1>3, <1>4
<1>6. (y - 1) + 1 \in S
  BY <1>5
<1> QED
  BY <1>3, <1>6

\* A function defined by recursion over 0..n: step[<<i, v>>] is the i-th value
\* when v is the one before it.
Follows(f, n, V, base, step) ==
    f \in [0..n -> V] /\ f[0] = base /\ \A i \in 1..n : f[i] = step[<<i, f[i - 1]>>]

\* Such a function exists.
LEMMA Recursion ==
  ASSUME NEW n \in Nat, NEW V, NEW base \in V, NEW step \in [(1..n) \X V -> V]
  PROVE  \E f : Follows(f, n, V, base, step)
<1> DEFINE Reaches(f, m) == /\ f \in [0..m -> V]
                            /\ f[0] = base /\ \A i \in 1..m : f[i] = step[<<i, f[i - 1]>>]
           S == {m \in Nat : m <= n => \E f : Reaches(f, m)}
<1>1. 0 \in S
  <2> DEFINE f == [i \in 0..0 |-> base]
  <2>1. Reaches(f, 0)
    OBVIOUS
  <2> QED
    BY <2>1
<1>2. ASSUME NEW m \in S PROVE m + 1 \in S
  <2>1. m \in Nat /\ m + 1 \in Nat /\ (m + 1) - 1 = m /\ m + 1 \in 0..(m + 1)
    OBVIOUS
  <2> SUFFICES ASSUME m + 1 <= n PROVE \E g : Reaches(g, m + 1)
    BY <2>1
  <2>2. m <= n /\ m + 1 \in 1..n
    BY <2>1
  <2>3. PICK f : Reaches(f, m)
    BY <2>2
  <2>4. f[m] \in V /\ step[<<m + 1, f[m]>>] \in V
    BY <2>1, <2>2, <2>3
  <2> DEFINE g == [i \in 0..(m + 1) |-> IF i = m + 1 THEN step[<<m + 1, f[m]>>] ELSE f[i]]
  <2>5. g \in [0..(m + 1) -> V]
    BY <2>1, <2>3, <2>4
  <2>6. \A i \in 0..m : g[i] = f[i]
    BY <2>1
  <2>7. g[m + 1] = step[<<m + 1, f[m]>>] /\ g[m] = f[m]
    BY <2>1, <2>6
  <2> HIDE DEF g
  <2>8. g[0] = base
    BY <2>1, <2>3, <2>6
  <2>9. ASSUME NEW i \in 1..(m + 1) PROVE g[i] = step[<<i, g[i - 1]>>]
    <3>1. CASE i = m + 1
      BY <2>1, <2>7, <3>1
    <3>2. CASE i # m + 1
      <4>1. i \in 1..m /\ i \in 0..m /\ i - 1 \in 0..m
        BY <2>1, <3>2
      <4> QED
        BY <2>3, <2>6, <4>1
    <3> QED
      BY <3>1, <3>2
  <2>10. Reaches(g, m + 1)
    BY <2>5, <2>8, <2>9
  <2> QED
    BY <2>10
<1>3. \A m \in Nat : m \in S
  <2>1. S \in SUBSET Nat
    OBVIOUS
  <2> HIDE DEF S
  <2> QED
    BY <1>1, <1>2, <2>1, AllNumbers
<1>4. \E f : Reaches(f, n)
  BY <1>3
<1> QED
  BY <1>4 DEF Follows

\* The sequence s has the element x.
Has(s, x) == \E k \in 1..Len(s) : s[k] = x

\* What one sequence after the other has.
LEMMA ConcatHas ==
  ASSUME NEW T, NEW s \in Seq(T), NEW u \in Seq(T)
  PROVE  /\ s \o u \in Seq(T) /\ Len(s) \in Nat /\ Len(u) \in Nat
         /\ Len(s \o u) = Len(s) + Len(u)
         /\ \A k \in 1..(Len(s) + Len(u)) :
               (s \o u)[k] = IF k <= Len(s) THEN s[k] ELSE u[k - Len(s)]
         /\ \A x : Has(s \o u, x) <=> Has(s, x) \/ Has(u, x)
<1>1. /\ Len(s) \in Nat /\ Len(u) \in Nat /\ Len(s \o u) = Len(s) + Len(u)
      /\ s \o u \in Seq(T)
      /\ \A k \in 1..(Len(s) + Len(u)) :
             (s \o u)[k] = IF k <= Len(s) THEN s[k] ELSE u[k - Len(s)]
  BY ConcatProperties
<1>2. ASSUME NEW k \in 1..Len(s) PROVE k \in 1..Len(s \o u) /\ (s \o u)[k] = s[k]
  BY <1>1
<1>3. ASSUME NEW k \in 1..Len(u)
      PROVE k + Len(s) \in 1..Len(s \o u) /\ (s \o u)[k + Len(s)] = u[k]
  <2>1. /\ k + Len(s) \in 1..(Len(s) + Len(u)) /\ ~ (k + Len(s) <= Len(s))
        /\ (k + Len(s)) - Len(s) = k
    BY <1>1
  <2> QED
    BY <1>1, <2>1
<1>4. ASSUME NEW k \in 1..Len(s \o u)
      PROVE  \/ k \in 1..Len(s) /\ (s \o u)[k] = s[k]
             \/ k - Len(s) \in 1..Len(u) /\ (s \o u)[k] = u[k - Len(s)]
  BY <1>1
<1>5. \A x : Has(s \o u, x) <=> Has(s, x) \/ Has(u, x)
  BY <1>2, <1>3, <1>4 DEF Has
<1> QED
  BY <1>1, <1>5

\* The sequence s has the elements of P once each at most.
Once(s, P) == \A i, j \in 1..Len(s) : s[i] = s[j] /\ s[i] \in P => i = j

\* FlattenSeq appends the sequences one after the other.
LEMMA FlattenSteps ==
  ASSUME NEW T, NEW ss \in Seq(Seq(T))
  PROVE  \E g : /\ g[0] = << >> /\ \A i \in 0..Len(ss) : g[i] \in Seq(T)
                /\ \A i \in 1..Len(ss) : g[i] = g[i - 1] \o ss[i]
                /\ g[Len(ss)] = FlattenSeq(ss)
<1>1. CASE Len(ss) = 0
  <2>1. ss = << >> /\ FlattenSeq(ss) = << >>
    BY <1>1 DEF FlattenSeq
  <2> DEFINE g == [i \in {0} |-> << >>]
  <2>2. g[0] = << >> /\ (\A i \in 0..0 : g[i] \in Seq(T)) /\ 1..0 = {}
    OBVIOUS
  <2> HIDE DEF g
  <2> QED
    BY <1>1, <2>1, <2>2
<1>2. CASE Len(ss) # 0
  <2> DEFINE n == Len(ss)
             step == [p \in (1..n) \X Seq(T) |-> p[2] \o ss[p[1]]]
             Def(f) == f = [i \in 1..n |-> IF i = 1 THEN ss[i] ELSE f[i - 1] \o ss[i]]
  <2>1. n \in Nat /\ n > 0 /\ \A i \in 1..n : ss[i] \in Seq(T)
    BY <1>2
  <2>2. step \in [(1..n) \X Seq(T) -> Seq(T)] /\ << >> \in Seq(T)
    BY <2>1
  <2>3. PICK f \in [0..n -> Seq(T)] : f[0] = << >> /\ \A i \in 1..n : f[i] = step[<<i, f[i - 1]>>]
    <3> DEFINE V == Seq(T)
               e == << >>
    <3>1. e \in V /\ step \in [(1..n) \X V -> V] /\ n \in Nat
      BY <2>1, <2>2
    <3> HIDE DEF step, n, Def, V, e
    <3>2. \E f : Follows(f, n, V, e, step)
      BY <3>1, Recursion
    <3> QED
      BY <3>2 DEF V, e, Follows
  <2>a. \A i \in 1..n : f[i] = f[i - 1] \o ss[i] /\ i - 1 \in 0..n /\ f[i - 1] \in Seq(T) /\ ss[i] \in Seq(T)
    <3>1. ASSUME NEW i \in 1..n
          PROVE  f[i] = f[i - 1] \o ss[i] /\ i - 1 \in 0..n /\ f[i - 1] \in Seq(T) /\ ss[i] \in Seq(T)
      <4>1. i - 1 \in 0..n /\ f[i - 1] \in Seq(T) /\ ss[i] \in Seq(T)
        <5> HIDE DEF n, step
        <5> QED
          BY <2>1, <2>3
      <4>2. step[<<i, f[i - 1]>>] = f[i - 1] \o ss[i]
        <5> HIDE DEF n
        <5> QED
          BY <4>1
      <4> HIDE DEF step, n
      <4> QED
        BY <2>3, <4>1, <4>2
    <3> QED
      BY <3>1
  <2> DEFINE h == [i \in 1..n |-> f[i]]
  <2>4. Def(h)
    <3>1. ASSUME NEW i \in 1..n PROVE h[i] = IF i = 1 THEN ss[i] ELSE h[i - 1] \o ss[i]
      <4> HIDE DEF n, step, Def
      <4>1. f[i] = f[i - 1] \o ss[i] /\ ss[i] \in Seq(T) /\ h[i] = f[i]
        BY <2>a
      <4>3. CASE i = 1
        <5>1. f[i - 1] = << >>
          BY <2>3, <4>3
        <5>2. << >> \o ss[i] = ss[i]
          BY <4>1, ConcatEmptySeq
        <5> HIDE DEF h
        <5> QED
          BY <4>1, <4>3, <5>1, <5>2
      <4>4. CASE i # 1
        <5>1. i - 1 \in 1..n
          BY <2>1, <4>4
        <5>2. h[i - 1] = f[i - 1]
          BY <5>1
        <5> HIDE DEF h
        <5> QED
          BY <4>1, <4>4, <5>2
      <4> QED
        BY <4>3, <4>4
    <3>2. h = [i \in 1..n |-> h[i]]
      OBVIOUS
    <3> HIDE DEF h
    <3> QED
      BY <3>1, <3>2
  <2> DEFINE flat == CHOOSE g : Def(g)
  <2>5. FlattenSeq(ss) = flat[n]
    BY <1>2 DEF FlattenSeq
  <2>6. Def(flat)
    <3> HIDE DEF Def, h
    <3> QED
      BY <2>4
  <2> HIDE DEF flat
  <2>7. \A i \in 1..n : flat[i] = IF i = 1 THEN ss[i] ELSE flat[i - 1] \o ss[i]
    BY <2>6
  <2> HIDE DEF Def, h, step
  <2> DEFINE g == [i \in 0..n |-> IF i = 0 THEN << >> ELSE flat[i]]
  <2>8. ASSUME NEW i \in 1..n PROVE g[i] = g[i - 1] \o ss[i]
    <3>1. i # 0 /\ i \in 0..n /\ i - 1 \in 0..n /\ (i - 1 = 0 <=> i = 1)
      BY <2>1
    <3>2. i = 1 => g[i - 1] = << >> /\ g[i] = ss[i]
      BY <2>7, <3>1
    <3>3. i # 1 => g[i - 1] = flat[i - 1] /\ g[i] = flat[i - 1] \o ss[i]
      BY <2>7, <3>1
    <3> HIDE DEF g
    <3> QED
      BY <2>1, <3>2, <3>3, ConcatEmptySeq
  <2>9. g[0] = << >> /\ g[n] = FlattenSeq(ss)
    BY <2>1, <2>5
  <2> HIDE DEF g
  <2> DEFINE S == {i \in Nat : i \in 0..n => g[i] \in Seq(T)}
  <2>10. 0 \in S
    <3>1. << >> \in Seq(T)
      OBVIOUS
    <3> QED
      BY <2>9, <3>1
  <2>11. ASSUME NEW i \in S PROVE i + 1 \in S
    <3>1. (i + 1) - 1 = i /\ (i + 1 \in 0..n => i \in 0..n /\ i + 1 \in 1..n)
      BY <2>1
    <3>2. i + 1 \in 0..n => g[i + 1] = g[i] \o ss[i + 1] /\ g[i] \in Seq(T) /\ ss[i + 1] \in Seq(T)
      BY <2>1, <2>8, <3>1
    <3>3. \A s, u \in Seq(T) : s \o u \in Seq(T)
      OBVIOUS
    <3>4. i + 1 \in Nat
      OBVIOUS
    <3> HIDE DEF n
    <3> QED
      BY <3>2, <3>3, <3>4
  <2>12. \A i \in Nat : i \in S
    <3>1. S \in SUBSET Nat
      OBVIOUS
    <3> HIDE DEF S
    <3> QED
      BY <2>10, <2>11, <3>1, AllNumbers
  <2>13. \A i \in 0..n : g[i] \in Seq(T)
    BY <2>1, <2>12
  <2> QED
    BY <2>8, <2>9, <2>13
<1> QED
  BY <1>1, <1>2

\* What FlattenSeq has is what its sequences have, and no more often.
LEMMA Flattened ==
  ASSUME NEW T, NEW ss \in Seq(Seq(T)), NEW P
  PROVE  /\ FlattenSeq(ss) \in Seq(T)
         /\ \A x : Has(FlattenSeq(ss), x) <=> \E i \in 1..Len(ss) : Has(ss[i], x)
         /\ (/\ \A i \in 1..Len(ss) : Once(ss[i], P)
             /\ \A i, j \in 1..Len(ss) : \A x \in P : Has(ss[i], x) /\ Has(ss[j], x) => i = j)
            => Once(FlattenSeq(ss), P)
<1> DEFINE n == Len(ss)
<1>1. n \in Nat /\ \A i \in 1..n : ss[i] \in Seq(T)
  OBVIOUS
<1>2. PICK g : /\ g[0] = << >> /\ \A i \in 0..n : g[i] \in Seq(T)
               /\ \A i \in 1..n : g[i] = g[i - 1] \o ss[i]
               /\ g[n] = FlattenSeq(ss)
  BY FlattenSteps
<1> DEFINE Disjoint == /\ \A i \in 1..n : Once(ss[i], P)
                       /\ \A i, j \in 1..n : \A x \in P : Has(ss[i], x) /\ Has(ss[j], x) => i = j
           Good(m) == /\ \A x : Has(g[m], x) <=> \E i \in 1..m : Has(ss[i], x)
                      /\ Disjoint => Once(g[m], P)
           S == {m \in Nat : m \in 0..n => Good(m)}
<1> HIDE DEF n, Disjoint
<1>3. 0 \in S
  <2>1. 1..Len(g[0]) = {} /\ 1..0 = {}
    BY <1>2
  <2>2. Good(0)
    BY <2>1 DEF Has, Once
  <2> QED
    BY <2>2
<1>4. ASSUME NEW m \in S PROVE m + 1 \in S
  <2> SUFFICES ASSUME m + 1 \in 0..n PROVE Good(m + 1)
    OBVIOUS
  <2> DEFINE s == g[m]
             u == ss[m + 1]
  <2>1. /\ m \in Nat /\ (m + 1) - 1 = m /\ m \in 0..n /\ m + 1 \in 1..n
        /\ \A i : i \in 1..(m + 1) <=> i \in 1..m \/ i = m + 1
    BY <1>1
  <2>2. s \in Seq(T) /\ u \in Seq(T) /\ g[m + 1] = s \o u /\ Good(m)
    BY <1>1, <1>2, <2>1
  <2> HIDE DEF s
  <2>3. \A x : Has(g[m + 1], x) <=> \E i \in 1..(m + 1) : Has(ss[i], x)
    BY <2>1, <2>2, ConcatHas DEF s
  <2>4. ASSUME Disjoint PROVE Once(g[m + 1], P)
    <3>1. /\ Once(s, P) /\ Once(u, P)
          /\ \A x \in P : ~ (Has(s, x) /\ Has(u, x))
      <4>1. \A i \in 1..m : i \in 1..n /\ i # m + 1
        BY <1>1, <2>1
      <4> QED
        BY <2>1, <2>2, <2>4, <4>1 DEF s, Disjoint
    <3> HIDE DEF u
    <3>2. /\ Len(s) \in Nat /\ Len(u) \in Nat /\ Len(s \o u) = Len(s) + Len(u)
          /\ \A k \in 1..(Len(s) + Len(u)) : (s \o u)[k] = IF k <= Len(s) THEN s[k] ELSE u[k - Len(s)]
      BY <2>2, ConcatHas
    <3>3. ASSUME NEW k \in 1..Len(s \o u)
          PROVE  \/ k \in 1..Len(s) /\ (s \o u)[k] = s[k]
                 \/ k - Len(s) \in 1..Len(u) /\ (s \o u)[k] = u[k - Len(s)]
      BY <3>2
    <3>4. ASSUME NEW i \in 1..Len(s \o u), NEW j \in 1..Len(s \o u),
                 (s \o u)[i] = (s \o u)[j], (s \o u)[i] \in P
          PROVE  i = j
      <4>1. CASE i \in 1..Len(s) /\ (s \o u)[i] = s[i]
        <5>1. ~ (j - Len(s) \in 1..Len(u) /\ (s \o u)[j] = u[j - Len(s)])
          BY <3>1, <3>4, <4>1 DEF Has
        <5> QED
          BY <3>1, <3>3, <3>4, <4>1, <5>1 DEF Once
      <4>2. CASE i - Len(s) \in 1..Len(u) /\ (s \o u)[i] = u[i - Len(s)]
        <5>1. ~ (j \in 1..Len(s) /\ (s \o u)[j] = s[j])
          BY <3>1, <3>4, <4>2 DEF Has
        <5>2. i - Len(s) = j - Len(s)
          BY <3>1, <3>3, <3>4, <4>2, <5>1 DEF Once
        <5> QED
          BY <3>2, <5>2
      <4> QED
        BY <3>3, <4>1, <4>2
    <3> QED
      BY <2>2, <3>4 DEF Once
  <2> QED
    BY <2>3, <2>4
<1>5. \A m \in Nat : m \in S
  <2>1. S \in SUBSET Nat
    OBVIOUS
  <2> HIDE DEF S
  <2> QED
    BY <1>3, <1>4, <2>1, AllNumbers
<1>6. Good(n)
  <2>1. n \in S /\ n \in 0..n
    <3>1. n \in 0..n
      BY <1>1
    <3> HIDE DEF S
    <3> QED
      BY <1>1, <1>5, <3>1
  <2> HIDE DEF Good
  <2> QED
    BY <2>1
<1> QED
  BY <1>1, <1>2, <1>6 DEF n, Disjoint

\* The numbers are in the order of the times.
LEMMA InOrder ==
  ASSUME problem \in Problems, NEW t \in Times, NEW u \in Times
  PROVE  /\ Number(t) \in Nat /\ t \in Nat
         /\ t < u <=> Number(t) < Number(u)
         /\ t = u <=> Number(t) = Number(u)
<1>1. /\ t \in Nat /\ u \in Nat /\ Number(t) \in Nat /\ Number(u) \in Nat
  <2>1. Cardinality(Times) \in Nat
    BY TimesFinite, FS_CardinalityType
  <2>2. Number(t) \in 1..Cardinality(Times) /\ Number(u) \in 1..Cardinality(Times)
    BY Numbered
  <2> QED
    BY <2>1, <2>2, TimesFinite
<1>2. (t < u => Number(t) < Number(u)) /\ (u < t => Number(u) < Number(t))
  BY Numbered
<1> QED
  BY <1>1, <1>2

\* An action runs in the state after the happening at t if it starts then or
\* before, and ends after it.
LEMMA RunsAfter ==
  ASSUME problem \in Problems, NEW s \in Plan, Op(s.op).durative, NEW t \in Times
  PROVE  Number(t) + 1 \in Inside(s) <=> s.start <= t /\ t < s.end
<1>1. s.start \in Times /\ s.end \in Times
  BY StepTimes
<1>2. /\ Number(t) \in Nat /\ Number(s.start) \in Nat /\ Number(s.end) \in Nat
      /\ t \in Nat /\ s.start \in Nat /\ s.end \in Nat
      /\ t < s.start <=> Number(t) < Number(s.start)
      /\ t < s.end <=> Number(t) < Number(s.end)
  BY <1>1, InOrder
<1> QED
  BY <1>2 DEF Inside

-----------------------------------------------------------------------------
(* The conditional effects that span an action.                              *)

\* The context has the monitors of the actions that are running, and of others
\* those of instant actions that have started at most.
MonitorsAre(mons, t) ==
    \A s \in Plan : Op(s.op).durative =>
        \A m \in Op(s.op).monitors :
            /\ s.start <= t /\ t < s.end => <<s.op, m>> \in mons
            /\ <<s.op, m>> \in mons => s.start <= t /\ (t < s.end \/ s.start = s.end)

\* The monitors' conditions are checked in the states before the happening to
\* come, and in its own one if the invariants are.
Looked(k) == k < Len(trace) \/ (k = Len(trace) /\ kind = "REGULAR")

\* The effect of the monitor m of the step s may still apply.
Alive(s, m) ==
    Number(s.start) < Len(trace) =>
        /\ TrueBefore(m.atStart, s.start)
        /\ \A k \in Inside(s) : Looked(k) => TrueIn(m.overAll, k)

\* Of an instant action nothing is known when it has ended: its monitors may
\* still be in the context, but nobody asks for their status.
StatusIs(stat) ==
    \A s \in Plan : Op(s.op).durative /\ (s.start = s.end => Number(s.start) >= Len(trace)) =>
        \A m \in Op(s.op).monitors : <<s.op, m>> \in stat <=> Alive(s, m)

StatusInv ==
    Unfailed =>
        /\ kind # "END" => \E t \in Times : next = t /\ MonitorsAre(monitors, t)
        /\ StatusIs(status)

\* Whose monitors those of the actions of a happening are.
LEMMA OwnMonitors ==
  ASSUME problem \in Problems, NEW s \in Plan, NEW m \in Op(s.op).monitors, NEW t
  PROVE  /\ <<s.op, m>> \in MonitorsIn(StartsAt(t)) <=> s.start = t
         /\ Op(s.op).durative => (<<s.op, m>> \in MonitorsIn(EndsAt(t)) <=> s.end = t)
<1>1. \A r \in Plan : r.op = s.op => r = s
  BY StepTimes
<1>2. \A os : <<s.op, m>> \in MonitorsIn(os) <=> s.op \in os
  BY DEF MonitorsIn
<1>3. s.op \in StartsAt(t) <=> s.start = t
  BY <1>1 DEF StartsAt
<1>4. Op(s.op).durative => (s.op \in EndsAt(t) <=> s.end = t)
  BY <1>1 DEF EndsAt
<1> QED
  BY <1>2, <1>3, <1>4

\* Those of the instant actions that end first are among the starting ones.
LEMMA StartingMonitors ==
  ASSUME problem \in Problems, NEW s \in Plan, NEW m \in Op(s.op).monitors, NEW t, NEW late
  PROVE  /\ <<s.op, m>> \in MonitorsIn(Starting(t, late)) => s.start = t
         /\ Op(s.op).durative /\ s.start = t /\ s.end # t =>
                <<s.op, m>> \in MonitorsIn(Starting(t, late))
<1>1. \A r \in Plan : r.op = s.op => r = s
  BY StepTimes
<1>2. \A os : <<s.op, m>> \in MonitorsIn(os) <=> s.op \in os
  BY DEF MonitorsIn
<1>3. s.op \in StartsAt(t) <=> s.start = t
  BY <1>1 DEF StartsAt
<1>4. Op(s.op).durative => (s.op \in EndsAt(t) <=> s.end = t)
  BY <1>1 DEF EndsAt
<1> QED
  BY <1>2, <1>3, <1>4 DEF Starting

\* The adjusted context has the monitors for the next happening, if those of
\* its actions may apply.
LEMMA MonitorsAdjusted ==
  ASSUME problem \in Problems, NEW late,
         NEW t \in Times, Later(t) # {}, NEW mons, MonitorsAre(mons, t), NEW stat,
         \A s \in Plan : Op(s.op).durative /\ s.start = NextTime(t) =>
             \A m \in Op(s.op).monitors : <<s.op, m>> \in stat
  PROVE  MonitorsAre(AdjustMonitors(mons, stat, NextTime(t), late), NextTime(t))
<1> DEFINE u == NextTime(t)
<1>1. u \in Times /\ u > t /\ t \in Nat /\ u \in Nat /\ \A v \in Times : v <= t \/ v >= u
  BY NextNumber, TimesFinite
<1> HIDE DEF u
<1>2. ASSUME NEW s \in Plan, Op(s.op).durative, NEW m \in Op(s.op).monitors
      PROVE  /\ s.start <= u /\ u < s.end => <<s.op, m>> \in AdjustMonitors(mons, stat, u, late)
             /\ <<s.op, m>> \in AdjustMonitors(mons, stat, u, late) =>
                    s.start <= u /\ (u < s.end \/ s.start = s.end)
  <2>1. /\ s.start \in Times /\ s.end \in Times /\ s.start \in Nat /\ s.end \in Nat
        /\ s.start <= s.end
    BY <1>2, StepTimes
  <2>2. /\ s.start <= t /\ t < s.end => <<s.op, m>> \in mons
        /\ <<s.op, m>> \in mons => s.start <= t /\ (t < s.end \/ s.start = s.end)
    BY <1>2 DEF MonitorsAre
  <2>3. /\ <<s.op, m>> \in MonitorsIn(Starting(u, late)) => s.start = u
        /\ s.start = u /\ s.end # u => <<s.op, m>> \in MonitorsIn(Starting(u, late))
        /\ <<s.op, m>> \in MonitorsIn(EndsAt(u)) <=> s.end = u
    BY <1>2, OwnMonitors, StartingMonitors
  <2>4. s.start = u => <<s.op, m>> \in stat
    BY <1>2 DEF u
  <2>5. /\ <<s.op, m>> \in AdjustMonitors(mons, stat, u, late) =>
               (<<s.op, m>> \in mons /\ s.end # u) \/ s.start = u
        /\ (<<s.op, m>> \in mons /\ s.end # u) \/ (s.start = u /\ s.end # u) =>
               <<s.op, m>> \in AdjustMonitors(mons, stat, u, late)
    BY <2>3, <2>4 DEF AdjustMonitors
  <2>6. (s.start <= t \/ s.start >= u) /\ (s.end <= t \/ s.end >= u)
    BY <1>1, <2>1
  <2> QED
    BY <1>1, <2>1, <2>2, <2>5, <2>6
<1> QED
  BY <1>2 DEF MonitorsAre, u

\* The first happening puts the monitors of its actions into the context.
LEMMA MonitorsAtFirst ==
  ASSUME problem \in Problems, Times # {}, NEW late
  PROVE  MonitorsAre(AdjustMonitors({}, MonitorsIn({s.op : s \in Plan}), Min(Times), late), Min(Times))
<1> DEFINE u == Min(Times)
           stat == MonitorsIn({s.op : s \in Plan})
<1>1. u \in Times /\ u \in Nat /\ \A v \in Times : v >= u /\ v \in Nat
  BY TimesFinite, Smallest
<1> HIDE DEF u
<1>2. ASSUME NEW s \in Plan, Op(s.op).durative, NEW m \in Op(s.op).monitors
      PROVE  /\ s.start <= u /\ u < s.end => <<s.op, m>> \in AdjustMonitors({}, stat, u, late)
             /\ <<s.op, m>> \in AdjustMonitors({}, stat, u, late) =>
                    s.start <= u /\ (u < s.end \/ s.start = s.end)
  <2>1. /\ s.start \in Times /\ s.end \in Times /\ s.start \in Nat /\ s.end \in Nat
        /\ s.start <= s.end
    BY <1>2, StepTimes
  <2>2. /\ <<s.op, m>> \in MonitorsIn(Starting(u, late)) => s.start = u
        /\ s.start = u /\ s.end # u => <<s.op, m>> \in MonitorsIn(Starting(u, late))
        /\ <<s.op, m>> \in stat
    BY <1>2, StartingMonitors DEF MonitorsIn
  <2>3. /\ <<s.op, m>> \in AdjustMonitors({}, stat, u, late) => s.start = u
        /\ s.start = u /\ s.end # u => <<s.op, m>> \in AdjustMonitors({}, stat, u, late)
    BY <2>2 DEF AdjustMonitors
  <2>4. s.start >= u
    BY <1>1, <2>1
  <2> QED
    BY <1>1, <2>1, <2>3, <2>4
<1> QED
  BY <1>2 DEF MonitorsAre, u

\* It holds at first.
LEMMA InitStatus ==
  ASSUME Init
  PROVE  StatusInv
<1>1. problem \in Problems /\ Len(trace) = 1 /\ status = MonitorsIn({s.op : s \in Plan})
  BY DEF Init
<1>2. StatusIs(status)
  <2> SUFFICES ASSUME NEW s \in Plan, NEW m \in Op(s.op).monitors
               PROVE  <<s.op, m>> \in status /\ Alive(s, m)
    BY DEF StatusIs
  <2>1. <<s.op, m>> \in status
    BY <1>1 DEF MonitorsIn
  <2>2. s.start \in Times
    BY <1>1, StepTimes
  <2>3. Number(s.start) \in 1..Cardinality(Times) /\ Cardinality(Times) \in Nat
    BY <1>1, <2>2, Numbered, TimesFinite, FS_CardinalityType
  <2>4. ~ (Number(s.start) < Len(trace))
    BY <1>1, <2>3
  <2> QED
    BY <2>1, <2>4 DEF Alive
<1>3. ASSUME kind # "END" PROVE \E t \in Times : next = t /\ MonitorsAre(monitors, t)
  <2>1. /\ Times # {} /\ next = Min(Times)
        /\ \E late : monitors = AdjustMonitors({}, status, next, late)
    BY <1>3 DEF Init
  <2>2. Min(Times) \in Times
    BY <1>1, <2>1, FirstNumber
  <2> QED
    BY <1>1, <2>1, <2>2, MonitorsAtFirst
<1> QED
  BY <1>2, <1>3 DEF StatusInv

\* A regular happening that goes well: what is known of its actions' monitors.
LEMMA RegularStatus ==
  ASSUME Inv, StatusInv, Unfailed, Unfailed', ExecuteRegular, ~ContinueAnyway
  PROVE  StatusInv'
<1> DEFINE L == Len(trace)
           r == [time |-> next, state |-> state', values |-> values']
<1>1. /\ TraceInv /\ PlaceInv /\ problem \in Problems /\ kind = "REGULAR"
      /\ StatusIs(status)
  BY DEF Inv, ExecuteRegular, Executing, StatusInv
<1>2. /\ trace' = Append(trace, r) /\ problem' = problem
      /\ status' = InitialStatus(next) /\ Advance
  BY DEF ExecuteRegular, Unfailed
<1>3. PICK t \in Times : next = t /\ Number(t) = L
  BY <1>1 DEF PlaceInv
<1>4. MonitorsAre(monitors, t)
  BY <1>1, <1>3 DEF StatusInv
<1>5. /\ Len(trace') = L + 1 /\ \A k \in 1..L : trace'[k] = trace[k]
      /\ L \in Nat \ {0} /\ trace[L].state = state /\ trace[L].values = values
  <2>1. PICK S : trace \in Seq(S)
    BY <1>1 DEF TraceInv
  <2>2. trace \in Seq(S \cup {r}) /\ r \in S \cup {r}
    BY <2>1
  <2> HIDE DEF r
  <2> QED
    BY <1>1, <1>2, <2>2 DEF TraceInv
<1>6. /\ kind' \in {"REGULAR", "INVARIANT", "END"}
      /\ kind' = "REGULAR" => /\ Later(t) # {} /\ next' = NextTime(t) /\ monitors = {}
                              /\ \E late : monitors' = AdjustMonitors(monitors, status', NextTime(t), late)
      /\ kind' = "INVARIANT" => next' = t /\ monitors' = monitors
  BY <1>1, <1>2, <1>3 DEF Advance, HasInvariants
<1>7. /\ Plan' = Plan /\ Times' = Times /\ \A o : Op(o)' = Op(o)
      /\ \A u : Number(u)' = Number(u) /\ \A s : Inside(s)' = Inside(s)
  BY <1>2, PlanFixed
<1>8. \A k \in 1..L : \A c : IsTrue(c, trace'[k].state, trace'[k].values) <=> TrueIn(c, k)
  BY <1>5 DEF TrueIn
<1>9. StatusIs(status)'
  <2> SUFFICES ASSUME NEW s \in Plan, Op(s.op).durative, NEW m \in Op(s.op).monitors,
                      s.start = s.end => Number(s.start) >= L + 1
               PROVE  <<s.op, m>> \in status' <=> Alive(s, m)'
    BY <1>5, <1>7 DEF StatusIs
  <2>1. /\ s.start \in Times /\ s.start \in Nat /\ s.end \in Nat
        /\ t \in Nat /\ Number(s.start) \in Nat /\ Number(s.start) >= 1
        /\ t < s.start <=> L < Number(s.start)
        /\ t = s.start <=> L = Number(s.start)
    <3>1. s.start \in Times /\ s.start \in Nat /\ s.end \in Nat
      BY <1>1, StepTimes
    <3>2. Number(s.start) \in 1..Cardinality(Times) /\ Cardinality(Times) \in Nat
      BY <1>1, <3>1, Numbered, TimesFinite, FS_CardinalityType
    <3> QED
      BY <1>1, <1>3, <3>1, <3>2, InOrder
  <2>2. L + 1 \in Inside(s) /\ kind' = "REGULAR" => FALSE
    <3> SUFFICES ASSUME L + 1 \in Inside(s), kind' = "REGULAR" PROVE FALSE
      OBVIOUS
    <3>1. s.start <= t /\ t < s.end
      BY <1>1, <1>3, RunsAfter
    <3> QED
      BY <1>4, <1>6, <3>1 DEF MonitorsAre
  <2>3. \A k \in Inside(s) : k \in Nat /\ k > Number(s.start)
    <3>1. Number(s.end) \in Nat
      BY <1>1, StepTimes, InOrder
    <3> QED
      BY <2>1, <3>1 DEF Inside
  <2>4. Alive(s, m)' <=>
          (Number(s.start) < L + 1 =>
              /\ IsTrue(m.atStart, trace'[Number(s.start)].state, trace'[Number(s.start)].values)
              /\ \A k \in Inside(s) : k <= L => IsTrue(m.overAll, trace'[k].state, trace'[k].values))
    <3>1. Alive(s, m)' <=>
          (Number(s.start) < Len(trace') =>
              /\ IsTrue(m.atStart, trace'[Number(s.start)].state, trace'[Number(s.start)].values)
              /\ \A k \in Inside(s) : (k < Len(trace') \/ (k = Len(trace') /\ kind' = "REGULAR")) =>
                                         IsTrue(m.overAll, trace'[k].state, trace'[k].values))
      BY <1>7 DEF Alive, Looked, TrueBefore, TrueIn
    <3>2. \A k \in Inside(s) :
             (k < Len(trace') \/ (k = Len(trace') /\ kind' = "REGULAR")) <=> k <= L
      BY <1>5, <2>2, <2>3
    <3> QED
      BY <1>5, <3>1, <3>2
  <2>5. <<s.op, m>> \in MonitorsIn(StartsAt(t)) <=> s.start = t
    BY <1>1, OwnMonitors
  <2>6. CASE s.start = t
    <3>1. <<s.op, m>> \in status' <=> TrueIn(m.atStart, L)
      BY <1>2, <1>3, <1>5, <2>5, <2>6 DEF InitialStatus, TrueIn
    <3>2. Number(s.start) = L /\ \A k \in Inside(s) : ~ (k <= L)
      BY <1>5, <2>1, <2>3, <2>6
    <3> QED
      BY <1>5, <1>8, <2>4, <3>1, <3>2
  <2>7. CASE s.start # t
    <3>1. <<s.op, m>> \in status' <=> <<s.op, m>> \in status
      BY <1>2, <1>3, <2>5, <2>7 DEF InitialStatus
    <3>2. <<s.op, m>> \in status <=> Alive(s, m)
      BY <1>1, <1>5, <2>1 DEF StatusIs
    <3>3. Number(s.start) < L + 1 <=> Number(s.start) < L
      BY <1>5, <2>1, <2>7
    <3>4. Alive(s, m) <=>
          (Number(s.start) < L =>
              /\ TrueIn(m.atStart, Number(s.start))
              /\ \A k \in Inside(s) : k <= L => TrueIn(m.overAll, k))
      <4>1. \A k \in Inside(s) : Looked(k) <=> k <= L
        BY <1>1, <1>5, <2>3 DEF Looked
      <4> QED
        BY <4>1 DEF Alive, TrueBefore
    <3>5. /\ Number(s.start) < L => Number(s.start) \in 1..L
          /\ \A k \in Inside(s) : k <= L => k \in 1..L
      BY <1>5, <2>1, <2>3
    <3> QED
      BY <1>8, <2>4, <3>1, <3>2, <3>3, <3>4, <3>5
  <2> QED
    BY <2>6, <2>7
<1>10. ASSUME kind' # "END" PROVE \E u \in Times : next' = u /\ MonitorsAre(monitors, u)'
  <2>1. CASE kind' = "INVARIANT"
    <3>1. MonitorsAre(monitors, t)'
      BY <1>4, <1>6, <1>7, <2>1 DEF MonitorsAre
    <3> QED
      BY <1>6, <2>1, <3>1
  <2>2. CASE kind' = "REGULAR"
    <3>1. PICK u \in Times : u = NextTime(t) /\ Number(u) = L + 1
      BY <1>1, <1>3, <1>6, <2>2, NextNumber
    <3>2. ASSUME NEW s \in Plan, Op(s.op).durative, s.start = u, NEW m \in Op(s.op).monitors
          PROVE  <<s.op, m>> \in status'
      <4>1. ~ (Number(s.start) < Len(trace'))
        BY <1>5, <3>1, <3>2
      <4>2. Alive(s, m)'
        BY <1>7, <4>1 DEF Alive
      <4>3. Number(s.start)' >= Len(trace')
        BY <1>5, <1>7, <3>1, <3>2
      <4> QED
        BY <1>7, <1>9, <3>2, <4>2, <4>3 DEF StatusIs
    <3>3. \A late : MonitorsAre(AdjustMonitors(monitors, status', u, late), u)
      BY <1>1, <1>4, <1>6, <2>2, <3>1, <3>2, MonitorsAdjusted
    <3>4. MonitorsAre(monitors', u)
      BY <1>6, <2>2, <3>1, <3>3
    <3>5. MonitorsAre(monitors, u)'
      BY <1>7, <3>4 DEF MonitorsAre
    <3> QED
      BY <1>6, <2>2, <3>1, <3>5
  <2> QED
    BY <1>6, <1>10, <2>1, <2>2
<1> QED
  BY <1>7, <1>9, <1>10 DEF StatusInv

\* A check of the invariants drops the monitors whose conditions are false.
LEMMA CheckedStatus ==
  ASSUME Inv, StatusInv, Unfailed, Unfailed', ExecuteInvariant, ~ContinueAnyway
  PROVE  StatusInv'
<1> DEFINE L == Len(trace)
<1>1. /\ TraceInv /\ PlaceInv /\ problem \in Problems /\ kind = "INVARIANT"
      /\ StatusIs(status) /\ L \in Nat \ {0}
      /\ trace[L].state = state /\ trace[L].values = values
  BY DEF Inv, ExecuteInvariant, Executing, StatusInv, TraceInv
<1>2. PICK t \in Times : next = t /\ Later(t) # {} /\ Number(t) + 1 = L
  BY <1>1 DEF PlaceInv
<1>3. MonitorsAre(monitors, t)
  BY <1>1, <1>2 DEF StatusInv
<1>4. /\ UNCHANGED <<problem, trace>> /\ status' = InvariantStatus
      /\ kind' = "REGULAR" /\ next' = NextTime(t)
      /\ \E late : monitors' = AdjustMonitors(monitors, status', NextTime(t), late)
  BY <1>1, <1>2 DEF ExecuteInvariant, Advance
<1>5. PICK u \in Times : u = NextTime(t) /\ Number(u) = L
  BY <1>1, <1>2, NextNumber
<1>6. /\ Plan' = Plan /\ Times' = Times /\ \A o : Op(o)' = Op(o)
      /\ \A v : Number(v)' = Number(v) /\ \A s : Inside(s)' = Inside(s)
  BY <1>4, PlanFixed
<1>7. StatusIs(status)'
  <2> SUFFICES ASSUME NEW s \in Plan, Op(s.op).durative, NEW m \in Op(s.op).monitors,
                      s.start = s.end => Number(s.start) >= L
               PROVE  <<s.op, m>> \in status' <=> Alive(s, m)'
    BY <1>4, <1>6 DEF StatusIs
  <2>1. <<s.op, m>> \in monitors <=> L \in Inside(s)
    <3>1. L \in Inside(s) <=> s.start <= t /\ t < s.end
      BY <1>1, <1>2, RunsAfter
    <3>2. s.start = s.end => ~ (s.start <= t)
      <4>1. /\ s.start \in Times /\ s.start \in Nat /\ t \in Nat
            /\ Number(t) \in Nat /\ Number(s.start) \in Nat
            /\ t < s.start <=> Number(t) < Number(s.start)
        BY <1>1, StepTimes, InOrder
      <4> QED
        BY <1>1, <1>2, <4>1
    <3> QED
      BY <1>3, <3>1, <3>2 DEF MonitorsAre
  <2>2. <<s.op, m>> \in status' <=>
            <<s.op, m>> \in status /\ (L \in Inside(s) => TrueIn(m.overAll, L))
    BY <1>1, <1>4, <2>1 DEF InvariantStatus, TrueIn
  <2>3. <<s.op, m>> \in status <=> Alive(s, m)
    BY <1>1 DEF StatusIs
  <2>4. \A k \in Inside(s) : k \in Nat /\ (k = L => Number(s.start) < L)
    <3>1. Number(s.start) \in Nat /\ Number(s.end) \in Nat
      BY <1>1, StepTimes, InOrder
    <3> QED
      BY <3>1 DEF Inside
  <2>5. Alive(s, m) <=>
          (Number(s.start) < L =>
              /\ TrueIn(m.atStart, Number(s.start))
              /\ \A k \in Inside(s) : k < L => TrueIn(m.overAll, k))
    BY <1>1 DEF Alive, Looked, TrueBefore
  <2>6. Alive(s, m)' <=>
          (Number(s.start) < L =>
              /\ TrueIn(m.atStart, Number(s.start))
              /\ \A k \in Inside(s) : k < L \/ k = L => TrueIn(m.overAll, k))
    BY <1>4, <1>6 DEF Alive, Looked, TrueBefore, TrueIn
  <2> QED
    BY <2>2, <2>3, <2>4, <2>5, <2>6
<1>8. ASSUME NEW s \in Plan, Op(s.op).durative, s.start = u, NEW m \in Op(s.op).monitors
      PROVE  <<s.op, m>> \in status'
  <2>1. ~ (Number(s.start) < Len(trace'))
    BY <1>1, <1>4, <1>5, <1>8
  <2>2. Alive(s, m)'
    BY <1>6, <2>1 DEF Alive
  <2>3. Number(s.start)' >= Len(trace')
    BY <1>1, <1>4, <1>5, <1>6, <1>8
  <2> QED
    BY <1>4, <1>5, <1>6, <1>7, <1>8, <2>2, <2>3 DEF StatusIs
<1>9. \A late : MonitorsAre(AdjustMonitors(monitors, status', u, late), u)
  BY <1>1, <1>2, <1>3, <1>5, <1>8, MonitorsAdjusted
<1>10. MonitorsAre(monitors, u)'
  <2>1. MonitorsAre(monitors', u)
    BY <1>4, <1>5, <1>9
  <2> QED
    BY <1>6, <2>1 DEF MonitorsAre
<1> QED
  BY <1>4, <1>5, <1>6, <1>7, <1>10 DEF StatusInv

\* The status of the monitors is kept right by every step.
LEMMA StepStatus ==
  ASSUME Inv, StatusInv, [Next]_vars, ~ContinueAnyway
  PROVE  StatusInv'
<1> SUFFICES ASSUME Unfailed' PROVE StatusInv'
  BY DEF StatusInv
<1>1. CASE ExecuteRegular
  BY <1>1, RegularStatus DEF ExecuteRegular, Executing, Unfailed
<1>2. CASE ExecuteInvariant
  BY <1>2, CheckedStatus DEF ExecuteInvariant, Executing, Unfailed
<1>3. ASSUME UNCHANGED <<problem, next, kind, context, trace>>, Unfailed
      PROVE  StatusInv'
  <2>1. /\ Plan' = Plan /\ Times' = Times /\ \A o : Op(o)' = Op(o)
        /\ \A v : Number(v)' = Number(v) /\ \A s : Inside(s)' = Inside(s)
    BY <1>3, PlanFixed
  <2>2. next' = next /\ kind' = kind /\ monitors' = monitors /\ status' = status /\ trace' = trace
    BY <1>3 DEF context
  <2>3. StatusIs(status)'
    BY <1>3, <2>1, <2>2 DEF StatusInv, StatusIs, Alive, Looked, TrueBefore, TrueIn
  <2>4. \A t : MonitorsAre(monitors, t) => MonitorsAre(monitors, t)'
    BY <2>1, <2>2 DEF MonitorsAre
  <2> QED
    BY <1>3, <2>1, <2>2, <2>3, <2>4 DEF StatusInv
<1>4. CASE EndExecution
  BY <1>3, <1>4 DEF EndExecution, Executing, Unfailed
<1>5. CASE CheckGoal
  BY <1>5 DEF CheckGoal, Unfailed
<1>6. CASE UNCHANGED vars
  BY <1>3, <1>6 DEF vars, Unfailed
<1> QED
  BY <1>1, <1>2, <1>4, <1>5, <1>6 DEF Next, Finished

\* A finite set, listed, has each of its elements once.
LEMMA Listed ==
  ASSUME NEW S, IsFiniteSet(S)
  PROVE  /\ SetToSeq(S) \in Seq(S) /\ Len(SetToSeq(S)) = Cardinality(S)
         /\ DOMAIN SetToSeq(S) = 1..Cardinality(S) /\ Cardinality(S) \in Nat
         /\ \A i, j \in 1..Cardinality(S) : SetToSeq(S)[i] = SetToSeq(S)[j] => i = j
         /\ \A x : Has(SetToSeq(S), x) <=> x \in S
<1> DEFINE n == Cardinality(S)
           f == SetToSeq(S)
<1>1. n \in Nat /\ ExistsBijection(1..n, S)
  BY FS_CardinalityType
<1>2. \E g \in [1..n -> S] : IsInjective(g)
  BY <1>1 DEF ExistsBijection, Bijection, Injection
<1>3. f \in [1..n -> S] /\ IsInjective(f)
  BY <1>2 DEF SetToSeq
<1> HIDE DEF f
<1>4. f \in Injection(1..n, S)
  BY <1>3 DEF Injection
<1>5. f \in Surjection(1..n, S)
  <2>1. Cardinality(1..n) = n
    BY <1>1, FS_Interval
  <2> QED
    BY <1>4, <2>1, FS_Injection
<1>6. \A x \in S : \E i \in 1..n : f[i] = x
  BY <1>5 DEF Surjection
<1>7. f \in Seq(S) /\ Len(f) = n /\ DOMAIN f = 1..n
  BY <1>1, <1>3
<1>8. \A x : Has(f, x) <=> x \in S
  <2> HIDE DEF n
  <2> QED
    BY <1>3, <1>6, <1>7 DEF Has
<1>9. \A i, j \in 1..n : f[i] = f[j] => i = j
  BY <1>3, <1>7 DEF IsInjective
<1> QED
  BY <1>1, <1>7, <1>8, <1>9 DEF f

\* The actions of a happening are finitely many, and an order has each once.
LEMMA Ordered ==
  ASSUME problem \in Problems, NEW t, NEW order \in Orders(t)
  PROVE  /\ IsFiniteSet(ActionsAt(t)) /\ Len(order) = Cardinality(ActionsAt(t))
         /\ order \in Seq(ActionsAt(t)) /\ Len(order) \in Nat
         /\ \A i, j \in 1..Len(order) : order[i] = order[j] => i = j
         /\ \A a : Has(order, a) <=> a \in ActionsAt(t)
<1> DEFINE S == ActionsAt(t)
           Opening == {s \in Plan : s.start = t}
           Ending == {s \in Plan : Op(s.op).durative /\ s.end = t}
<1>1. IsFiniteSet(S)
  <2>1. IsFiniteSet(Opening) /\ IsFiniteSet(Ending)
    BY ProblemsAssumption, FS_Subset DEF Plan
  <2>2. IsFiniteSet({<<s.op, "start">> : s \in Opening})
    <3>1. [s \in Opening |-> <<s.op, "start">>]
            \in Surjection(Opening, {<<s.op, "start">> : s \in Opening})
      BY DEF Surjection
    <3> QED
      BY <2>1, <3>1, FS_Surjection
  <2>3. IsFiniteSet({<<s.op, "end">> : s \in Ending})
    <3>1. [s \in Ending |-> <<s.op, "end">>]
            \in Surjection(Ending, {<<s.op, "end">> : s \in Ending})
      BY DEF Surjection
    <3> QED
      BY <2>1, <3>1, FS_Surjection
  <2>4. S = {<<s.op, "start">> : s \in Opening} \cup {<<s.op, "end">> : s \in Ending}
    BY DEF ActionsAt, StartsAt, EndsAt
  <2> QED
    BY <2>2, <2>3, <2>4, FS_Union
<1> HIDE DEF S
<1> DEFINE n == Cardinality(S)
<1>2. /\ n \in Nat /\ order \in [1..n -> S]
      /\ \A i, j \in 1..n : i # j => order[i] # order[j]
  BY <1>1, FS_CardinalityType DEF Orders, SetToSeqs, S
<1>3. order \in Seq(S) /\ Len(order) = n /\ DOMAIN order = 1..n
  BY <1>2
<1>4. order \in Injection(1..n, S)
  BY <1>2, <1>3 DEF Injection, IsInjective
<1>5. order \in Surjection(1..n, S)
  <2>1. Cardinality(1..n) = n
    BY <1>2, FS_Interval
  <2> QED
    BY <1>1, <1>4, <2>1, FS_Injection
<1>6. \A x : Has(order, x) <=> x \in S
  <2> HIDE DEF n
  <2> QED
    BY <1>2, <1>3, <1>5 DEF Has, Surjection
<1> QED
  BY <1>1, <1>2, <1>3, <1>6 DEF S

-----------------------------------------------------------------------------
(* The claims of a happening.                                                *)

FiredBy(a) == {w \in Snap(a).when : IsTrue(w.cond, state, values)}
MonitorsOfEnd(a) == IF a[2] = "end" THEN MonitorsIn({a[1]}) \cap InitialStatus(next) ELSE {}
MonitorsOfStart(a) == IF a[2] = "start" THEN MonitorsIn({a[1]}) ELSE {}

\* What an action claims for its effects, and before them.
ClaimsOf(a, mark) ==
    {Claim(a, {}, {}, [Snap(a).effect EXCEPT !.upd = {}])}
    \cup {Claim(a, {w.written}, IF mark THEN w.cond ELSE {}, w.effect) : w \in FiredBy(a)}
    \cup {Claim(a, {}, {}, [NoEffect EXCEPT !.upd = Snap(a).effect.upd])}
    \cup {Claim(Name(m), {m[2].written}, {}, m[2].effect) : m \in MonitorsOfEnd(a)}

FirstClaimsOf(a) ==
    {Claim(Name(m), {m[2].written}, m[2].atStart, NoEffect) : m \in MonitorsOfStart(a)}
    \cup {Claim(a, {}, Snap(a).pre, NoEffect)}

\* An action of a happening is one end of a step of the plan.
LEMMA ActionStep ==
  ASSUME problem \in Problems, NEW t, NEW a \in ActionsAt(t)
  PROVE  \E s \in Plan :
            /\ problem.domain \in DOMAIN Domains /\ s.op \in DOMAIN Domains[problem.domain]
            /\ Op(s.op) = HandleDurativeAction(Written(s))
            /\ \/ a = <<s.op, "start">> /\ s.start = t
                  /\ Snap(a) = SnapAction(Written(s), "start")
               \/ a = <<s.op, "end">> /\ s.end = t /\ Op(s.op).durative
                  /\ Snap(a) = SnapAction(Written(s), "end")
<1>1. PICK s \in Plan : \/ a = <<s.op, "start">> /\ s.start = t
                        \/ a = <<s.op, "end">> /\ s.end = t /\ Op(s.op).durative
  BY DEF ActionsAt, StartsAt, EndsAt
<1>2. problem.domain \in DOMAIN Domains /\ s.op \in DOMAIN Domains[problem.domain]
  BY ProblemsAssumption DEF Plan
<1>3. Op(s.op) = HandleDurativeAction(Written(s))
  BY <1>2 DEF Op, Built, Written
<1>4. /\ a[2] = "start" => Snap(a) = Op(a[1]).start
      /\ a[2] = "end" => Snap(a) = Op(a[1]).end
  BY DEF Snap
<1>5. /\ Op(s.op).start = SnapAction(Written(s), "start")
      /\ Op(s.op).end = SnapAction(Written(s), "end")
  BY <1>3 DEF HandleDurativeAction
<1>6. CASE a = <<s.op, "start">> /\ s.start = t
  BY <1>2, <1>3, <1>4, <1>5, <1>6
<1>7. CASE a = <<s.op, "end">> /\ s.end = t /\ Op(s.op).durative
  BY <1>2, <1>3, <1>4, <1>5, <1>7
<1> QED
  BY <1>1, <1>6, <1>7

\* The monitors and conditional effects of an action are finitely many.
LEMMA WhensFinite ==
  ASSUME problem \in Problems, NEW t, NEW a \in ActionsAt(t)
  PROVE  IsFiniteSet(FiredBy(a)) /\ IsFiniteSet(MonitorsOfStart(a)) /\ IsFiniteSet(MonitorsOfEnd(a))
<1>1. PICK s \in Plan :
        /\ problem.domain \in DOMAIN Domains /\ s.op \in DOMAIN Domains[problem.domain]
        /\ Op(s.op) = HandleDurativeAction(Written(s))
        /\ a[1] = s.op
        /\ \/ Snap(a) = SnapAction(Written(s), "start")
           \/ Snap(a) = SnapAction(Written(s), "end")
  <2>1. PICK s \in Plan :
            /\ problem.domain \in DOMAIN Domains /\ s.op \in DOMAIN Domains[problem.domain]
            /\ Op(s.op) = HandleDurativeAction(Written(s))
            /\ \/ a = <<s.op, "start">> /\ s.start = t
                  /\ Snap(a) = SnapAction(Written(s), "start")
               \/ a = <<s.op, "end">> /\ s.end = t /\ Op(s.op).durative
                  /\ Snap(a) = SnapAction(Written(s), "end")
    BY ActionStep
  <2> QED
    BY <2>1
<1> DEFINE W == Written(s).when
<1>2. IsFiniteSet(W)
  BY <1>1, DomainsAssumption DEF Written
<1>3. IsFiniteSet(MonitorsOf(W))
  <2> DEFINE V == {w \in W : ~OnlyAtStart(w) /\ ~OnlyAtEnd(w)}
             f == [w \in V |-> [atStart |-> Goals(w.cond, "start"), overAll |-> Goals(w.cond, "over"),
                                effect |-> Effects(w.effects, "end"), written |-> w]]
  <2>1. IsFiniteSet(V)
    BY <1>2, FS_Subset
  <2>2. f \in Surjection(V, MonitorsOf(W))
    BY DEF Surjection, MonitorsOf
  <2> QED
    BY <2>1, <2>2, FS_Surjection
<1>4. ASSUME NEW at PROVE IsFiniteSet(HandleConditional(W, at))
  <2> DEFINE V == {w \in W : IF at = "end" THEN OnlyAtEnd(w)
                            ELSE OnlyAtStart(w) \/ Effects(w.effects, "start") # NoEffect}
             f == [w \in V |-> [cond |-> Goals(w.cond, at), effect |-> Effects(w.effects, at), written |-> w]]
  <2>1. IsFiniteSet(V)
    BY <1>2, FS_Subset
  <2>2. f \in Surjection(V, HandleConditional(W, at))
    BY DEF Surjection, HandleConditional
  <2> QED
    BY <2>1, <2>2, FS_Surjection
<1>5. IsFiniteSet(FiredBy(a))
  <2>1. Snap(a).when = HandleConditional(W, "start") \/ Snap(a).when = HandleConditional(W, "end")
    BY <1>1 DEF SnapAction
  <2>2. FiredBy(a) \in SUBSET (Snap(a).when)
    BY DEF FiredBy
  <2> HIDE DEF W
  <2> QED
    BY <1>4, <2>1, <2>2, FS_Subset
<1>6. IsFiniteSet(MonitorsIn({a[1]}))
  <2> DEFINE f == [m \in MonitorsOf(W) |-> <<a[1], m>>]
  <2>1. MonitorsIn({a[1]}) = {<<a[1], m>> : m \in MonitorsOf(W)}
    <3>1. Op(a[1]).monitors = MonitorsOf(W)
      BY <1>1 DEF HandleDurativeAction
    <3> HIDE DEF W
    <3> QED
      BY <3>1 DEF MonitorsIn
  <2>2. f \in Surjection(MonitorsOf(W), MonitorsIn({a[1]}))
    BY <2>1 DEF Surjection
  <2> QED
    BY <1>3, <2>2, FS_Surjection
<1>7. IsFiniteSet(MonitorsOfStart(a)) /\ IsFiniteSet(MonitorsOfEnd(a))
  <2>1. /\ MonitorsOfStart(a) \in SUBSET MonitorsIn({a[1]})
        /\ MonitorsOfEnd(a) \in SUBSET MonitorsIn({a[1]})
    BY DEF MonitorsOfStart, MonitorsOfEnd
  <2> QED
    BY <1>6, <2>1, FS_Subset
<1> QED
  BY <1>5, <1>7

\* u is the sequence s, mapped by the function g.
IsMapped(u, s, g) == u = [i \in DOMAIN s |-> g[s[i]]]

\* What a mapped sequence has, and where.
LEMMA Mapped ==
  ASSUME NEW S, NEW s \in Seq(S), NEW g, NEW u, IsMapped(u, s, g)
  PROVE  /\ Len(u) = Len(s) /\ Len(s) \in Nat
         /\ \A i \in 1..Len(s) : s[i] \in S /\ u[i] = g[s[i]]
         /\ \A x : Has(u, x) <=> \E y \in S : Has(s, y) /\ x = g[y]
<1>1. /\ Len(s) \in Nat /\ DOMAIN s = 1..Len(s) /\ \A i \in 1..Len(s) : s[i] \in S
      /\ u = [i \in DOMAIN s |-> g[s[i]]]
  BY DEF IsMapped
<1>2. Len(u) = Len(s)
  <2>1. u \in Seq({g[y] : y \in S})
    BY <1>1
  <2> QED
    BY <1>1
<1>3. \A i \in 1..Len(s) : u[i] = g[s[i]]
  BY <1>1
<1> QED
  BY <1>1, <1>2, <1>3 DEF Has

\* A mapped sequence is a sequence of what the function gives.
LEMMA MappedTyped ==
  ASSUME NEW S, NEW T, NEW s \in Seq(S), NEW g, NEW u, IsMapped(u, s, g),
         \A y \in S : g[y] \in T
  PROVE  u \in Seq(T)
BY DEF IsMapped

\* A sequence of one element.
LEMMA SingleHas ==
  ASSUME NEW T, NEW c \in T
  PROVE  /\ <<c>> \in Seq(T) /\ Len(<<c>>) = 1 /\ \A x : Has(<<c>>, x) <=> x = c
BY DEF Has

\* The claims an action makes for its effects.
LEMMA EffectsClaimed ==
  ASSUME problem \in Problems, NEW t, NEW a \in ActionsAt(t), NEW mark
  PROVE  /\ EffectClaims(a, mark) \in Seq(ClaimsOf(a, mark))
         /\ \A c : Has(EffectClaims(a, mark), c) <=> c \in ClaimsOf(a, mark)
<1> DEFINE T == ClaimsOf(a, mark)
           F == FiredBy(a)
           M == MonitorsOfEnd(a)
           ws == SetToSeq(F)
           ms == SetToSeq(M)
           g == [w \in F |-> Claim(a, {w.written}, IF mark THEN w.cond ELSE {}, w.effect)]
           h == [m \in M |-> Claim(Name(m), {m[2].written}, {}, m[2].effect)]
           c1 == Claim(a, {}, {}, [Snap(a).effect EXCEPT !.upd = {}])
           c3 == Claim(a, {}, {}, [NoEffect EXCEPT !.upd = Snap(a).effect.upd])
           s2 == [i \in DOMAIN ws |-> Claim(a, {ws[i].written}, IF mark THEN ws[i].cond ELSE {}, ws[i].effect)]
           s4 == [i \in DOMAIN ms |-> Claim(Name(ms[i]), {ms[i][2].written}, {}, ms[i][2].effect)]
<1>1. EffectClaims(a, mark) = ((<<c1>> \o s2) \o <<c3>>) \o s4
  BY DEF EffectClaims, FiredBy, MonitorsOfEnd
<1>2. /\ ws \in Seq(F) /\ DOMAIN ws = 1..Len(ws) /\ \A x : Has(ws, x) <=> x \in F
      /\ ms \in Seq(M) /\ DOMAIN ms = 1..Len(ms) /\ \A x : Has(ms, x) <=> x \in M
  BY WhensFinite, Listed
<1>3. T = {c1} \cup {g[w] : w \in F} \cup {c3} \cup {h[m] : m \in M}
  BY DEF ClaimsOf
<1>4. /\ g \in [F -> T] /\ h \in [M -> T] /\ c1 \in T /\ c3 \in T
  <2> HIDE DEF F, M, c1, c3
  <2> QED
    BY DEF ClaimsOf, c1, c3, F, M
<1> HIDE DEF ws, ms
<1>5. IsMapped(s2, ws, g) /\ IsMapped(s4, ms, h)
  <2>1. (\A i \in DOMAIN ws : ws[i] \in F) /\ (\A i \in DOMAIN ms : ms[i] \in M)
    BY <1>2
  <2> HIDE DEF F, M
  <2> QED
    BY <2>1 DEF IsMapped
<1> HIDE DEF F, M, T, g, h, c1, c3, s2, s4
<1>6. /\ s2 \in Seq(T) /\ \A x : Has(s2, x) <=> \E w \in F : x = g[w]
      /\ s4 \in Seq(T) /\ \A x : Has(s4, x) <=> \E m \in M : x = h[m]
  <2>1. \A x : Has(s2, x) <=> \E w \in F : Has(ws, w) /\ x = g[w]
    BY <1>2, <1>5, Mapped
  <2>2. \A x : Has(s4, x) <=> \E m \in M : Has(ms, m) /\ x = h[m]
    BY <1>2, <1>5, Mapped
  <2>3. (\A w \in F : g[w] \in T) /\ (\A m \in M : h[m] \in T)
    BY <1>4
  <2>4. s2 \in Seq(T) /\ s4 \in Seq(T)
    BY <1>2, <1>5, <2>3, MappedTyped
  <2> QED
    BY <1>2, <2>1, <2>2, <2>4
<1>7. /\ <<c1>> \in Seq(T) /\ \A x : Has(<<c1>>, x) <=> x = c1
      /\ <<c3>> \in Seq(T) /\ \A x : Has(<<c3>>, x) <=> x = c3
  BY <1>4, SingleHas
<1>8. <<c1>> \o s2 \in Seq(T) /\ \A x : Has(<<c1>> \o s2, x) <=> x = c1 \/ \E w \in F : x = g[w]
  BY <1>6, <1>7, ConcatHas
<1> DEFINE s3 == <<c1>> \o s2
<1>9. /\ s3 \in Seq(T) /\ \A x : Has(s3, x) <=> x = c1 \/ \E w \in F : x = g[w]
  BY <1>8
<1> HIDE DEF s3
<1>10. /\ s3 \o <<c3>> \in Seq(T)
       /\ \A x : Has(s3 \o <<c3>>, x) <=> (x = c1 \/ \E w \in F : x = g[w]) \/ x = c3
  BY <1>7, <1>9, ConcatHas
<1> DEFINE s5 == s3 \o <<c3>>
<1>11. /\ s5 \in Seq(T) /\ \A x : Has(s5, x) <=> (x = c1 \/ \E w \in F : x = g[w]) \/ x = c3
  BY <1>10
<1>12. EffectClaims(a, mark) = s5 \o s4
  BY <1>1 DEF s3
<1> HIDE DEF s5
<1>13. /\ s5 \o s4 \in Seq(T)
       /\ \A x : Has(s5 \o s4, x) <=> ((x = c1 \/ \E w \in F : x = g[w]) \/ x = c3) \/ \E m \in M : x = h[m]
  BY <1>6, <1>11, ConcatHas
<1>14. \A x : x \in T <=> ((x = c1 \/ \E w \in F : x = g[w]) \/ x = c3) \/ \E m \in M : x = h[m]
  BY <1>3
<1> QED
  BY <1>12, <1>13, <1>14 DEF T

\* The claims an action makes before them.
LEMMA FirstClaimed ==
  ASSUME problem \in Problems, NEW t, NEW a \in ActionsAt(t)
  PROVE  /\ PreconditionClaims(a) \in Seq(FirstClaimsOf(a))
         /\ \A c : Has(PreconditionClaims(a), c) <=> c \in FirstClaimsOf(a)
<1> DEFINE T == FirstClaimsOf(a)
           M == MonitorsOfStart(a)
           ms == SetToSeq(M)
           h == [m \in M |-> Claim(Name(m), {m[2].written}, m[2].atStart, NoEffect)]
           c1 == Claim(a, {}, Snap(a).pre, NoEffect)
           s1 == [i \in DOMAIN ms |-> Claim(Name(ms[i]), {ms[i][2].written}, ms[i][2].atStart, NoEffect)]
<1>1. PreconditionClaims(a) = Append(s1, c1)
  BY DEF PreconditionClaims, MonitorsOfStart
<1>2. ms \in Seq(M) /\ DOMAIN ms = 1..Len(ms) /\ \A x : Has(ms, x) <=> x \in M
  BY WhensFinite, Listed
<1>3. T = {h[m] : m \in M} \cup {c1}
  BY DEF FirstClaimsOf
<1>4. h \in [M -> T] /\ c1 \in T
  <2> HIDE DEF M, c1
  <2> QED
    BY DEF FirstClaimsOf, c1, M
<1> HIDE DEF ms
<1>5. IsMapped(s1, ms, h)
  <2>1. \A i \in DOMAIN ms : ms[i] \in M
    BY <1>2
  <2> HIDE DEF M
  <2> QED
    BY <2>1 DEF IsMapped
<1> HIDE DEF M, T, h, c1, s1
<1>6. s1 \in Seq(T) /\ \A x : Has(s1, x) <=> \E m \in M : x = h[m]
  <2>1. \A x : Has(s1, x) <=> \E m \in M : Has(ms, m) /\ x = h[m]
    BY <1>2, <1>5, Mapped
  <2>2. \A m \in M : h[m] \in T
    BY <1>4
  <2>3. s1 \in Seq(T)
    BY <1>2, <1>5, <2>2, MappedTyped
  <2> QED
    BY <1>2, <2>1, <2>3
<1>7. <<c1>> \in Seq(T) /\ \A x : Has(<<c1>>, x) <=> x = c1
  BY <1>4, SingleHas
<1>8. s1 \o <<c1>> \in Seq(T) /\ \A x : Has(s1 \o <<c1>>, x) <=> (\E m \in M : x = h[m]) \/ x = c1
  BY <1>6, <1>7, ConcatHas
<1>9. Append(s1, c1) = s1 \o <<c1>>
  BY <1>4, <1>6, AppendIsConcat
<1> QED
  BY <1>1, <1>3, <1>8, <1>9 DEF T

FirstClaims(order) == FlattenSeq([i \in 1..Len(order) |-> PreconditionClaims(order[i])])

\* All that the actions of a happening claim.
AllClaims(t, mark) == UNION {ClaimsOf(a, mark) : a \in ActionsAt(t)}
AllFirstClaims(t) == UNION {FirstClaimsOf(a) : a \in ActionsAt(t)}

\* The claims of a happening are those of its actions, in any order of them.
LEMMA ClaimsHave ==
  ASSUME problem \in Problems, NEW t, NEW order \in Orders(t), NEW mark, mark = (Len(order) > 1)
  PROVE  /\ Claims(order) \in Seq(AllClaims(t, mark))
         /\ \A c : Has(Claims(order), c) <=> c \in AllClaims(t, mark)
<1> DEFINE T == AllClaims(t, mark)
           A == ActionsAt(t)
           n == Len(order)
           ss == [i \in 1..n |-> EffectClaims(order[i], mark)]
<1>1. n \in Nat /\ order \in Seq(A) /\ \A a : Has(order, a) <=> a \in A
  BY Ordered
<1>2. (\A i \in 1..n : order[i] \in A) /\ \A a \in A : \E i \in 1..n : order[i] = a
  BY <1>1 DEF Has
<1>3. \A a \in A : /\ EffectClaims(a, mark) \in Seq(ClaimsOf(a, mark))
                   /\ ClaimsOf(a, mark) \subseteq T
                   /\ \A c : Has(EffectClaims(a, mark), c) <=> c \in ClaimsOf(a, mark)
  BY EffectsClaimed DEF AllClaims
<1>4. \A a \in A : EffectClaims(a, mark) \in Seq(T)
  BY <1>3
<1> HIDE DEF A, T
<1>5. ss \in Seq(Seq(T)) /\ Len(ss) = n /\ \A i \in 1..n : ss[i] = EffectClaims(order[i], mark)
  <2>1. \A i \in 1..n : EffectClaims(order[i], mark) \in Seq(T)
    BY <1>2, <1>4
  <2>2. n \in Nat
    BY <1>1
  <2> HIDE DEF n
  <2> QED
    BY <2>1, <2>2
<1>6. Claims(order) = FlattenSeq(ss)
  BY DEF Claims
<1> HIDE DEF ss
<1>7. /\ FlattenSeq(ss) \in Seq(T)
      /\ \A c : Has(FlattenSeq(ss), c) <=> \E i \in 1..n : Has(ss[i], c)
  BY <1>5, Flattened
<1>8. \A c : (\E i \in 1..n : Has(ss[i], c)) <=> \E a \in A : c \in ClaimsOf(a, mark)
  BY <1>2, <1>3, <1>5
<1> QED
  BY <1>6, <1>7, <1>8 DEF T, A, AllClaims

\* So are the claims it makes before them.
LEMMA FirstClaimsHave ==
  ASSUME problem \in Problems, NEW t, NEW order \in Orders(t)
  PROVE  /\ FirstClaims(order) \in Seq(AllFirstClaims(t))
         /\ \A c : Has(FirstClaims(order), c) <=> c \in AllFirstClaims(t)
<1> DEFINE T == AllFirstClaims(t)
           A == ActionsAt(t)
           n == Len(order)
           ss == [i \in 1..n |-> PreconditionClaims(order[i])]
<1>1. n \in Nat /\ order \in Seq(A) /\ \A a : Has(order, a) <=> a \in A
  BY Ordered
<1>2. (\A i \in 1..n : order[i] \in A) /\ \A a \in A : \E i \in 1..n : order[i] = a
  BY <1>1 DEF Has
<1>3. \A a \in A : /\ PreconditionClaims(a) \in Seq(FirstClaimsOf(a))
                   /\ FirstClaimsOf(a) \subseteq T
                   /\ \A c : Has(PreconditionClaims(a), c) <=> c \in FirstClaimsOf(a)
  BY FirstClaimed DEF AllFirstClaims
<1>4. \A a \in A : PreconditionClaims(a) \in Seq(T)
  BY <1>3
<1> HIDE DEF A, T
<1>5. ss \in Seq(Seq(T)) /\ Len(ss) = n /\ \A i \in 1..n : ss[i] = PreconditionClaims(order[i])
  <2>1. \A i \in 1..n : PreconditionClaims(order[i]) \in Seq(T)
    BY <1>2, <1>4
  <2>2. n \in Nat
    BY <1>1
  <2> HIDE DEF n
  <2> QED
    BY <2>1, <2>2
<1>6. FirstClaims(order) = FlattenSeq(ss)
  BY DEF FirstClaims
<1> HIDE DEF ss
<1>7. /\ FlattenSeq(ss) \in Seq(T)
      /\ \A c : Has(FlattenSeq(ss), c) <=> \E i \in 1..n : Has(ss[i], c)
  BY <1>5, Flattened
<1>8. \A c : (\E i \in 1..n : Has(ss[i], c)) <=> \E a \in A : c \in FirstClaimsOf(a)
  BY <1>2, <1>3, <1>5
<1> QED
  BY <1>6, <1>7, <1>8 DEF T, A, AllFirstClaims

-----------------------------------------------------------------------------
(* The claims are the effects the plan means.                                *)

\* The effects of one end of a step.
EffectsOf(s, at) ==
    {[by |-> <<s.op, at>>, from |-> {}, of |-> Effects(Written(s).effects, at)]}
    \cup {[by |-> Claimant(s, w, at), from |-> {w}, of |-> Effects(w.effects, at)] :
            w \in {w \in Written(s).when : Fires(s, w, at)}}

\* The happening at t is the one to come, and nothing has failed before.
Due(t) ==
    /\ Inv /\ StatusInv /\ Unfailed /\ kind = "REGULAR"
    /\ t \in Times /\ next = t /\ Number(t) = Len(trace)

\* c is a claim of a part of the effect e.
Gives(c, e) ==
    /\ c.by = e.by /\ c.from = e.from
    /\ c.add \subseteq e.of.add /\ c.del \subseteq e.of.del /\ c.upd \subseteq e.of.upd
    /\ c.del = {} \/ c.add = e.of.add

\* Every part of the effect e is in a claim of the set C.
Given(e, C) ==
    /\ \A p \in e.of.add : \E c \in C : Gives(c, e) /\ p \in c.add
    /\ \A p \in e.of.del : \E c \in C : Gives(c, e) /\ p \in c.del
    /\ \A u \in e.of.upd : \E c \in C : Gives(c, e) /\ u \in c.upd

\* The state is the one before the happening to come.
LEMMA StateBefore ==
  ASSUME NEW t, Due(t)
  PROVE  /\ problem \in Problems
         /\ \A c : TrueBefore(c, t) <=> IsTrue(c, state, values)
         /\ \A c : c = {} => \A k : TrueIn(c, k)
<1>1. Inv /\ Unfailed /\ Number(t) = Len(trace)
  BY DEF Due
<1>2. TraceInv /\ problem \in Problems
  BY <1>1 DEF Inv
<1> QED
  BY <1>1, <1>2 DEF TraceInv, TrueBefore, TrueIn, IsTrue

\* At its start, a step claims the effects it has then.
LEMMA StartMatches ==
  ASSUME NEW t, Due(t), NEW s \in Plan, s.start = t, NEW a, a = <<s.op, "start">>,
         Op(s.op) = HandleDurativeAction(Written(s)), Snap(a) = SnapAction(Written(s), "start"),
         NEW mark
  PROVE  /\ \A c \in ClaimsOf(a, mark) : \E e \in EffectsOf(s, "start") : Gives(c, e)
         /\ \A e \in EffectsOf(s, "start") : Given(e, ClaimsOf(a, mark))
<1> DEFINE W == Written(s).when
           E == Effects(Written(s).effects, "start")
           c1 == Claim(a, {}, {}, [E EXCEPT !.upd = {}])
           c3 == Claim(a, {}, {}, [NoEffect EXCEPT !.upd = E.upd])
           e1 == [by |-> a, from |-> {}, of |-> E]
           cw(w) == Claim(a, {w}, IF mark THEN Goals(w.cond, "start") ELSE {}, Effects(w.effects, "start"))
           ew(w) == [by |-> a, from |-> {w}, of |-> Effects(w.effects, "start")]
           Kept == {w \in W : OnlyAtStart(w) \/ Effects(w.effects, "start") # NoEffect}
           F == {w \in W : IsTrue(Goals(w.cond, "start"), state, values)}
<1>1. Snap(a).effect = E /\ Snap(a).when = HandleConditional(W, "start") /\ a[2] = "start"
  BY DEF SnapAction
<1>2. ClaimsOf(a, mark) = {c1} \cup {cw(w) : w \in Kept \cap F} \cup {c3}
  <2>1. MonitorsOfEnd(a) = {}
    BY <1>1 DEF MonitorsOfEnd
  <2>2. FiredBy(a) = {[cond |-> Goals(w.cond, "start"), effect |-> Effects(w.effects, "start"),
                       written |-> w] : w \in Kept \cap F}
    BY <1>1 DEF FiredBy, HandleConditional
  <2>3. {Claim(a, {w.written}, IF mark THEN w.cond ELSE {}, w.effect) : w \in FiredBy(a)}
           = {cw(w) : w \in Kept \cap F}
    <3> DEFINE rec(w) == [cond |-> Goals(w.cond, "start"), effect |-> Effects(w.effects, "start"),
                          written |-> w]
               V == Kept \cap F
    <3>1. FiredBy(a) = {rec(w) : w \in V}
      BY <2>2
    <3>2. \A w : Claim(a, {rec(w).written}, IF mark THEN rec(w).cond ELSE {}, rec(w).effect) = cw(w)
      OBVIOUS
    <3> DEFINE of(r) == Claim(a, {r.written}, IF mark THEN r.cond ELSE {}, r.effect)
    <3>3. \A w : of(rec(w)) = cw(w)
      BY <3>2
    <3> HIDE DEF V, rec, cw, of
    <3>4. {of(r) : r \in FiredBy(a)} = {cw(w) : w \in V}
      BY <3>1, <3>3
    <3> QED
      BY <3>4 DEF V, of
  <2>4. ClaimsOf(a, mark) = {c1} \cup {cw(w) : w \in Kept \cap F} \cup {c3} \cup {}
    <3>1. {Claim(Name(m), {m[2].written}, {}, m[2].effect) : m \in MonitorsOfEnd(a)} = {}
      BY <2>1
    <3> HIDE DEF Kept, F, E, cw
    <3> QED
      BY <1>1, <2>3, <3>1 DEF ClaimsOf
  <2> HIDE DEF c1, c3, cw, Kept, F
  <2> QED
    BY <2>4
<1>3. EffectsOf(s, "start") = {e1} \cup {ew(w) : w \in F}
  <2>1. \A w : Fires(s, w, "start") <=> IsTrue(Goals(w.cond, "start"), state, values)
    BY StateBefore DEF Fires
  <2>2. \A w : Claimant(s, w, "start") = a
    BY DEF Claimant
  <2> HIDE DEF E
  <2> QED
    BY <2>1, <2>2 DEF EffectsOf, E
<1>4. Gives(c1, e1) /\ Gives(c3, e1) /\ Given(e1, {c1, c3})
  BY DEF Gives, Given, Claim, NoEffect, Effects
<1>5. \A w : Gives(cw(w), ew(w)) /\ Given(ew(w), {cw(w)})
  BY DEF Gives, Given, Claim
<1>6. \A w \in W \ Kept : Effects(w.effects, "start") = NoEffect
  OBVIOUS
<1>7. \A w \in W \ Kept : \A C : Given(ew(w), C)
  BY <1>6 DEF Given, NoEffect
<1>8. \A e, C, D : Given(e, C) /\ C \subseteq D => Given(e, D)
  BY DEF Given
<1> DEFINE C == ClaimsOf(a, mark)
<1> HIDE DEF c1, c3, e1, cw, ew, Kept, E
<1>9. \A w \in F : w \in W
  OBVIOUS
<1> HIDE DEF F, W, C
<1>10. ASSUME NEW c \in C PROVE \E e \in EffectsOf(s, "start") : Gives(c, e)
  <2>1. c = c1 \/ c = c3 \/ \E w \in F : c = cw(w)
    BY <1>2, <1>10 DEF C
  <2> QED
    BY <1>3, <1>4, <1>5, <2>1
<1>11. ASSUME NEW e \in EffectsOf(s, "start") PROVE Given(e, C)
  <2>1. CASE e = e1
    <3>1. {c1, c3} \subseteq C
      BY <1>2 DEF C
    <3> QED
      BY <1>4, <1>8, <2>1, <3>1
  <2>2. ASSUME NEW w \in F, e = ew(w) PROVE Given(e, C)
    <3>1. CASE w \in Kept
      <4>1. {cw(w)} \subseteq C
        BY <1>2, <3>1 DEF C
      <4>2. Given(ew(w), {cw(w)})
        BY <1>5
      <4> QED
        BY <1>8, <2>2, <4>1, <4>2
    <3>2. CASE w \notin Kept
      BY <1>7, <1>9, <2>2, <3>2
    <3> QED
      BY <3>1, <3>2
  <2> QED
    BY <1>3, <2>1, <2>2
<1> QED
  BY <1>10, <1>11 DEF C

Spanning(s) == {w \in Written(s).when : ~OnlyAtStart(w) /\ ~OnlyAtEnd(w)}
MonitorOf(w) ==
    [atStart |-> Goals(w.cond, "start"), overAll |-> Goals(w.cond, "over"),
     effect |-> Effects(w.effects, "end"), written |-> w]

\* A monitor has the status to apply at the end just if its effect is to happen.
LEMMA MonitorFires ==
  ASSUME NEW t, Due(t), NEW s \in Plan, Op(s.op).durative, s.end = t,
         Op(s.op) = HandleDurativeAction(Written(s)), NEW w \in Spanning(s)
  PROVE  /\ MonitorOf(w) \in Op(s.op).monitors
         /\ <<s.op, MonitorOf(w)>> \in InitialStatus(next) <=> Fires(s, w, "end")
<1> DEFINE m == MonitorOf(w)
           overall == Goals(w.cond, "start") \cup Goals(w.cond, "over")
<1>1. m \in Op(s.op).monitors
  BY DEF HandleDurativeAction, MonitorsOf, MonitorOf, Spanning
<1>2. /\ StatusIs(status) /\ problem \in Problems /\ kind = "REGULAR"
      /\ Number(t) = Len(trace)
  BY DEF Due, StatusInv, Inv
<1>3. /\ s.start \in Times /\ s.end \in Times /\ s.start \in Nat /\ s.end \in Nat
      /\ s.start <= s.end
  BY <1>2, StepTimes
<1>4. /\ s.start < s.end => Number(s.start) < Len(trace)
      /\ Number(s.start) \in Nat /\ Number(s.end) = Len(trace) /\ Len(trace) \in Nat
  BY <1>2, <1>3, InOrder
<1>5. \A k \in Inside(s) : Looked(k)
  BY <1>2, <1>4 DEF Inside, Looked
<1>6. <<s.op, m>> \in InitialStatus(next) <=>
          /\ TrueBefore(Goals(w.cond, "start"), s.start)
          /\ \A k \in Inside(s) : TrueIn(Goals(w.cond, "over"), k)
  <2>1. next = t /\ (<<s.op, m>> \in MonitorsIn(StartsAt(t)) <=> s.start = t)
    BY <1>1, <1>2, OwnMonitors DEF Due
  <2>2. CASE s.start = t
    <3>1. Inside(s) = {}
      BY <1>4, <2>2 DEF Inside
    <3>2. <<s.op, m>> \in InitialStatus(next) <=> IsTrue(m.atStart, state, values)
      BY <2>1, <2>2 DEF InitialStatus
    <3>3. TrueBefore(m.atStart, t) <=> IsTrue(m.atStart, state, values)
      BY StateBefore
    <3> QED
      BY <2>2, <3>1, <3>2, <3>3 DEF MonitorOf
  <2>3. CASE s.start # t
    <3>1. s.start < s.end
      BY <1>3, <2>3
    <3>2. <<s.op, m>> \in InitialStatus(next) <=> <<s.op, m>> \in status
      BY <2>1, <2>3 DEF InitialStatus
    <3>3. <<s.op, m>> \in status <=> Alive(s, m)
      BY <1>1, <1>2, <2>3 DEF StatusIs
    <3> QED
      BY <1>4, <1>5, <3>1, <3>2, <3>3 DEF Alive, MonitorOf
  <2> QED
    BY <2>2, <2>3
<1>7. overall # {}
  BY DEF Spanning, OnlyAtEnd
<1>8. Fires(s, w, "end") <=> /\ TrueBefore(Goals(w.cond, "start"), s.start)
                             /\ \A k \in Inside(s) : TrueIn(Goals(w.cond, "over"), k)
  BY <1>7 DEF Fires
<1> QED
  BY <1>1, <1>6, <1>8

\* At its end, a step claims the effects it has then.
LEMMA EndMatches ==
  ASSUME NEW t, Due(t), NEW s \in Plan, s.end = t, Op(s.op).durative,
         NEW a, a = <<s.op, "end">>,
         Op(s.op) = HandleDurativeAction(Written(s)), Snap(a) = SnapAction(Written(s), "end"),
         NEW mark
  PROVE  /\ \A c \in ClaimsOf(a, mark) : \E e \in EffectsOf(s, "end") : Gives(c, e)
         /\ \A e \in EffectsOf(s, "end") : Given(e, ClaimsOf(a, mark))
<1> DEFINE W == Written(s).when
           E == Effects(Written(s).effects, "end")
           c1 == Claim(a, {}, {}, [E EXCEPT !.upd = {}])
           c3 == Claim(a, {}, {}, [NoEffect EXCEPT !.upd = E.upd])
           e1 == [by |-> a, from |-> {}, of |-> E]
           cw(w) == Claim(a, {w}, IF mark THEN Goals(w.cond, "end") ELSE {}, Effects(w.effects, "end"))
           ew(w) == [by |-> a, from |-> {w}, of |-> Effects(w.effects, "end")]
           cm(w) == Claim(<<s.op, "monitor", w>>, {w}, {}, Effects(w.effects, "end"))
           em(w) == [by |-> <<s.op, "monitor", w>>, from |-> {w}, of |-> Effects(w.effects, "end")]
           es(w) == [by |-> Claimant(s, w, "end"), from |-> {w}, of |-> Effects(w.effects, "end")]
           Kept == {w \in W : OnlyAtEnd(w)}
           Span == Spanning(s)
           AtStart == {w \in W : OnlyAtStart(w)}
           F == {w \in W : Fires(s, w, "end")}
<1>1. Snap(a).effect = E /\ Snap(a).when = HandleConditional(W, "end") /\ a[2] = "end" /\ a[1] = s.op
  BY DEF SnapAction
<1>2. /\ W = Kept \cup Span \cup AtStart /\ F \subseteq W
      /\ \A w \in Kept : w \notin Span /\ w \notin AtStart
      /\ \A w \in Span : w \notin AtStart
  BY DEF Spanning, OnlyAtEnd
<1>3. \A w \in Kept : w \in F <=> IsTrue(Goals(w.cond, "end"), state, values)
  <2> SUFFICES ASSUME NEW w \in Kept
               PROVE  Fires(s, w, "end") <=> IsTrue(Goals(w.cond, "end"), state, values)
    OBVIOUS
  <2>1. Goals(w.cond, "start") = {} /\ Goals(w.cond, "over") = {}
    BY DEF OnlyAtEnd
  <2>2. /\ TrueBefore(Goals(w.cond, "start"), s.start)
        /\ \A k \in Inside(s) : TrueIn(Goals(w.cond, "over"), k)
    BY <2>1, StateBefore DEF TrueBefore
  <2>3. TrueBefore(Goals(w.cond, "end"), s.end) <=> IsTrue(Goals(w.cond, "end"), state, values)
    BY StateBefore
  <2> QED
    BY <2>1, <2>2, <2>3 DEF Fires
<1>4. {Claim(a, {w.written}, IF mark THEN w.cond ELSE {}, w.effect) : w \in FiredBy(a)}
         = {cw(w) : w \in Kept \cap F}
  <2> DEFINE rec(w) == [cond |-> Goals(w.cond, "end"), effect |-> Effects(w.effects, "end"),
                        written |-> w]
             V == Kept \cap F
             of(r) == Claim(a, {r.written}, IF mark THEN r.cond ELSE {}, r.effect)
  <2>1. FiredBy(a) = {rec(w) : w \in V}
    <3>1. HandleConditional(W, "end") = {rec(w) : w \in Kept}
      BY DEF HandleConditional
    <3>2. \A w : IsTrue(rec(w).cond, state, values) <=> IsTrue(Goals(w.cond, "end"), state, values)
      OBVIOUS
    <3> HIDE DEF Kept, F, rec
    <3> QED
      BY <1>1, <1>3, <3>1, <3>2 DEF FiredBy
  <2>2. \A w : of(rec(w)) = cw(w)
    OBVIOUS
  <2> HIDE DEF V, rec, cw, of
  <2>3. {of(r) : r \in FiredBy(a)} = {cw(w) : w \in V}
    BY <2>1, <2>2
  <2> QED
    BY <2>3 DEF V, of
<1>5. {Claim(Name(m), {m[2].written}, {}, m[2].effect) : m \in MonitorsOfEnd(a)}
         = {cm(w) : w \in Span \cap F}
  <2> DEFINE rec(w) == <<s.op, MonitorOf(w)>>
             V == Span \cap F
             of(m) == Claim(Name(m), {m[2].written}, {}, m[2].effect)
  <2>1. MonitorsOfEnd(a) = {rec(w) : w \in V}
    <3>1. Op(s.op).monitors = {MonitorOf(w) : w \in Span}
      BY DEF HandleDurativeAction, MonitorsOf, MonitorOf, Spanning
    <3>2. MonitorsIn({a[1]}) = {rec(w) : w \in Span}
      BY <1>1, <3>1 DEF MonitorsIn
    <3>3. \A w \in Span : rec(w) \in InitialStatus(next) <=> w \in F
      BY <1>2, MonitorFires DEF Spanning
    <3> HIDE DEF Span, F, rec
    <3> QED
      BY <1>1, <3>2, <3>3 DEF MonitorsOfEnd
  <2>2. \A w : of(rec(w)) = cm(w)
    BY DEF Name, MonitorOf
  <2> HIDE DEF V, rec, cm, of
  <2>3. {of(r) : r \in MonitorsOfEnd(a)} = {cm(w) : w \in V}
    BY <2>1, <2>2
  <2> QED
    BY <2>3 DEF V, of
<1>6. ClaimsOf(a, mark) = {c1} \cup {cw(w) : w \in Kept \cap F} \cup {c3} \cup {cm(w) : w \in Span \cap F}
  <2> HIDE DEF Kept, F, E, cw, cm, Span
  <2> QED
    BY <1>1, <1>4, <1>5 DEF ClaimsOf
<1>7. EffectsOf(s, "end") = {e1} \cup {es(w) : w \in F}
  <2> HIDE DEF E
  <2> QED
    BY DEF EffectsOf, E
<1>8. (\A w \in Kept : es(w) = ew(w)) /\ (\A w \in Span : es(w) = em(w))
  BY DEF Claimant, OnlyAtEnd, Spanning
<1>9. Gives(c1, e1) /\ Gives(c3, e1) /\ Given(e1, {c1, c3})
  BY DEF Gives, Given, Claim, NoEffect, Effects
<1>10. \A w : /\ Gives(cw(w), ew(w)) /\ Given(ew(w), {cw(w)})
              /\ Gives(cm(w), em(w)) /\ Given(em(w), {cm(w)})
  BY DEF Gives, Given, Claim
<1>11. \A w \in AtStart : \A C : Given(es(w), C)
  BY DEF Given, NoEffect, OnlyAtStart
<1>12. \A e, C, D : Given(e, C) /\ C \subseteq D => Given(e, D)
  BY DEF Given
<1> DEFINE C == ClaimsOf(a, mark)
<1> HIDE DEF c1, c3, e1, cw, ew, cm, em, es, Kept, E, Span, AtStart, F, W, C
<1>13. ASSUME NEW c \in C PROVE \E e \in EffectsOf(s, "end") : Gives(c, e)
  <2>1. \/ c = c1 \/ c = c3
        \/ \E w \in Kept \cap F : c = cw(w)
        \/ \E w \in Span \cap F : c = cm(w)
    BY <1>6, <1>13 DEF C
  <2> QED
    BY <1>7, <1>8, <1>9, <1>10, <2>1
<1>14. ASSUME NEW e \in EffectsOf(s, "end") PROVE Given(e, C)
  <2>1. CASE e = e1
    <3>1. {c1, c3} \subseteq C
      BY <1>6 DEF C
    <3> QED
      BY <1>9, <1>12, <2>1, <3>1
  <2>2. ASSUME NEW w \in F, e = es(w) PROVE Given(e, C)
    <3>1. CASE w \in Kept
      <4>1. {cw(w)} \subseteq C
        BY <1>6, <3>1 DEF C
      <4>2. Given(ew(w), {cw(w)})
        BY <1>10
      <4> QED
        BY <1>8, <1>12, <2>2, <3>1, <4>1, <4>2
    <3>2. CASE w \in Span
      <4>1. {cm(w)} \subseteq C
        BY <1>6, <3>2 DEF C
      <4>2. Given(em(w), {cm(w)})
        BY <1>10
      <4> QED
        BY <1>8, <1>12, <2>2, <3>2, <4>1, <4>2
    <3>3. CASE w \in AtStart
      BY <1>11, <2>2, <3>3
    <3> QED
      BY <1>2, <3>1, <3>2, <3>3
  <2> QED
    BY <1>7, <2>1, <2>2
<1> QED
  BY <1>13, <1>14 DEF C

\* The claims of a happening are its effects.
LEMMA ClaimsMatch ==
  ASSUME NEW t, Due(t), NEW mark
  PROVE  /\ \A c \in AllClaims(t, mark) : \E e \in EffectsAt(t) : Gives(c, e)
         /\ \A e \in EffectsAt(t) : Given(e, AllClaims(t, mark))
<1> DEFINE C == AllClaims(t, mark)
<1>1. problem \in Problems
  BY StateBefore
<1>2. EffectsAt(t) = UNION {EffectsOf(x[1], x[2]) : x \in EndsOfSteps(t)}
  BY DEF EffectsAt, EffectsOf
<1>3. ASSUME NEW s \in Plan, NEW at, NEW a, a = <<s.op, at>>,
             \/ at = "start" /\ s.start = t
             \/ at = "end" /\ s.end = t /\ Op(s.op).durative
      PROVE  /\ a \in ActionsAt(t) /\ <<s, at>> \in EndsOfSteps(t)
             /\ \A c \in ClaimsOf(a, mark) : \E e \in EffectsOf(s, at) : Gives(c, e)
             /\ \A e \in EffectsOf(s, at) : Given(e, ClaimsOf(a, mark))
  <2>1. a \in ActionsAt(t) /\ <<s, at>> \in EndsOfSteps(t)
    BY <1>3 DEF ActionsAt, StartsAt, EndsAt, EndsOfSteps
  <2>2. \A r \in Plan : r.op = s.op => r = s
    BY <1>1, StepTimes
  <2>3. PICK r \in Plan :
            /\ Op(r.op) = HandleDurativeAction(Written(r))
            /\ \/ a = <<r.op, "start">> /\ r.start = t
                  /\ Snap(a) = SnapAction(Written(r), "start")
               \/ a = <<r.op, "end">> /\ r.end = t /\ Op(r.op).durative
                  /\ Snap(a) = SnapAction(Written(r), "end")
    BY <1>1, <2>1, ActionStep
  <2>4. r = s
    BY <1>3, <2>2, <2>3
  <2>5. CASE at = "start"
    <3>1. /\ a = <<s.op, "start">> /\ s.start = t
          /\ Op(s.op) = HandleDurativeAction(Written(s)) /\ Snap(a) = SnapAction(Written(s), "start")
      BY <1>3, <2>3, <2>4, <2>5
    <3> QED
      BY <2>1, <2>5, <3>1, StartMatches
  <2>6. CASE at = "end"
    <3>1. /\ a = <<s.op, "end">> /\ s.end = t /\ Op(s.op).durative
          /\ Op(s.op) = HandleDurativeAction(Written(s)) /\ Snap(a) = SnapAction(Written(s), "end")
      BY <1>3, <2>3, <2>4, <2>6
    <3> QED
      BY <2>1, <2>6, <3>1, EndMatches
  <2> QED
    BY <1>3, <2>5, <2>6
<1>4. ASSUME NEW c \in C PROVE \E e \in EffectsAt(t) : Gives(c, e)
  <2>1. PICK a \in ActionsAt(t) : c \in ClaimsOf(a, mark)
    BY <1>4 DEF AllClaims
  <2>2. PICK s \in Plan, at \in {"start", "end"} :
          /\ a = <<s.op, at>>
          /\ \/ at = "start" /\ s.start = t
             \/ at = "end" /\ s.end = t /\ Op(s.op).durative
    BY DEF ActionsAt, StartsAt, EndsAt
  <2>3. <<s, at>> \in EndsOfSteps(t) /\ \E e \in EffectsOf(s, at) : Gives(c, e)
    BY <1>3, <2>1, <2>2
  <2> QED
    BY <1>2, <2>3
<1>5. ASSUME NEW e \in EffectsAt(t) PROVE Given(e, C)
  <2>1. PICK x \in EndsOfSteps(t) : e \in EffectsOf(x[1], x[2])
    BY <1>2, <1>5
  <2>2. PICK s \in Plan, at \in {"start", "end"} :
          /\ x = <<s, at>>
          /\ \/ at = "start" /\ s.start = t
             \/ at = "end" /\ s.end = t /\ Op(s.op).durative
    BY DEF EndsOfSteps
  <2>3. <<s.op, at>> \in ActionsAt(t) /\ Given(e, ClaimsOf(<<s.op, at>>, mark))
    BY <1>3, <2>1, <2>2
  <2>4. ClaimsOf(<<s.op, at>>, mark) \subseteq C
    BY <2>3 DEF AllClaims
  <2> QED
    BY <2>3, <2>4 DEF Given
<1> QED
  BY <1>4, <1>5

\* Whose the effects of a happening are, told from the claims.
LEMMA EffectsClaimedAt ==
  ASSUME NEW t, Due(t), NEW mark
  PROVE  /\ \A b, p : <<b, p>> \in AddedAt(t) <=> \E c \in AllClaims(t, mark) : c.by = b /\ p \in c.add
         /\ \A b, p : <<b, p>> \in DeletedAt(t) <=> \E c \in AllClaims(t, mark) : c.by = b /\ p \in c.del
         /\ \A b, u, f : <<b, u, f>> \in UpdatedAt(t) <=>
                \E c \in AllClaims(t, mark) : c.by = b /\ c.from = f /\ u \in c.upd
         /\ \A x \in AddedAt(t) \cup DeletedAt(t) : x = <<x[1], x[2]>>
         /\ \A x \in UpdatedAt(t) : x = <<x[1], x[2], x[3]>>
<1>1. /\ \A c \in AllClaims(t, mark) : \E e \in EffectsAt(t) : Gives(c, e)
      /\ \A e \in EffectsAt(t) : Given(e, AllClaims(t, mark))
  BY ClaimsMatch
<1>2. /\ \A b, p : <<b, p>> \in AddedAt(t) <=> \E e \in EffectsAt(t) : e.by = b /\ p \in e.of.add
      /\ \A b, p : <<b, p>> \in DeletedAt(t) <=> \E e \in EffectsAt(t) : e.by = b /\ p \in e.of.del
      /\ \A b, u, f : <<b, u, f>> \in UpdatedAt(t) <=>
             \E e \in EffectsAt(t) : e.by = b /\ e.from = f /\ u \in e.of.upd
  BY DEF AddedAt, DeletedAt, UpdatedAt
<1>3. /\ \A x \in AddedAt(t) \cup DeletedAt(t) : x = <<x[1], x[2]>>
      /\ \A x \in UpdatedAt(t) : x = <<x[1], x[2], x[3]>>
  BY DEF AddedAt, DeletedAt, UpdatedAt
<1>4. ASSUME NEW b, NEW p
      PROVE  <<b, p>> \in AddedAt(t) <=> \E c \in AllClaims(t, mark) : c.by = b /\ p \in c.add
  <2>1. ASSUME NEW e \in EffectsAt(t), e.by = b, p \in e.of.add
        PROVE  \E c \in AllClaims(t, mark) : c.by = b /\ p \in c.add
    <3>1. Given(e, AllClaims(t, mark))
      BY <1>1
    <3>2. PICK c \in AllClaims(t, mark) : Gives(c, e) /\ p \in c.add
      BY <2>1, <3>1 DEF Given
    <3>3. c.by = e.by /\ c.from = e.from
      BY <3>2 DEF Gives
    <3> QED
      BY <2>1, <3>2, <3>3
  <2>2. ASSUME NEW c \in AllClaims(t, mark), c.by = b, p \in c.add
        PROVE  \E e \in EffectsAt(t) : e.by = b /\ p \in e.of.add
    BY <1>1, <2>2 DEF Gives
  <2> QED
    BY <1>2, <2>1, <2>2
<1>5. ASSUME NEW b, NEW p
      PROVE  <<b, p>> \in DeletedAt(t) <=> \E c \in AllClaims(t, mark) : c.by = b /\ p \in c.del
  <2>1. ASSUME NEW e \in EffectsAt(t), e.by = b, p \in e.of.del
        PROVE  \E c \in AllClaims(t, mark) : c.by = b /\ p \in c.del
    <3>1. Given(e, AllClaims(t, mark))
      BY <1>1
    <3>2. PICK c \in AllClaims(t, mark) : Gives(c, e) /\ p \in c.del
      BY <2>1, <3>1 DEF Given
    <3>3. c.by = e.by /\ c.from = e.from
      BY <3>2 DEF Gives
    <3> QED
      BY <2>1, <3>2, <3>3
  <2>2. ASSUME NEW c \in AllClaims(t, mark), c.by = b, p \in c.del
        PROVE  \E e \in EffectsAt(t) : e.by = b /\ p \in e.of.del
    BY <1>1, <2>2 DEF Gives
  <2> QED
    BY <1>2, <2>1, <2>2
<1>6. ASSUME NEW b, NEW u, NEW f
      PROVE  <<b, u, f>> \in UpdatedAt(t) <=>
                \E c \in AllClaims(t, mark) : c.by = b /\ c.from = f /\ u \in c.upd
  <2>1. ASSUME NEW e \in EffectsAt(t), e.by = b, e.from = f, u \in e.of.upd
        PROVE  \E c \in AllClaims(t, mark) : c.by = b /\ c.from = f /\ u \in c.upd
    <3>1. Given(e, AllClaims(t, mark))
      BY <1>1
    <3>2. PICK c \in AllClaims(t, mark) : Gives(c, e) /\ u \in c.upd
      BY <2>1, <3>1 DEF Given
    <3>3. c.by = e.by /\ c.from = e.from
      BY <3>2 DEF Gives
    <3> QED
      BY <2>1, <3>2, <3>3
  <2>2. ASSUME NEW c \in AllClaims(t, mark), c.by = b, c.from = f, u \in c.upd
        PROVE  \E e \in EffectsAt(t) : e.by = b /\ e.from = f /\ u \in e.of.upd
    BY <1>1, <2>2 DEF Gives
  <2> QED
    BY <1>2, <2>1, <2>2
<1> QED
  BY <1>3, <1>4, <1>5, <1>6

\* What the actions of a happening require, told from the claims.
LEMMA RequirementsClaimed ==
  ASSUME NEW t, Due(t)
  PROVE  /\ \A b, x : <<b, x>> \in RequiredAt(t) <=>
               \E c \in AllClaims(t, TRUE) \cup AllFirstClaims(t) :
                   c.by = b /\ x \in c.require \cup Reads(c)
         /\ \A r \in RequiredAt(t) : r = <<r[1], r[2]>>
<1> DEFINE C == AllClaims(t, TRUE)
           D == AllFirstClaims(t)
           Spans(o) == {w \in Domains[problem.domain][o].when : ~OnlyAtStart(w) /\ ~OnlyAtEnd(w)}
           R1 == UNION {{a} \X (Snap(a).pre
                                   \cup UNION {w.cond : w \in {w \in Snap(a).when : TrueBefore(w.cond, t)}})
                        : a \in ActionsAt(t)}
           R2 == UNION {{e.by} \X ({u.by : u \in e.of.upd} \cap Fluents) : e \in EffectsAt(t)}
           R3 == UNION {UNION {{<<o, "monitor", w>>} \X Goals(w.cond, "start") : w \in Spans(o)} : o \in StartsAt(t)}
<1>1. RequiredAt(t) = R1 \cup R2 \cup R3
  BY DEF RequiredAt
<1>2. problem \in Problems /\ \A c : TrueBefore(c, t) <=> IsTrue(c, state, values)
  BY StateBefore
<1>3. /\ \A c \in C : \E e \in EffectsAt(t) : Gives(c, e)
      /\ \A e \in EffectsAt(t) : Given(e, C)
  BY ClaimsMatch
<1>4. ASSUME NEW b, NEW x
      PROVE  <<b, x>> \in R1 <=>
                /\ b \in ActionsAt(t)
                /\ x \in Snap(b).pre \/ \E w \in FiredBy(b) : x \in w.cond
  BY <1>2 DEF FiredBy
<1>5. ASSUME NEW b, NEW x
      PROVE  <<b, x>> \in R2 <=> \E c \in C : c.by = b /\ x \in Reads(c)
  <2>1. <<b, x>> \in R2 <=>
            \E e \in EffectsAt(t) : e.by = b /\ \E u \in e.of.upd : u.by = x /\ x \in Fluents
    OBVIOUS
  <2>2. \A c : x \in Reads(c) <=> \E u \in c.upd : u.by = x /\ x \in Fluents
    BY DEF Reads
  <2> HIDE DEF R2, C
  <2> QED
    BY <1>3, <2>1, <2>2 DEF Gives, Given
<1>6. ASSUME NEW b, NEW x
      PROVE  <<b, x>> \in R3 <=>
                \E o \in StartsAt(t) : \E w \in Spans(o) : b = <<o, "monitor", w>> /\ x \in Goals(w.cond, "start")
  OBVIOUS
<1>7. ASSUME NEW b, NEW x
      PROVE  (\E c \in C : c.by = b /\ x \in c.require) <=>
                b \in ActionsAt(t) /\ \E w \in FiredBy(b) : x \in w.cond
  <2>1. ASSUME NEW c \in C, c.by = b, x \in c.require
        PROVE  b \in ActionsAt(t) /\ \E w \in FiredBy(b) : x \in w.cond
    <3>1. PICK a \in ActionsAt(t) : c \in ClaimsOf(a, TRUE)
      BY <2>1 DEF AllClaims
    <3>2. PICK w \in FiredBy(a) : c = Claim(a, {w.written}, w.cond, w.effect)
      BY <2>1, <3>1 DEF ClaimsOf, Claim
    <3> QED
      BY <2>1, <3>2 DEF Claim
  <2>2. ASSUME b \in ActionsAt(t), NEW w \in FiredBy(b), x \in w.cond
        PROVE  \E c \in C : c.by = b /\ x \in c.require
    <3> DEFINE c == Claim(b, {w.written}, w.cond, w.effect)
    <3>0. c \in ClaimsOf(b, TRUE)
      BY <2>2 DEF ClaimsOf
    <3>1. c \in C
      BY <2>2, <3>0 DEF AllClaims
    <3>2. c.by = b /\ x \in c.require
      BY <2>2 DEF Claim
    <3> QED
      BY <3>1, <3>2
  <2> QED
    BY <2>1, <2>2
<1>8. ASSUME NEW b, NEW x
      PROVE  (\E c \in D : c.by = b /\ x \in c.require \cup Reads(c)) <=>
                \/ b \in ActionsAt(t) /\ x \in Snap(b).pre
                \/ \E o \in StartsAt(t) : \E w \in Spans(o) : b = <<o, "monitor", w>> /\ x \in Goals(w.cond, "start")
  <2>0. \A o \in StartsAt(t) : Op(o).monitors = {MonitorOf(w) : w \in Spans(o)}
    <3> SUFFICES ASSUME NEW o \in StartsAt(t) PROVE Op(o).monitors = {MonitorOf(w) : w \in Spans(o)}
      OBVIOUS
    <3>1. PICK s \in Plan : s.op = o
      BY DEF StartsAt
    <3>2. problem.domain \in DOMAIN Domains /\ o \in DOMAIN Domains[problem.domain]
      BY <1>2, <3>1, ProblemsAssumption DEF Plan
    <3>3. Op(o) = HandleDurativeAction(Domains[problem.domain][o])
      BY <3>2 DEF Op, Built
    <3> QED
      BY <3>3 DEF HandleDurativeAction, MonitorsOf, MonitorOf
  <2>1. ASSUME NEW c \in D, c.by = b, x \in c.require \cup Reads(c)
        PROVE  \/ b \in ActionsAt(t) /\ x \in Snap(b).pre
               \/ \E o \in StartsAt(t) : \E w \in Spans(o) : b = <<o, "monitor", w>> /\ x \in Goals(w.cond, "start")
    <3>1. PICK a \in ActionsAt(t) : c \in FirstClaimsOf(a)
      BY <2>1 DEF AllFirstClaims
    <3>2. Reads(c) = {}
      BY <3>1 DEF FirstClaimsOf, Claim, NoEffect, Reads
    <3>3. CASE c = Claim(a, {}, Snap(a).pre, NoEffect)
      BY <2>1, <3>2, <3>3 DEF Claim
    <3>4. ASSUME NEW m \in MonitorsOfStart(a), c = Claim(Name(m), {m[2].written}, m[2].atStart, NoEffect)
          PROVE  \E o \in StartsAt(t) : \E w \in Spans(o) : b = <<o, "monitor", w>> /\ x \in Goals(w.cond, "start")
      <4>1. a[2] = "start" /\ m \in MonitorsIn({a[1]})
        BY DEF MonitorsOfStart
      <4>2. a[1] \in StartsAt(t)
        BY <4>1 DEF ActionsAt
      <4>3. PICK w \in Spans(a[1]) : m = <<a[1], MonitorOf(w)>>
        BY <2>0, <4>1, <4>2 DEF MonitorsIn
      <4>4. b = <<a[1], "monitor", w>> /\ x \in Goals(w.cond, "start")
        BY <2>1, <3>2, <3>4, <4>3 DEF Claim, Name, MonitorOf
      <4> QED
        BY <4>2, <4>4
    <3> QED
      BY <3>1, <3>3, <3>4 DEF FirstClaimsOf
  <2>2. ASSUME b \in ActionsAt(t), x \in Snap(b).pre
        PROVE  \E c \in D : c.by = b /\ x \in c.require
    <3> DEFINE c == Claim(b, {}, Snap(b).pre, NoEffect)
    <3>1. c \in D
      BY <2>2 DEF AllFirstClaims, FirstClaimsOf
    <3>2. c.by = b /\ x \in c.require
      BY <2>2 DEF Claim
    <3> QED
      BY <3>1, <3>2
  <2>3. ASSUME NEW o \in StartsAt(t), NEW w \in Spans(o), b = <<o, "monitor", w>>, x \in Goals(w.cond, "start")
        PROVE  \E c \in D : c.by = b /\ x \in c.require
    <3> DEFINE m == <<o, MonitorOf(w)>>
               a == <<o, "start">>
               c == Claim(Name(m), {m[2].written}, m[2].atStart, NoEffect)
    <3>1. a \in ActionsAt(t)
      BY DEF ActionsAt
    <3>2. m \in MonitorsOfStart(a)
      BY <2>0 DEF MonitorsOfStart, MonitorsIn
    <3>3. c \in FirstClaimsOf(a)
      BY <3>2 DEF FirstClaimsOf
    <3>4. c \in D
      BY <3>1, <3>3 DEF AllFirstClaims
    <3>5. c.by = b /\ x \in c.require
      BY <2>3 DEF Claim, Name, MonitorOf
    <3> QED
      BY <3>4, <3>5
  <2> QED
    BY <2>1, <2>2, <2>3
<1>9. \A r \in R1 \cup R2 \cup R3 : r = <<r[1], r[2]>>
  OBVIOUS
<1> HIDE DEF R1, R2, R3, C, D, Spans
<1>10. ASSUME NEW b, NEW x
       PROVE  <<b, x>> \in R1 \cup R2 \cup R3 <=>
                 \E c \in C \cup D : c.by = b /\ x \in c.require \cup Reads(c)
  BY <1>4, <1>5, <1>6, <1>7, <1>8
<1> QED
  BY <1>1, <1>9, <1>10 DEF C, D

-----------------------------------------------------------------------------
(* The record of the ownership says who claimed what.                        *)

Owners(D) == {c.by : c \in D} \cup {Shared}
Entries(O) == [owner : O, kind : {"free", "pre", "add", "del", "assignment"}]

\* Who requires, adds, deletes and updates x in the claims D, and who has a
\* claim that deletes x and does not add it.
Requirers(D, x) == {c.by : c \in {c \in D : x \in c.require \cup Reads(c)}}
Adders(D, x) == {c.by : c \in {c \in D : x \in c.add}}
Deleters(D, x) == {c.by : c \in {c \in D : x \in c.del}}
Removers(D, x) == {c.by : c \in {c \in D : x \in c.del /\ x \notin c.add}}
Updaters(D, x) == {c.by : c \in {c \in D : UpdatesOf(c, x) # {}}}

OnlyAdditive(D, x) == \A c \in D : \A u \in UpdatesOf(c, x) : u.op \in Additive
OneUpdate(D, x) == \A c, d \in D : UpdatesOf(c, x) # {} /\ UpdatesOf(d, x) # {} => c = d

\* The entry e of a proposition, with those who require, add, delete and remove it.
PropositionEntry(e, R, A, L, N) ==
    /\ e.kind \in {"free", "pre", "add", "del"}
    /\ e.kind = "free" => R = {} /\ A = {} /\ L = {}
    /\ e.kind = "pre" => A = {} /\ L = {} /\ (R \subseteq {e.owner} \/ e.owner = Shared)
    /\ e.kind = "add" => e.owner \in A /\ R \subseteq {e.owner} /\ L \subseteq {e.owner}
    /\ e.kind = "del" => e.owner \in L \cap N /\ R \subseteq {e.owner} /\ A = {}

\* The entry e of a fluent, with those who require and update it.
FluentEntry(e, R, U, additive, one) ==
    /\ e.kind \in {"free", "pre", "add", "assignment"}
    /\ e.kind = "free" => R = {} /\ U = {}
    /\ e.kind = "pre" => U = {} /\ (R \subseteq {e.owner} \/ e.owner = Shared)
    /\ e.kind = "add" => additive /\ R \subseteq U /\ (e.owner = Shared \/ e.owner \in U)
    /\ e.kind = "assignment" => U = {e.owner} /\ R \subseteq {e.owner} /\ one

\* A proposition is required, added, deleted.
LEMMA PropositionRequired ==
  ASSUME NEW e, NEW R, NEW A, NEW L, NEW N, PropositionEntry(e, R, A, L, N),
         NEW a, a # Shared, MarkOwnedPrecondition(e, a)
  PROVE  PropositionEntry(Required(e, a), R \cup {a}, A, L, N)
<1>1. CASE e.kind = "free"
  BY <1>1 DEF PropositionEntry, Required
<1>2. CASE e.kind = "pre" /\ e.owner # a
  BY <1>2 DEF PropositionEntry, Required
<1>3. CASE e.kind # "free" /\ e.owner = a
  BY <1>3 DEF PropositionEntry, Required
<1> QED
  BY <1>1, <1>2, <1>3 DEF MarkOwnedPrecondition

\* It is granted that a proposition is added.
LEMMA PropositionAdded ==
  ASSUME NEW e, NEW R, NEW A, NEW L, NEW N, PropositionEntry(e, R, A, L, N),
         NEW a, a # Shared, OwnsForAdd(e, a), a \notin N
  PROVE  /\ PropositionEntry(Affected(e, a, "add"), R, A \cup {a}, L, N)
         /\ Affected(e, a, "add").kind = "add"
<1>1. CASE e.kind = "free"
  BY <1>1 DEF PropositionEntry, Affected
<1>2. CASE e.kind = "pre"
  BY <1>2 DEF PropositionEntry, Affected, OwnsForAdd
<1>3. CASE e.kind = "add"
  BY <1>3 DEF PropositionEntry, Affected
<1>4. CASE e.kind = "del"
  BY <1>4 DEF PropositionEntry, OwnsForAdd
<1> QED
  BY <1>1, <1>2, <1>3, <1>4 DEF PropositionEntry

\* It is granted that a proposition is deleted.
LEMMA PropositionDeleted ==
  ASSUME NEW e, NEW R, NEW A, NEW L, NEW N, PropositionEntry(e, R, A, L, N),
         NEW a, a # Shared, OwnsForDel(e, a), NEW M, N \subseteq M,
         e.kind \in {"free", "pre"} => a \in M
  PROVE  PropositionEntry(Affected(e, a, "del"), R, A, L \cup {a}, M)
<1>1. CASE e.kind = "free"
  BY <1>1 DEF PropositionEntry, Affected
<1>2. CASE e.kind = "pre"
  BY <1>2 DEF PropositionEntry, Affected, OwnsForDel
<1>3. CASE e.kind = "add"
  BY <1>3 DEF PropositionEntry, Affected, OwnsForDel
<1>4. CASE e.kind = "del"
  BY <1>4 DEF PropositionEntry, Affected
<1> QED
  BY <1>1, <1>2, <1>3, <1>4 DEF PropositionEntry

\* It is granted that a fluent is required.
LEMMA FluentRequired ==
  ASSUME NEW e, NEW R, NEW U, NEW additive, NEW one, FluentEntry(e, R, U, additive, one),
         NEW a, a # Shared, MarkOwnedPrecondition(e, a)
  PROVE  FluentEntry(Required(e, a), R \cup {a}, U, additive, one)
<1>1. CASE e.kind = "free"
  BY <1>1 DEF FluentEntry, Required
<1>2. CASE e.kind = "pre" /\ e.owner # a
  BY <1>2 DEF FluentEntry, Required
<1>3. CASE e.kind # "free" /\ e.owner = a
  BY <1>3 DEF FluentEntry, Required
<1> QED
  BY <1>1, <1>2, <1>3 DEF MarkOwnedPrecondition

\* It is granted that a fluent is updated.
LEMMA FluentUpdated ==
  ASSUME NEW e, NEW R, NEW U, NEW additive, NEW one, FluentEntry(e, R, U, additive, one),
         NEW a, a # Shared, NEW op, MarkOwnedEffectFE(e, a, op), NEW additive2, NEW one2,
         op \in Additive /\ (U = {} \/ additive) => additive2,
         U = {} => one2
  PROVE  FluentEntry(Updated(e, a, op), R, U \cup {a}, additive2, one2)
<1>1. CASE e.kind = "free"
  BY <1>1 DEF FluentEntry, Updated
<1>2. CASE e.kind = "pre" /\ e.owner = a
  BY <1>2 DEF FluentEntry, Updated
<1>3. CASE e.kind = "add" /\ op \in Additive
  <2>1. additive2 /\ R \subseteq U
    BY <1>3 DEF FluentEntry
  <2>2. /\ Updated(e, a, op).kind = "add"
        /\ Updated(e, a, op).owner = a \/ Updated(e, a, op).owner = Shared
    BY <1>3 DEF Updated
  <2> QED
    BY <2>1, <2>2 DEF FluentEntry
<1> QED
  BY <1>1, <1>2, <1>3 DEF MarkOwnedEffectFE

\* Claims are of a claimant each and have effects.
AreClaims(C) == \A c \in C : c.by # Shared /\ IsEffect(c)

\* No claimant deletes with one claim what it adds with another one only.
KeepsAdded(C) == \A c, d \in C : c.by = d.by => c.del \cap d.add \subseteq c.add

\* No end of an action deletes with one of its effects what it adds with
\* another one only.
EffectsApart ==
    \A d \in DOMAIN Domains : \A o \in DOMAIN Domains[d] : \A at \in {"start", "end"} :
        LET es == {Effects(Domains[d][o].effects, at)}
                      \cup {Effects(w.effects, at) : w \in Domains[d][o].when}
        IN  \A e, f \in es : e.del \cap f.add \subseteq e.add

\* The ownership own is the one of the claims D, in such domains for the
\* propositions, too.
PropositionOwned(e, D, x) ==
    PropositionEntry(e, Requirers(D, x), Adders(D, x), Deleters(D, x), Removers(D, x))
FluentOwned(e, D, x) ==
    FluentEntry(e, Requirers(D, x), Updaters(D, x), OnlyAdditive(D, x), OneUpdate(D, x))
Owned(own, D) ==
    /\ EffectsApart => \A x \in Props : PropositionOwned(own[x], D, x)
    /\ \A x \in Fluents : FluentOwned(own[x], D, x)

\* What Granted says of the entry of x.
GrantedAt(own, c, x) ==
    /\ x \in c.require \cup Reads(c) => MarkOwnedPrecondition(own[x], c.by)
    /\ x \in c.add => OwnsForAdd(AfterRequire(c, own[x], x), c.by)
    /\ x \in c.del => OwnsForDel(AfterAdd(c, own[x], x), c.by)
    /\ \A u \in UpdatesOf(c, x) : MarkOwnedEffectFE(AfterDel(c, own[x], x), c.by, u.op)

\* One more claim of a proposition.
LEMMA PropositionStep ==
  ASSUME NEW C, AreClaims(C), KeepsAdded(C), Props \cap Fluents = {},
         NEW D \in SUBSET C, NEW c \in C, NEW x \in Props,
         NEW own, PropositionOwned(own[x], D, x), GrantedAt(own, c, x)
  PROVE  /\ PropositionOwned(AfterDel(c, own[x], x), D \cup {c}, x)
         /\ UpdatesOf(c, x) = {}
<1> DEFINE R == Requirers(D, x)
           A == Adders(D, x)
           L == Deleters(D, x)
           N == Removers(D, x)
           M == Removers(D \cup {c}, x)
           e1 == AfterRequire(c, own[x], x)
           e2 == AfterAdd(c, own[x], x)
           e3 == AfterDel(c, own[x], x)
           R1 == Requirers(D \cup {c}, x)
           A1 == Adders(D \cup {c}, x)
           L1 == Deleters(D \cup {c}, x)
           a == c.by
<1>1. a # Shared /\ UpdatesOf(c, x) = {}
  BY DEF AreClaims, IsEffect, UpdatesOf
<1>2. PropositionEntry(own[x], R, A, L, N)
  BY DEF PropositionOwned
<1>3. R1 = IF x \in c.require \cup Reads(c) THEN R \cup {a} ELSE R
  <2>1. CASE x \in c.require \cup Reads(c)
    BY <2>1 DEF Requirers
  <2>2. CASE x \notin c.require \cup Reads(c)
    BY <2>2 DEF Requirers
  <2> QED
    BY <2>1, <2>2
<1>4. A1 = IF x \in c.add THEN A \cup {a} ELSE A
  <2>1. CASE x \in c.add
    BY <2>1 DEF Adders
  <2>2. CASE x \notin c.add
    BY <2>2 DEF Adders
  <2> QED
    BY <2>1, <2>2
<1>5. L1 = IF x \in c.del THEN L \cup {a} ELSE L
  <2>1. CASE x \in c.del
    BY <2>1 DEF Deleters
  <2>2. CASE x \notin c.del
    BY <2>2 DEF Deleters
  <2> QED
    BY <2>1, <2>2
<1>6. N \subseteq M /\ (x \in c.del /\ x \notin c.add => a \in M)
  BY DEF Removers
<1>7. x \in c.add => a \notin N
  BY DEF Removers, KeepsAdded
<1> HIDE DEF R, A, L, N, M, R1, A1, L1
<1>8. PropositionEntry(e1, R1, A, L, N)
  <2>1. CASE x \in c.require \cup Reads(c)
    <3>1. e1 = Required(own[x], a) /\ R1 = R \cup {a} /\ MarkOwnedPrecondition(own[x], a)
      BY <1>3, <2>1 DEF AfterRequire, GrantedAt
    <3> QED
      BY <1>1, <1>2, <3>1, PropositionRequired
  <2>2. CASE x \notin c.require \cup Reads(c)
    BY <1>2, <1>3, <2>2 DEF AfterRequire
  <2> QED
    BY <2>1, <2>2
<1>9. PropositionEntry(e2, R1, A1, L, N) /\ (x \in c.add => e2.kind = "add")
  <2>1. CASE x \in c.add
    <3>1. e2 = Affected(e1, a, "add") /\ A1 = A \cup {a} /\ OwnsForAdd(e1, a)
      BY <1>4, <2>1 DEF AfterAdd, GrantedAt
    <3> QED
      BY <1>1, <1>7, <1>8, <2>1, <3>1, PropositionAdded
  <2>2. CASE x \notin c.add
    BY <1>4, <1>8, <2>2 DEF AfterAdd
  <2> QED
    BY <2>1, <2>2
<1>10. PropositionEntry(e3, R1, A1, L1, M)
  <2>1. CASE x \in c.del
    <3>1. e3 = Affected(e2, a, "del") /\ L1 = L \cup {a} /\ OwnsForDel(e2, a)
      BY <1>5, <2>1 DEF AfterDel, GrantedAt
    <3>2. e2.kind \in {"free", "pre"} => a \in M
      BY <1>6, <1>9, <2>1
    <3> QED
      BY <1>1, <1>6, <1>9, <3>1, <3>2, PropositionDeleted
  <2>2. CASE x \notin c.del
    BY <1>5, <1>6, <1>9, <2>2 DEF AfterDel, PropositionEntry
  <2> QED
    BY <2>1, <2>2
<1> QED
  BY <1>1, <1>10 DEF R1, A1, L1, M, PropositionOwned

\* One more claim of a fluent.
LEMMA FluentStep ==
  ASSUME NEW C, AreClaims(C), Props \cap Fluents = {},
         NEW D \in SUBSET C, NEW c \in C, NEW x \in Fluents,
         NEW own, FluentOwned(own[x], D, x), GrantedAt(own, c, x)
  PROVE  LET e == AfterDel(c, own[x], x) IN
         FluentOwned(IF UpdatesOf(c, x) = {} THEN e
                     ELSE Updated(e, c.by, (CHOOSE u \in UpdatesOf(c, x) : TRUE).op),
                     D \cup {c}, x)
<1> DEFINE R == Requirers(D, x)
           U == Updaters(D, x)
           R1 == Requirers(D \cup {c}, x)
           U1 == Updaters(D \cup {c}, x)
           e1 == AfterRequire(c, own[x], x)
           a == c.by
           v == CHOOSE u \in UpdatesOf(c, x) : TRUE
<1>1. a # Shared /\ AfterDel(c, own[x], x) = e1
  BY DEF AreClaims, IsEffect, AfterDel, AfterAdd
<1>2. FluentEntry(own[x], R, U, OnlyAdditive(D, x), OneUpdate(D, x))
  BY DEF FluentOwned
<1>3. R1 = IF x \in c.require \cup Reads(c) THEN R \cup {a} ELSE R
  <2>1. CASE x \in c.require \cup Reads(c)
    BY <2>1 DEF Requirers
  <2>2. CASE x \notin c.require \cup Reads(c)
    BY <2>2 DEF Requirers
  <2> QED
    BY <2>1, <2>2
<1>4. U1 = IF UpdatesOf(c, x) # {} THEN U \cup {a} ELSE U
  <2>1. CASE UpdatesOf(c, x) # {}
    BY <2>1 DEF Updaters
  <2>2. CASE UpdatesOf(c, x) = {}
    BY <2>2 DEF Updaters
  <2> QED
    BY <2>1, <2>2
<1>5. \A u \in UpdatesOf(c, x) : u = v
  BY DEF AreClaims, IsEffect, UpdatesOf
<1>6. U = {} => OneUpdate(D \cup {c}, x) /\ OnlyAdditive(D, x)
  BY DEF Updaters, OneUpdate, OnlyAdditive
<1>7. OnlyAdditive(D, x) /\ (UpdatesOf(c, x) # {} => v.op \in Additive) => OnlyAdditive(D \cup {c}, x)
  BY <1>5 DEF OnlyAdditive
<1>8. OneUpdate(D, x) /\ UpdatesOf(c, x) = {} => OneUpdate(D \cup {c}, x)
  BY DEF OneUpdate
<1> HIDE DEF R, U, R1, U1
<1>9. FluentEntry(e1, R1, U, OnlyAdditive(D, x), OneUpdate(D, x))
  <2>1. CASE x \in c.require \cup Reads(c)
    <3>1. e1 = Required(own[x], a) /\ R1 = R \cup {a} /\ MarkOwnedPrecondition(own[x], a)
      BY <1>3, <2>1 DEF AfterRequire, GrantedAt
    <3> QED
      BY <1>1, <1>2, <3>1, FluentRequired
  <2>2. CASE x \notin c.require \cup Reads(c)
    BY <1>2, <1>3, <2>2 DEF AfterRequire
  <2> QED
    BY <2>1, <2>2
<1>10. CASE UpdatesOf(c, x) = {}
  <2>1. FluentEntry(e1, R1, U1, OnlyAdditive(D \cup {c}, x), OneUpdate(D \cup {c}, x))
    BY <1>4, <1>7, <1>8, <1>9, <1>10 DEF FluentEntry
  <2> QED
    BY <1>1, <1>10, <2>1 DEF FluentOwned, R1, U1
<1>11. CASE UpdatesOf(c, x) # {}
  <2>1. v \in UpdatesOf(c, x)
    BY <1>11
  <2> HIDE DEF v
  <2>2. MarkOwnedEffectFE(e1, a, v.op)
    BY <1>1, <2>1 DEF GrantedAt
  <2>3. /\ v.op \in Additive /\ (U = {} \/ OnlyAdditive(D, x)) => OnlyAdditive(D \cup {c}, x)
        /\ U = {} => OneUpdate(D \cup {c}, x)
    BY <1>6, <1>7
  <2>4. FluentEntry(Updated(e1, a, v.op), R1, U \cup {a}, OnlyAdditive(D \cup {c}, x), OneUpdate(D \cup {c}, x))
    BY <1>1, <1>9, <2>2, <2>3, FluentUpdated
  <2>5. FluentOwned(Updated(e1, a, v.op), D \cup {c}, x)
    BY <1>4, <1>11, <2>4 DEF FluentOwned, R1, U1
  <2> QED
    BY <1>1, <1>11, <2>5 DEF v
<1> QED
  BY <1>10, <1>11

Owns(O) == [Props \cup Fluents -> Entries(O)]

\* A claim leaves every entry an entry.
LEMMA ClaimedTyped ==
  ASSUME NEW C, NEW c \in C, NEW own \in Owns(Owners(C))
  PROVE  Claimed(own, c) \in Owns(Owners(C))
<1> DEFINE E == Entries(Owners(C))
<1>1. c.by \in Owners(C) /\ Shared \in Owners(C)
  BY DEF Owners
<1>2. \A e \in E : Required(e, c.by) \in E
  BY <1>1 DEF Required, Entries
<1>3. \A e \in E : Affected(e, c.by, "add") \in E /\ Affected(e, c.by, "del") \in E
  BY <1>1 DEF Affected, Entries
<1>4. \A e \in E : \A op : Updated(e, c.by, op) \in E
  <2> SUFFICES ASSUME NEW e \in E, NEW op PROVE Updated(e, c.by, op) \in E
    OBVIOUS
  <2>1. (IF e.kind = "free" \/ e.owner = c.by THEN c.by ELSE Shared) \in Owners(C)
    BY <1>1
  <2>2. (IF op \in Additive THEN "add" ELSE "assignment") \in {"free", "pre", "add", "del", "assignment"}
    OBVIOUS
  <2> QED
    BY <2>1, <2>2 DEF Updated, Entries
<1>5. \A x \in Props \cup Fluents : own[x] \in E
  BY DEF Owns
<1> HIDE DEF E
<1>6. ASSUME NEW x \in Props \cup Fluents PROVE AfterDel(c, own[x], x) \in E
  <2>1. AfterRequire(c, own[x], x) \in E
    BY <1>2, <1>5 DEF AfterRequire
  <2>2. AfterAdd(c, own[x], x) \in E
    BY <1>3, <2>1 DEF AfterAdd
  <2> QED
    BY <1>3, <2>2 DEF AfterDel
<1>7. DOMAIN own = Props \cup Fluents
  BY DEF Owns
<1>8. ASSUME NEW x \in Props \cup Fluents
      PROVE  (IF UpdatesOf(c, x) = {} THEN AfterDel(c, own[x], x)
              ELSE Updated(AfterDel(c, own[x], x), c.by, (CHOOSE u \in UpdatesOf(c, x) : TRUE).op)) \in E
  <2> DEFINE op == (CHOOSE u \in UpdatesOf(c, x) : TRUE).op
  <2>1. Updated(AfterDel(c, own[x], x), c.by, op) \in E
    <3> HIDE DEF op
    <3> QED
      BY <1>4, <1>6
  <2> QED
    BY <1>6, <2>1
<1> QED
  BY <1>7, <1>8 DEF Owns, E, Claimed

\* The ownerships are the ones the claims lead to, one after the other.
LEMMA OwnershipSteps ==
  ASSUME NEW C, NEW claims \in Seq(C), NEW own \in Owns(Owners(C))
  PROVE  LET os == Ownerships(own, claims) IN
         /\ Len(claims) \in Nat
         /\ \A i \in 0..Len(claims) : os[i] \in Owns(Owners(C))
         /\ os[0] = own
         /\ \A i \in 1..Len(claims) : os[i] = Claimed(os[i - 1], claims[i]) /\ claims[i] \in C
<1> DEFINE n == Len(claims)
           V == Owns(Owners(C))
           step == [p \in (1..n) \X V |-> Claimed(p[2], claims[p[1]])]
           Def(f) == f = [i \in 0..n |-> IF i = 0 THEN own ELSE Claimed(f[i - 1], claims[i])]
<1>1. n \in Nat /\ \A i \in 1..n : claims[i] \in C
  OBVIOUS
<1>2. \A i \in 1..n : \A o \in V : Claimed(o, claims[i]) \in V
  BY <1>1, ClaimedTyped
<1>3. PICK f : Follows(f, n, V, own, step)
  <2>1. step \in [(1..n) \X V -> V]
    <3> HIDE DEF n, V
    <3> QED
      BY <1>2
  <2> HIDE DEF step, n, V, Def
  <2> QED
    BY <1>1, <2>1, Recursion DEF V
<1>4. f \in [0..n -> V] /\ f[0] = own /\ \A i \in 1..n : f[i] = step[<<i, f[i - 1]>>]
  BY <1>3 DEF Follows
<1>5. ASSUME NEW i \in 1..n PROVE f[i] = Claimed(f[i - 1], claims[i]) /\ i # 0
  <2>1. i # 0 /\ i - 1 \in 0..n
    BY <1>1
  <2>2. f[i - 1] \in V
    BY <1>4, <2>1
  <2>3. step[<<i, f[i - 1]>>] = Claimed(f[i - 1], claims[i])
    <3> HIDE DEF n, V
    <3> QED
      BY <2>2
  <2> HIDE DEF step, n, V
  <2> QED
    BY <1>4, <2>1, <2>3
<1>6. Def(f)
  <2>1. ASSUME NEW i \in 0..n PROVE f[i] = IF i = 0 THEN own ELSE Claimed(f[i - 1], claims[i])
    <3>1. i = 0 \/ i \in 1..n
      BY <1>1
    <3> QED
      BY <1>4, <1>5, <3>1
  <2>2. f = [i \in 0..n |-> f[i]]
    BY <1>4
  <2> QED
    BY <2>1, <2>2
<1> DEFINE os == CHOOSE g : Def(g)
<1>7. Ownerships(own, claims) = os
  BY DEF Ownerships
<1>8. Def(os)
  <2> HIDE DEF Def
  <2> QED
    BY <1>6
<1> HIDE DEF os
<1>9. /\ os[0] = own
      /\ \A i \in 1..n : os[i] = Claimed(os[i - 1], claims[i])
  <2>1. \A i \in 0..n : os[i] = IF i = 0 THEN own ELSE Claimed(os[i - 1], claims[i])
    BY <1>8
  <2>2. 0 \in 0..n /\ \A i \in 1..n : i \in 0..n /\ i # 0
    BY <1>1
  <2> HIDE DEF n, Def
  <2> QED
    BY <2>1, <2>2
<1> HIDE DEF Def, step
<1> DEFINE S == {i \in Nat : i \in 0..n => os[i] \in V}
<1>10. 0 \in S
  BY <1>9
<1>11. ASSUME NEW i \in S PROVE i + 1 \in S
  <2>1. (i + 1) - 1 = i /\ i + 1 \in Nat /\ (i + 1 \in 0..n => i \in 0..n /\ i + 1 \in 1..n)
    BY <1>1
  <2> HIDE DEF n, V
  <2> QED
    BY <1>2, <1>9, <2>1
<1>12. \A i \in Nat : i \in S
  <2>1. S \in SUBSET Nat
    OBVIOUS
  <2> HIDE DEF S
  <2> QED
    BY <1>10, <1>11, <2>1, AllNumbers
<1>13. \A i \in 0..n : os[i] \in V
  <2> HIDE DEF V
  <2> QED
    BY <1>1, <1>12
<1> QED
  BY <1>1, <1>7, <1>9, <1>13

\* A claim that is granted is granted for every proposition and fluent.
LEMMA GrantedEverywhere ==
  ASSUME NEW own, NEW c, Granted(own, c)
  PROVE  \A x : GrantedAt(own, c, x)
BY DEF Granted, GrantedAt, UpdatesOf

\* One more claim that is granted.
LEMMA OwnedStep ==
  ASSUME NEW C, AreClaims(C), EffectsApart => KeepsAdded(C), Props \cap Fluents = {},
         NEW D \in SUBSET C, NEW c \in C, NEW own \in Owns(Owners(C)), Owned(own, D),
         \A x \in Props \cup Fluents : GrantedAt(own, c, x)
  PROVE  Owned(Claimed(own, c), D \cup {c})
<1>1. DOMAIN own = Props \cup Fluents
  BY DEF Owns
<1>2. ASSUME EffectsApart, NEW x \in Props PROVE PropositionOwned(Claimed(own, c)[x], D \cup {c}, x)
  <2>1. /\ PropositionOwned(AfterDel(c, own[x], x), D \cup {c}, x)
        /\ UpdatesOf(c, x) = {}
    BY <1>2, PropositionStep DEF Owned
  <2>2. Claimed(own, c)[x] = AfterDel(c, own[x], x)
    BY <1>1, <2>1 DEF Claimed
  <2> QED
    BY <2>1, <2>2
<1>3. ASSUME NEW x \in Fluents PROVE FluentOwned(Claimed(own, c)[x], D \cup {c}, x)
  <2> DEFINE e == AfterDel(c, own[x], x)
             f == IF UpdatesOf(c, x) = {} THEN e
                  ELSE Updated(e, c.by, (CHOOSE u \in UpdatesOf(c, x) : TRUE).op)
  <2>1. FluentOwned(f, D \cup {c}, x)
    BY FluentStep DEF Owned
  <2>2. Claimed(own, c)[x] = f
    BY <1>1 DEF Claimed
  <2> QED
    BY <2>1, <2>2
<1> QED
  BY <1>2, <1>3 DEF Owned

\* The claims made first, up to the i-th.
UpTo(claims, i) == {claims[j] : j \in 1..i}

\* After claims that were all granted, the ownership is the one of them, too.
LEMMA OwnedAfter ==
  ASSUME NEW C, AreClaims(C), EffectsApart => KeepsAdded(C), Props \cap Fluents = {},
         NEW D \in SUBSET C, NEW claims \in Seq(C), NEW own \in Owns(Owners(C)), Owned(own, D),
         \A i \in 1..Len(claims) : \A x \in Props \cup Fluents :
             GrantedAt(Ownerships(own, claims)[i - 1], claims[i], x)
  PROVE  Owned(Ownerships(own, claims)[Len(claims)], D \cup UpTo(claims, Len(claims)))
<1> DEFINE n == Len(claims)
           os == Ownerships(own, claims)
           S == {i \in Nat : i \in 0..n => Owned(os[i], D \cup UpTo(claims, i))}
<1>1. /\ n \in Nat
      /\ \A i \in 0..n : os[i] \in Owns(Owners(C))
      /\ os[0] = own
      /\ \A i \in 1..n : os[i] = Claimed(os[i - 1], claims[i]) /\ claims[i] \in C
  BY OwnershipSteps
<1>2. UpTo(claims, 0) = {}
  BY DEF UpTo
<1>3. \A i \in Nat : UpTo(claims, i + 1) = UpTo(claims, i) \cup {claims[i + 1]}
  <2>1. \A i \in Nat : 1..(i + 1) = (1..i) \cup {i + 1}
    OBVIOUS
  <2> QED
    BY <2>1 DEF UpTo
<1>4. \A i \in 0..n : UpTo(claims, i) \subseteq C
  BY <1>1 DEF UpTo
<1>5. 0 \in S
  BY <1>1, <1>2
<1>6. ASSUME NEW i \in S PROVE i + 1 \in S
  <2> SUFFICES ASSUME i + 1 \in 0..n PROVE Owned(os[i + 1], D \cup UpTo(claims, i + 1))
    OBVIOUS
  <2>1. (i + 1) - 1 = i /\ i \in Nat /\ i \in 0..n /\ i + 1 \in 1..n
    BY <1>1
  <2> DEFINE c == claims[i + 1]
             E == D \cup UpTo(claims, i)
             o == os[i]
  <2>2. c \in C /\ os[i + 1] = Claimed(o, c) /\ o \in Owns(Owners(C)) /\ Owned(o, E) /\ E \in SUBSET C
    BY <1>1, <1>4, <2>1
  <2>3. \A x \in Props \cup Fluents : GrantedAt(o, c, x)
    BY <2>1
  <2>4. D \cup UpTo(claims, i + 1) = E \cup {c}
    BY <1>3, <2>1
  <2> HIDE DEF c, E, o, os
  <2> QED
    BY <2>2, <2>3, <2>4, OwnedStep
<1>7. \A i \in Nat : i \in S
  <2>1. S \in SUBSET Nat
    OBVIOUS
  <2> HIDE DEF S
  <2> QED
    BY <1>5, <1>6, <2>1, AllNumbers
<1> HIDE DEF os
<1>8. Owned(os[n], D \cup UpTo(claims, n))
  <2>1. n \in Nat /\ n \in 0..n
    BY <1>1
  <2>2. n \in S
    <3> HIDE DEF S
    <3> QED
      BY <1>7, <2>1
  <2> HIDE DEF n
  <2> QED
    BY <2>1, <2>2
<1> QED
  BY <1>8 DEF os

\* Claims of preconditions alone are all granted.
LEMMA PreconditionsGranted ==
  ASSUME NEW C, NEW claims \in Seq(C), \A c \in C : c.add = {} /\ c.del = {} /\ c.upd = {},
         NEW O, C \subseteq O, NEW own \in Owns(Owners(O)),
         \A x \in Props \cup Fluents : own[x].kind \in {"free", "pre"}
  PROVE  \A i \in 1..Len(claims) : \A x \in Props \cup Fluents :
             GrantedAt(Ownerships(own, claims)[i - 1], claims[i], x)
<1> DEFINE n == Len(claims)
           os == Ownerships(own, claims)
           Unaffected(o) == \A x \in Props \cup Fluents : o[x].kind \in {"free", "pre"}
           S == {i \in Nat : i \in 0..n => Unaffected(os[i])}
<1>1. claims \in Seq(O)
  OBVIOUS
<1>2. /\ n \in Nat
      /\ \A i \in 0..n : os[i] \in Owns(Owners(O))
      /\ os[0] = own
      /\ \A i \in 1..n : os[i] = Claimed(os[i - 1], claims[i])
  BY <1>1, OwnershipSteps
<1>3. \A i \in 1..n : claims[i] \in C
  OBVIOUS
<1>4. ASSUME NEW c \in C, NEW o \in Owns(Owners(O)), Unaffected(o)
      PROVE  Unaffected(Claimed(o, c)) /\ \A x \in Props \cup Fluents : GrantedAt(o, c, x)
  <2> SUFFICES ASSUME NEW x \in Props \cup Fluents
               PROVE  Claimed(o, c)[x].kind \in {"free", "pre"} /\ GrantedAt(o, c, x)
    OBVIOUS
  <2>1. UpdatesOf(c, x) = {} /\ AfterDel(c, o[x], x) = AfterRequire(c, o[x], x)
    BY DEF UpdatesOf, AfterDel, AfterAdd
  <2>2. Claimed(o, c)[x] = AfterRequire(c, o[x], x)
    BY <2>1 DEF Claimed, Owns
  <2>3. AfterRequire(c, o[x], x).kind \in {"free", "pre"}
    BY <1>4 DEF AfterRequire, Required
  <2>4. GrantedAt(o, c, x)
    BY <1>4, <2>1 DEF GrantedAt, MarkOwnedPrecondition
  <2> QED
    BY <2>2, <2>3, <2>4
<1>5. 0 \in S
  BY <1>2
<1>6. ASSUME NEW i \in S PROVE i + 1 \in S
  <2> SUFFICES ASSUME i + 1 \in 0..n PROVE Unaffected(os[i + 1])
    OBVIOUS
  <2>1. (i + 1) - 1 = i /\ i \in 0..n /\ i + 1 \in 1..n
    BY <1>2
  <2> HIDE DEF os
  <2> DEFINE o == os[i]
             c == claims[i + 1]
  <2>2. Unaffected(o) /\ o \in Owns(Owners(O)) /\ c \in C /\ os[i + 1] = Claimed(o, c)
    BY <1>2, <1>3, <2>1
  <2> HIDE DEF o, c, Unaffected
  <2> QED
    BY <1>4, <2>2
<1>7. \A i \in Nat : i \in S
  <2>1. S \in SUBSET Nat
    OBVIOUS
  <2> HIDE DEF S
  <2> QED
    BY <1>5, <1>6, <2>1, AllNumbers
<1>8. ASSUME NEW i \in 1..n PROVE \A x \in Props \cup Fluents : GrantedAt(os[i - 1], claims[i], x)
  <2>1. i - 1 \in Nat /\ i - 1 \in 0..n
    BY <1>2
  <2> HIDE DEF os
  <2> DEFINE o == os[i - 1]
             c == claims[i]
  <2>2. Unaffected(o) /\ o \in Owns(Owners(O)) /\ c \in C
    BY <1>2, <1>3, <1>7, <2>1
  <2> HIDE DEF o, c, Unaffected
  <2>3. \A x \in Props \cup Fluents : GrantedAt(o, c, x)
    BY <1>4, <2>2
  <2> QED
    BY <2>3 DEF o, c
<1> QED
  BY <1>8

\* The effects of a happening are those of the ends of steps in it.
LEMMA EffectOfStep ==
  ASSUME NEW t, problem \in Problems, NEW e \in EffectsAt(t)
  PROVE  \E s \in Plan, at \in {"start", "end"} :
            LET o == Domains[problem.domain][s.op] IN
            /\ problem.domain \in DOMAIN Domains /\ s.op \in DOMAIN Domains[problem.domain]
            /\ \/ e.by = <<s.op, at>> /\ e.of = Effects(o.effects, at) /\ e.from = {}
               \/ \E w \in o.when : /\ e.of = Effects(w.effects, at) /\ e.from = {w}
                                    /\ e.by = <<s.op, at>> \/ (e.by = <<s.op, "monitor", w>> /\ at = "end")
<1>1. EffectsAt(t) = UNION {EffectsOf(x[1], x[2]) : x \in EndsOfSteps(t)}
  BY DEF EffectsAt, EffectsOf
<1>2. PICK x \in EndsOfSteps(t) : e \in EffectsOf(x[1], x[2])
  BY <1>1
<1>3. PICK s \in Plan, at \in {"start", "end"} : x = <<s, at>>
  BY DEF EndsOfSteps
<1>4. problem.domain \in DOMAIN Domains /\ s.op \in DOMAIN Domains[problem.domain]
  BY ProblemsAssumption DEF Plan
<1>5. e \in EffectsOf(s, at)
  BY <1>2, <1>3
<1> DEFINE o == Domains[problem.domain][s.op]
<1>6. \/ e = [by |-> <<s.op, at>>, from |-> {}, of |-> Effects(o.effects, at)]
      \/ \E w \in o.when : e = [by |-> Claimant(s, w, at), from |-> {w}, of |-> Effects(w.effects, at)]
  BY <1>5 DEF EffectsOf, Written
<1>7. \A w : \/ Claimant(s, w, at) = <<s.op, at>>
             \/ Claimant(s, w, at) = <<s.op, "monitor", w>> /\ at = "end"
  BY DEF Claimant
<1>8. \/ e.by = <<s.op, at>> /\ e.of = Effects(o.effects, at) /\ e.from = {}
      \/ \E w \in o.when : /\ e.of = Effects(w.effects, at) /\ e.from = {w}
                           /\ e.by = <<s.op, at>> \/ (e.by = <<s.op, "monitor", w>> /\ at = "end")
  <2>1. CASE e = [by |-> <<s.op, at>>, from |-> {}, of |-> Effects(o.effects, at)]
    BY <2>1
  <2>2. CASE \E w \in o.when : e = [by |-> Claimant(s, w, at), from |-> {w}, of |-> Effects(w.effects, at)]
    <3>1. PICK w \in o.when : e = [by |-> Claimant(s, w, at), from |-> {w}, of |-> Effects(w.effects, at)]
      BY <2>2
    <3>2. e.by = Claimant(s, w, at) /\ e.from = {w} /\ e.of = Effects(w.effects, at)
      BY <3>1
    <3>3. e.by = <<s.op, at>> \/ (e.by = <<s.op, "monitor", w>> /\ at = "end")
      BY <1>7, <3>2
    <3> HIDE DEF o
    <3> QED
      BY <3>2, <3>3
  <2> QED
    BY <1>6, <2>1, <2>2
<1> HIDE DEF o
<1> QED
  BY <1>4, <1>8 DEF o

\* The effects at t are effects, and no owner of several has them.
LEMMA EffectsTyped ==
  ASSUME NEW t, problem \in Problems, NEW e \in EffectsAt(t)
  PROVE  IsEffect(e.of) /\ e.by # Shared
<1>1. PICK s \in Plan, at \in {"start", "end"} :
            LET o == Domains[problem.domain][s.op] IN
            /\ problem.domain \in DOMAIN Domains /\ s.op \in DOMAIN Domains[problem.domain]
            /\ \/ e.by = <<s.op, at>> /\ e.of = Effects(o.effects, at) /\ e.from = {}
               \/ \E w \in o.when : /\ e.of = Effects(w.effects, at) /\ e.from = {w}
                                    /\ e.by = <<s.op, at>> \/ (e.by = <<s.op, "monitor", w>> /\ at = "end")
  BY EffectOfStep
<1> DEFINE o == Domains[problem.domain][s.op]
<1>2. /\ IsEffect(Effects(o.effects, at))
      /\ \A w \in o.when : IsEffect(Effects(w.effects, at))
  BY <1>1, DomainsAssumption
<1>3. /\ Shared # <<s.op, at>>
      /\ \A w \in o.when : Shared # <<s.op, "monitor", w>>
  BY <1>1, OwnersAssumption
<1> HIDE DEF o
<1> QED
  BY <1>1, <1>2, <1>3 DEF o

\* What one claimant deletes with an effect it adds with that effect, or not.
LEMMA SameOwner ==
  ASSUME NEW t, problem \in Problems, EffectsApart,
         NEW e \in EffectsAt(t), NEW f \in EffectsAt(t), e.by = f.by
  PROVE  e.of.del \cap f.of.add \subseteq e.of.add
<1> DEFINE D(s) == Domains[problem.domain][s.op]
           es(s, at) == {Effects(D(s).effects, at)} \cup {Effects(w.effects, at) : w \in D(s).when}
           Is(g, s, at) == /\ problem.domain \in DOMAIN Domains /\ s.op \in DOMAIN Domains[problem.domain]
                           /\ g.of \in es(s, at)
                           /\ \/ g.by = <<s.op, at>>
                              \/ \E w \in D(s).when : /\ g.of = Effects(w.effects, "end")
                                                      /\ g.by = <<s.op, "monitor", w>>
<1>1. ASSUME NEW g \in EffectsAt(t)
      PROVE  \E s \in Plan, at \in {"start", "end"} : Is(g, s, at)
  <2>1. PICK s \in Plan, at \in {"start", "end"} :
            LET o == Domains[problem.domain][s.op] IN
            /\ problem.domain \in DOMAIN Domains /\ s.op \in DOMAIN Domains[problem.domain]
            /\ \/ g.by = <<s.op, at>> /\ g.of = Effects(o.effects, at) /\ g.from = {}
               \/ \E w \in o.when : /\ g.of = Effects(w.effects, at) /\ g.from = {w}
                                    /\ g.by = <<s.op, at>> \/ (g.by = <<s.op, "monitor", w>> /\ at = "end")
    BY EffectOfStep
  <2>2. CASE g.by = <<s.op, at>> /\ g.of = Effects(D(s).effects, at)
    <3>1. Is(g, s, at)
      BY <2>1, <2>2
    <3> HIDE DEF Is
    <3> QED
      BY <3>1
  <2>3. ASSUME NEW w \in D(s).when, g.of = Effects(w.effects, at),
               g.by = <<s.op, at>> \/ (g.by = <<s.op, "monitor", w>> /\ at = "end")
        PROVE  \E r \in Plan, x \in {"start", "end"} : Is(g, r, x)
    <3>1. Is(g, s, at)
      BY <2>1, <2>3
    <3> HIDE DEF Is
    <3> QED
      BY <3>1
  <2> HIDE DEF Is
  <2> QED
    BY <2>1, <2>2, <2>3
<1>2. PICK s \in Plan, at \in {"start", "end"} : Is(e, s, at)
  <2> HIDE DEF Is
  <2> QED
    BY <1>1
<1>3. PICK r \in Plan, x \in {"start", "end"} : Is(f, r, x)
  <2> HIDE DEF Is
  <2> QED
    BY <1>1
<1>4. CASE e.by = <<s.op, at>>
  <2>0. f.by[2] = at /\ at # "monitor"
    BY <1>4
  <2>1. f.by = <<r.op, x>>
    <3>1. \A w : f.by # <<r.op, "monitor", w>>
      BY <2>0
    <3> HIDE DEF es
    <3> QED
      BY <1>3, <3>1
  <2>2. s.op = r.op /\ at = x
    <3>1. <<s.op, at>> = <<r.op, x>>
      BY <1>4, <2>1
    <3> QED
      BY <3>1
  <2>3. e.of \in es(s, at) /\ f.of \in es(s, at)
    BY <1>2, <1>3, <2>2
  <2> QED
    BY <1>2, <2>3 DEF EffectsApart
<1>5. ASSUME NEW w \in D(s).when, e.of = Effects(w.effects, "end"), e.by = <<s.op, "monitor", w>>
      PROVE  e.of.del \cap f.of.add \subseteq e.of.add
  <2>1. f.by # <<r.op, x>>
    BY <1>5
  <2>2. PICK v \in D(r).when : f.of = Effects(v.effects, "end") /\ f.by = <<r.op, "monitor", v>>
    BY <1>3, <2>1
  <2>3. v = w
    <3>1. <<s.op, "monitor", w>> = <<r.op, "monitor", v>>
      BY <1>5, <2>2
    <3> QED
      BY <3>1
  <2>4. e.of = f.of
    BY <1>5, <2>2, <2>3
  <2>5. e.of \in {Effects(u.effects, "end") : u \in D(s).when}
    BY <1>5
  <2> QED
    BY <1>2, <2>4, <2>5 DEF EffectsApart
<1> QED
  BY <1>2, <1>4, <1>5

\* What a happening claims when all its claims are granted, the first ones
\* with the others if they are marked.
Claimants(t, mark) == AllClaims(t, mark) \cup (IF mark THEN AllFirstClaims(t) ELSE {})

\* What is claimed before the effects changes nothing.
LEMMA FirstClaimsPlain ==
  ASSUME NEW t, problem \in Problems, NEW c \in AllFirstClaims(t)
  PROVE  c.add = {} /\ c.del = {} /\ c.upd = {} /\ c.by # Shared
<1>1. PICK a \in ActionsAt(t) : c \in FirstClaimsOf(a)
  BY DEF AllFirstClaims
<1>2. PICK s \in Plan :
            /\ problem.domain \in DOMAIN Domains /\ s.op \in DOMAIN Domains[problem.domain]
            /\ Op(s.op) = HandleDurativeAction(Written(s))
            /\ \/ a = <<s.op, "start">> /\ s.start = t
                  /\ Snap(a) = SnapAction(Written(s), "start")
               \/ a = <<s.op, "end">> /\ s.end = t /\ Op(s.op).durative
                  /\ Snap(a) = SnapAction(Written(s), "end")
  BY ActionStep
<1>3. /\ Shared # a
      /\ \A w \in Written(s).when : Shared # <<s.op, "monitor", w>>
      /\ a[1] = s.op
  BY <1>2, OwnersAssumption DEF Written
<1>4. CASE c = Claim(a, {}, Snap(a).pre, NoEffect)
  BY <1>3, <1>4 DEF Claim, NoEffect
<1>5. ASSUME NEW m \in MonitorsOfStart(a), c = Claim(Name(m), {m[2].written}, m[2].atStart, NoEffect)
      PROVE  c.add = {} /\ c.del = {} /\ c.upd = {} /\ c.by # Shared
  <2>1. m \in MonitorsIn({s.op})
    BY <1>3 DEF MonitorsOfStart
  <2>2. PICK v \in Op(s.op).monitors : m = <<s.op, v>>
    BY <2>1 DEF MonitorsIn
  <2>3. v.written \in Written(s).when
    BY <1>2, <2>2 DEF HandleDurativeAction, MonitorsOf
  <2>4. Name(m) = <<s.op, "monitor", v.written>>
    BY <2>2 DEF Name
  <2>5. Name(m) # Shared
    BY <1>3, <2>3, <2>4
  <2> QED
    BY <1>5, <2>5 DEF Claim, NoEffect
<1> QED
  BY <1>1, <1>4, <1>5 DEF FirstClaimsOf

\* The claims of a happening are claims.
LEMMA ClaimsTyped ==
  ASSUME NEW t, Due(t), NEW mark
  PROVE  AreClaims(Claimants(t, mark)) /\ (EffectsApart => KeepsAdded(Claimants(t, mark)))
<1>0. problem \in Problems
  BY StateBefore
<1>1. ASSUME NEW c \in AllClaims(t, mark) PROVE \E e \in EffectsAt(t) : Gives(c, e)
  BY ClaimsMatch
<1>2. ASSUME NEW c \in AllClaims(t, mark) PROVE c.by # Shared /\ IsEffect(c)
  <2>1. PICK e \in EffectsAt(t) : Gives(c, e)
    BY <1>1
  <2>2. IsEffect(e.of) /\ e.by # Shared
    BY <1>0, EffectsTyped
  <2> QED
    BY <2>1, <2>2 DEF Gives, IsEffect
<1>3. ASSUME EffectsApart, NEW c \in AllClaims(t, mark), NEW d \in AllClaims(t, mark), c.by = d.by
      PROVE  c.del \cap d.add \subseteq c.add
  <2>1. PICK e \in EffectsAt(t) : Gives(c, e)
    BY <1>1
  <2>2. PICK f \in EffectsAt(t) : Gives(d, f)
    BY <1>1
  <2>3. e.by = f.by
    BY <1>3, <2>1, <2>2 DEF Gives
  <2>4. e.of.del \cap f.of.add \subseteq e.of.add
    BY <1>0, <1>3, <2>3, SameOwner
  <2> QED
    BY <2>1, <2>2, <2>4 DEF Gives
<1>4. ASSUME NEW c \in AllFirstClaims(t) PROVE c.by # Shared /\ c.add = {} /\ c.del = {} /\ IsEffect(c)
  BY <1>0, FirstClaimsPlain DEF IsEffect
<1>5. \A c \in Claimants(t, mark) : c \in AllClaims(t, mark) \/ c \in AllFirstClaims(t)
  BY DEF Claimants
<1> QED
  BY <1>2, <1>3, <1>4, <1>5 DEF AreClaims, KeepsAdded

\* Nothing is owned by nobody.
LEMMA NothingIsOwned ==
  ASSUME NEW C
  PROVE  /\ NothingOwned \in Owns(Owners(C)) /\ Owned(NothingOwned, {})
         /\ \A x \in Props \cup Fluents : NothingOwned[x].kind \in {"free", "pre"}
<1>1. \A x \in Props \cup Fluents : NothingOwned[x] = Unclaimed
  BY DEF NothingOwned
<1>2. NothingOwned \in Owns(Owners(C))
  BY DEF NothingOwned, Unclaimed, Owns, Entries, Owners
<1>3. \A x : Requirers({}, x) = {} /\ Adders({}, x) = {} /\ Deleters({}, x) = {} /\ Updaters({}, x) = {}
  BY DEF Requirers, Adders, Deleters, Updaters
<1>4. Owned(NothingOwned, {})
  BY <1>1, <1>3 DEF Owned, PropositionOwned, FluentOwned, PropositionEntry, FluentEntry, Unclaimed
<1> QED
  BY <1>1, <1>2, <1>4 DEF Unclaimed

\* All the claims of a sequence are those it has.
LEMMA AllHad ==
  ASSUME NEW C, NEW claims \in Seq(C), \A c : Has(claims, c) <=> c \in C
  PROVE  UpTo(claims, Len(claims)) = C
BY DEF UpTo, Has

\* When a happening is applied, some ownership is the one of all its claims.
LEMMA ClaimsOwned ==
  ASSUME NEW t, Due(t),
         NEW order \in Orders(t), AllGranted(Marked(order), Claims(order)),
         NEW mark, mark = (Len(order) > 1)
  PROVE  \E own : Owned(own, Claimants(t, mark))
<1> DEFINE A == AllClaims(t, mark)
           F == AllFirstClaims(t)
           C == Claimants(t, mark)
           O == Owners(C)
<1>1. problem \in Problems /\ Props \cap Fluents = {}
  BY StateBefore, DomainsAssumption
<1>2. AreClaims(C) /\ (EffectsApart => KeepsAdded(C))
  BY ClaimsTyped
<1>3. /\ Claims(order) \in Seq(A)
      /\ \A c : Has(Claims(order), c) <=> c \in A
  BY <1>1, ClaimsHave
<1>4. A \subseteq C
  BY DEF Claimants
<1> HIDE DEF A, C
<1>5. \E D \in SUBSET C : D \cup A = C /\ Marked(order) \in Owns(O) /\ Owned(Marked(order), D)
  <2>1. CASE mark
    <3>1. /\ FirstClaims(order) \in Seq(F)
          /\ \A c : Has(FirstClaims(order), c) <=> c \in F
      BY <1>1, FirstClaimsHave
    <3>2. F \subseteq C /\ F \cup A = C
      BY <2>1 DEF C, Claimants, A
    <3>3. Marked(order) = Ownerships(NothingOwned, FirstClaims(order))[Len(FirstClaims(order))]
      BY <2>1 DEF Marked, MarkAll, FirstClaims
    <3>4. \A c \in F : c.add = {} /\ c.del = {} /\ c.upd = {}
      BY <1>1, FirstClaimsPlain
    <3> HIDE DEF F
    <3> DEFINE fs == FirstClaims(order)
    <3>5. fs \in Seq(F) /\ fs \in Seq(C) /\ UpTo(fs, Len(fs)) = F
      BY <3>1, <3>2, AllHad
    <3> HIDE DEF fs
    <3>6. /\ NothingOwned \in Owns(O) /\ Owned(NothingOwned, {})
          /\ \A x \in Props \cup Fluents : NothingOwned[x].kind \in {"free", "pre"}
      BY NothingIsOwned
    <3>7. \A i \in 1..Len(fs) : \A x \in Props \cup Fluents :
             GrantedAt(Ownerships(NothingOwned, fs)[i - 1], fs[i], x)
      BY <3>2, <3>4, <3>5, <3>6, PreconditionsGranted
    <3>8. Owned(Ownerships(NothingOwned, fs)[Len(fs)], {} \cup UpTo(fs, Len(fs)))
      <4>1. {} \in SUBSET C
        OBVIOUS
      <4> QED
        BY <1>1, <1>2, <3>5, <3>6, <3>7, <4>1, OwnedAfter
    <3>9. Ownerships(NothingOwned, fs)[Len(fs)] \in Owns(O)
      <4>1. /\ Len(fs) \in Nat
            /\ \A i \in 0..Len(fs) : Ownerships(NothingOwned, fs)[i] \in Owns(O)
        BY <3>5, <3>6, OwnershipSteps
      <4> QED
        BY <4>1
    <3>10. {} \cup UpTo(fs, Len(fs)) = F
      BY <3>5
    <3> QED
      BY <3>2, <3>3, <3>8, <3>9, <3>10 DEF fs
  <2>2. CASE ~mark
    <3>1. C = A /\ Marked(order) = NothingOwned
      BY <2>2 DEF C, Claimants, A, Marked
    <3> QED
      BY <3>1, NothingIsOwned
  <2> QED
    BY <2>1, <2>2
<1>6. PICK D \in SUBSET C : D \cup A = C /\ Marked(order) \in Owns(O) /\ Owned(Marked(order), D)
  BY <1>5
<1> DEFINE cs == Claims(order)
           own == Marked(order)
<1>7. cs \in Seq(C) /\ UpTo(cs, Len(cs)) = A
  BY <1>3, <1>4, AllHad
<1>8. \A i \in 1..Len(cs) : \A x \in Props \cup Fluents : GrantedAt(Ownerships(own, cs)[i - 1], cs[i], x)
  <2>1. \A i \in 1..Len(cs) : Granted(Ownerships(own, cs)[i - 1], cs[i])
    BY DEF AllGranted
  <2> QED
    BY <2>1, GrantedEverywhere
<1>9. own \in Owns(O) /\ Owned(own, D)
  BY <1>6
<1> HIDE DEF cs, own
<1>10. Owned(Ownerships(own, cs)[Len(cs)], D \cup UpTo(cs, Len(cs)))
  BY <1>1, <1>2, <1>7, <1>8, <1>9, OwnedAfter
<1> QED
  BY <1>6, <1>7, <1>10 DEF C

\* What NoInterference says of the happening at t.
Undisturbed(t) ==
    LET required == IF Cardinality(ActionsAt(t)) > 1 THEN RequiredAt(t) ELSE {}
        added == AddedAt(t)
        deleted == DeletedAt(t)
        updated == UpdatedAt(t)
        own(effects, r) == \A e \in effects : r[2] = e[2] => r[1] = e[1] \/ r \in effects
    IN  /\ \A r \in required : own(added, r) /\ own(deleted, r)
        /\ \A e \in added, d \in deleted :
              e[2] = d[2] => e[1] = d[1] \/ <<d[1], e[2]>> \in added
        /\ \A r \in required, u \in updated : r[2] = u[2].fluent =>
              \E v \in updated : v[1] = r[1] /\ v[2].fluent = r[2]
        /\ \A u, v \in updated :
              u[1] # v[1] /\ u[2].fluent = v[2].fluent => {u[2].op, v[2].op} \subseteq Additive

\* Claims that are all granted do not disturb each other.
LEMMA OwnedUndisturbed ==
  ASSUME NEW t, Due(t), EffectsApart, NEW mark,
         mark = (Cardinality(ActionsAt(t)) > 1),
         NEW own, Owned(own, Claimants(t, mark))
  PROVE  Undisturbed(t)
<1> DEFINE D == Claimants(t, mark)
           required == IF Cardinality(ActionsAt(t)) > 1 THEN RequiredAt(t) ELSE {}
           added == AddedAt(t)
           deleted == DeletedAt(t)
           updated == UpdatedAt(t)
           own1(effects, r) == \A e \in effects : r[2] = e[2] => r[1] = e[1] \/ r \in effects
<1>1. problem \in Problems
  BY StateBefore
<1>2. AreClaims(D)
  BY ClaimsTyped
<1>3. \A c \in D : c \in AllClaims(t, mark) \/ (c.add = {} /\ c.del = {} /\ c.upd = {})
  BY <1>1, FirstClaimsPlain DEF Claimants
<1>4. AllClaims(t, mark) \subseteq D
  BY DEF Claimants
<1>5. ASSUME NEW r \in required PROVE r = <<r[1], r[2]>> /\ r[1] \in Requirers(D, r[2])
  <2>1. mark = TRUE /\ r \in RequiredAt(t)
    BY <1>5
  <2>2. r = <<r[1], r[2]>>
    BY <2>1, RequirementsClaimed
  <2>3. \E c \in AllClaims(t, TRUE) \cup AllFirstClaims(t) : c.by = r[1] /\ r[2] \in c.require \cup Reads(c)
    <3> DEFINE b == r[1]
               x == r[2]
    <3>1. <<b, x>> \in RequiredAt(t)
      BY <2>1, <2>2
    <3> HIDE DEF b, x
    <3>2. \E c \in AllClaims(t, TRUE) \cup AllFirstClaims(t) : c.by = b /\ x \in c.require \cup Reads(c)
      BY <3>1, RequirementsClaimed
    <3> QED
      BY <3>2 DEF b, x
  <2>4. D = AllClaims(t, TRUE) \cup AllFirstClaims(t)
    BY <2>1 DEF Claimants
  <2> HIDE DEF D
  <2> QED
    BY <2>2, <2>3, <2>4 DEF Requirers
<1>6. /\ \A b, p : <<b, p>> \in added <=> b \in Adders(D, p)
      /\ \A b, p : <<b, p>> \in deleted <=> b \in Deleters(D, p)
      /\ \A x \in added \cup deleted : x = <<x[1], x[2]>>
  <2>1. /\ \A b, p : <<b, p>> \in AddedAt(t) <=> \E c \in AllClaims(t, mark) : c.by = b /\ p \in c.add
        /\ \A b, p : <<b, p>> \in DeletedAt(t) <=> \E c \in AllClaims(t, mark) : c.by = b /\ p \in c.del
        /\ \A x \in AddedAt(t) \cup DeletedAt(t) : x = <<x[1], x[2]>>
    BY EffectsClaimedAt
  <2> HIDE DEF D
  <2>2. \A b, p : b \in Adders(D, p) <=> \E c \in AllClaims(t, mark) : c.by = b /\ p \in c.add
    BY <1>3, <1>4 DEF Adders
  <2>3. \A b, p : b \in Deleters(D, p) <=> \E c \in AllClaims(t, mark) : c.by = b /\ p \in c.del
    BY <1>3, <1>4 DEF Deleters
  <2> QED
    BY <2>1, <2>2, <2>3
<1>7. ASSUME NEW u \in updated
      PROVE  \E c \in D : c.by = u[1] /\ u[2] \in UpdatesOf(c, u[2].fluent)
  <2>1. u = <<u[1], u[2], u[3]>>
    BY EffectsClaimedAt
  <2> DEFINE b == u[1]
             v == u[2]
             f == u[3]
  <2>2. <<b, v, f>> \in UpdatedAt(t)
    BY <2>1
  <2> HIDE DEF b, v, f, D
  <2>3. \E c \in AllClaims(t, mark) : c.by = b /\ c.from = f /\ v \in c.upd
    BY <2>2, EffectsClaimedAt
  <2>4. \E c \in D : c.by = b /\ v \in UpdatesOf(c, v.fluent)
    BY <1>4, <2>3 DEF UpdatesOf
  <2> QED
    BY <2>4 DEF b, v
<1>8. ASSUME NEW x, NEW b \in Updaters(D, x)
      PROVE  \E v \in updated : v[1] = b /\ v[2].fluent = x
  <2>1. PICK c \in D : c.by = b /\ UpdatesOf(c, x) # {}
    BY <1>8 DEF Updaters
  <2>2. PICK w \in c.upd : w.fluent = x
    BY <2>1 DEF UpdatesOf
  <2>3. c \in AllClaims(t, mark)
    BY <1>3, <2>2
  <2>4. <<b, w, c.from>> \in UpdatedAt(t)
    BY <2>1, <2>2, <2>3, EffectsClaimedAt
  <2> QED
    BY <2>2, <2>4
<1>9. /\ \A p : Adders(D, p) # {} => p \in Props
      /\ \A p : Deleters(D, p) # {} => p \in Props
      /\ \A c \in D : \A u \in c.upd : u.fluent \in Fluents
  BY <1>2 DEF AreClaims, IsEffect, Adders, Deleters
<1>10. /\ \A x \in Props : PropositionEntry(own[x], Requirers(D, x), Adders(D, x), Deleters(D, x), Removers(D, x))
       /\ \A x \in Fluents : FluentEntry(own[x], Requirers(D, x), Updaters(D, x), OnlyAdditive(D, x), OneUpdate(D, x))
  BY DEF Owned, PropositionOwned, FluentOwned
<1> HIDE DEF D, required, added, deleted, updated
<1>11. ASSUME NEW r \in required, NEW e \in added, r[2] = e[2] PROVE r[1] = e[1] \/ r \in added
  <2>1. r[1] \in Requirers(D, r[2]) /\ e[1] \in Adders(D, r[2]) /\ r = <<r[1], r[2]>>
    BY <1>5, <1>6, <1>11
  <2>2. r[2] \in Props
    BY <1>9, <2>1
  <2>3. r[1] = e[1] \/ r[1] \in Adders(D, r[2])
    BY <1>10, <2>1, <2>2 DEF PropositionEntry
  <2>4. r[1] \in Adders(D, r[2]) => <<r[1], r[2]>> \in added
    BY <1>6
  <2> QED
    BY <2>1, <2>3, <2>4
<1>12. ASSUME NEW r \in required, NEW e \in deleted, r[2] = e[2] PROVE r[1] = e[1] \/ r \in deleted
  <2>1. r[1] \in Requirers(D, r[2]) /\ e[1] \in Deleters(D, r[2]) /\ r = <<r[1], r[2]>>
    BY <1>5, <1>6, <1>12
  <2>2. r[2] \in Props
    BY <1>9, <2>1
  <2>3. r[1] = e[1] \/ r[1] \in Deleters(D, r[2])
    BY <1>10, <2>1, <2>2 DEF PropositionEntry
  <2>4. r[1] \in Deleters(D, r[2]) => <<r[1], r[2]>> \in deleted
    BY <1>6
  <2> QED
    BY <2>1, <2>3, <2>4
<1>13. ASSUME NEW e \in added, NEW d \in deleted, e[2] = d[2]
       PROVE  e[1] = d[1] \/ <<d[1], e[2]>> \in added
  <2>1. e[1] \in Adders(D, e[2]) /\ d[1] \in Deleters(D, e[2])
    BY <1>6, <1>13
  <2>2. e[2] \in Props
    BY <1>9, <2>1
  <2>3. d[1] \in Adders(D, e[2])
    BY <1>10, <2>1, <2>2 DEF PropositionEntry
  <2> QED
    BY <1>6, <2>3
<1>14. ASSUME NEW r \in required, NEW u \in updated, r[2] = u[2].fluent
       PROVE  \E v \in updated : v[1] = r[1] /\ v[2].fluent = r[2]
  <2> DEFINE x == r[2]
  <2>1. PICK c \in D : c.by = u[1] /\ u[2] \in UpdatesOf(c, x)
    BY <1>7, <1>14
  <2>2. x \in Fluents /\ u[1] \in Updaters(D, x)
    BY <1>9, <1>14, <2>1 DEF Updaters, UpdatesOf
  <2>3. r[1] \in Requirers(D, x)
    BY <1>5
  <2> HIDE DEF x
  <2>4. r[1] \in Updaters(D, x)
    BY <1>10, <2>2, <2>3 DEF FluentEntry
  <2> QED
    BY <1>8, <2>4 DEF x
<1>15. ASSUME NEW u \in updated, NEW v \in updated, u[1] # v[1], u[2].fluent = v[2].fluent
       PROVE  {u[2].op, v[2].op} \subseteq Additive
  <2> DEFINE x == u[2].fluent
  <2>1. PICK c \in D : c.by = u[1] /\ u[2] \in UpdatesOf(c, x)
    BY <1>7
  <2>2. PICK d \in D : d.by = v[1] /\ v[2] \in UpdatesOf(d, x)
    BY <1>7, <1>15
  <2>3. x \in Fluents /\ u[1] \in Updaters(D, x) /\ v[1] \in Updaters(D, x)
    BY <1>9, <1>15, <2>1, <2>2 DEF Updaters, UpdatesOf
  <2> HIDE DEF x
  <2>4. OnlyAdditive(D, x)
    BY <1>10, <1>15, <2>3 DEF FluentEntry
  <2> QED
    BY <2>1, <2>2, <2>4 DEF OnlyAdditive
<1> DEFINE Goal(rs, as, ds, us) ==
             /\ \A r \in rs : own1(as, r) /\ own1(ds, r)
             /\ \A e \in as, d \in ds :
                   e[2] = d[2] => e[1] = d[1] \/ <<d[1], e[2]>> \in as
             /\ \A r \in rs, u \in us : r[2] = u[2].fluent =>
                   \E v \in us : v[1] = r[1] /\ v[2].fluent = r[2]
             /\ \A u, v \in us :
                   u[1] # v[1] /\ u[2].fluent = v[2].fluent => {u[2].op, v[2].op} \subseteq Additive
<1>16. Goal(required, added, deleted, updated)
  BY <1>11, <1>12, <1>13, <1>14, <1>15
<1> QED
  BY <1>16 DEF Undisturbed, required, added, deleted, updated

\* What a happening means does not change when the trace goes on.
LEMMA SameEffects ==
  ASSUME problem \in Problems, problem' = problem,
         NEW t \in Times, \A k \in 1..Number(t) : trace'[k] = trace[k]
  PROVE  /\ EffectsAt(t)' = EffectsAt(t) /\ RequiredAt(t)' = RequiredAt(t)
         /\ ActionsAt(t)' = ActionsAt(t)
<1>1. /\ Plan' = Plan /\ Times' = Times /\ \A o : Op(o)' = Op(o)
      /\ \A u : Number(u)' = Number(u) /\ ActionsAt(u)' = ActionsAt(u)
      /\ \A a : Snap(a)' = Snap(a) /\ \A s : Inside(s)' = Inside(s)
  BY PlanFixed
<1>2. \A s : Written(s)' = Written(s)
  BY DEF Written
<1>3. ASSUME NEW c, NEW k \in 1..Number(t) PROVE TrueIn(c, k)' <=> TrueIn(c, k)
  BY <1>3 DEF TrueIn
<1>4. ASSUME NEW u \in Times, u <= t PROVE Number(u) \in 1..Number(t)
  <2>1. /\ Number(u) \in 1..Cardinality(Times) /\ Number(t) \in Nat /\ Cardinality(Times) \in Nat
        /\ u \in Nat /\ t \in Nat /\ (u < t <=> Number(u) < Number(t))
    BY InOrder, Numbered, TimesFinite, FS_CardinalityType
  <2>2. u = t \/ u < t
    BY <1>4, <2>1
  <2> QED
    BY <2>1, <2>2
<1>5. ASSUME NEW c, NEW u \in Times, u <= t PROVE TrueBefore(c, u)' <=> TrueBefore(c, u)
  <2>1. PICK k \in 1..Number(t) : k = Number(u)
    BY <1>4, <1>5
  <2>2. TrueBefore(c, u) <=> TrueIn(c, k)
    BY <2>1 DEF TrueBefore
  <2>3. TrueBefore(c, u)' <=> TrueIn(c, k)'
    BY <1>1, <2>1 DEF TrueBefore
  <2> QED
    BY <1>3, <2>2, <2>3
<1>6. t \in Nat
  BY TimesFinite
<1>7. ASSUME NEW s \in Plan, s.start = t, NEW w PROVE Fires(s, w, "start")' <=> Fires(s, w, "start")
  <2>1. TrueBefore(Goals(w.cond, "start"), s.start)' <=> TrueBefore(Goals(w.cond, "start"), s.start)
    BY <1>5, <1>6, <1>7
  <2> QED
    BY <2>1 DEF Fires
<1>8. ASSUME NEW s \in Plan, Op(s.op).durative, s.end = t, NEW w PROVE Fires(s, w, "end")' <=> Fires(s, w, "end")
  <2>1. s.start \in Times /\ s.start \in Nat /\ s.start <= t
    <3>1. s.start <= s.end /\ s.start \in Times /\ s.start \in Nat
      BY <1>8, StepTimes
    <3> QED
      BY <1>6, <1>8, <3>1
  <2>2. /\ TrueBefore(Goals(w.cond, "start"), s.start)' <=> TrueBefore(Goals(w.cond, "start"), s.start)
        /\ TrueBefore(Goals(w.cond, "end"), s.end)' <=> TrueBefore(Goals(w.cond, "end"), s.end)
    BY <1>5, <1>6, <1>8, <2>1
  <2>3. \A k \in Inside(s) : k \in 1..Number(t)
    <3>1. Number(s.start) \in Nat /\ Number(t) \in Nat
      BY <2>1, InOrder
    <3> QED
      BY <1>8, <3>1 DEF Inside
  <2>4. \A k \in Inside(s) : TrueIn(Goals(w.cond, "over"), k)' <=> TrueIn(Goals(w.cond, "over"), k)
    BY <1>3, <2>3
  <2> QED
    BY <1>1, <2>2, <2>4 DEF Fires
<1>9. EndsOfSteps(t)' = EndsOfSteps(t)
  BY <1>1 DEF EndsOfSteps
<1>10. ASSUME NEW s, NEW at, <<s, at>> \in EndsOfSteps(t)
       PROVE  EffectsOf(s, at)' = EffectsOf(s, at)
  <2>1. \A w : Fires(s, w, at)' <=> Fires(s, w, at)
    <3>1. \/ s \in Plan /\ s.start = t /\ at = "start"
          \/ s \in Plan /\ Op(s.op).durative /\ s.end = t /\ at = "end"
      BY <1>10 DEF EndsOfSteps
    <3> QED
      BY <1>7, <1>8, <3>1
  <2> QED
    BY <1>2, <2>1 DEF EffectsOf
<1>11. EffectsAt(t)' = EffectsAt(t)
  <2>1. EffectsAt(t) = UNION {EffectsOf(x[1], x[2]) : x \in EndsOfSteps(t)}
    BY DEF EffectsAt, EffectsOf
  <2>2. EffectsAt(t)' = UNION {EffectsOf(x[1], x[2])' : x \in EndsOfSteps(t)'}
    BY DEF EffectsAt, EffectsOf
  <2>3. ASSUME NEW x \in EndsOfSteps(t) PROVE EffectsOf(x[1], x[2])' = EffectsOf(x[1], x[2])
    <3>1. x = <<x[1], x[2]>>
      BY DEF EndsOfSteps
    <3>2. <<x[1], x[2]>> \in EndsOfSteps(t)
      BY <3>1
    <3> QED
      BY <1>10, <3>2
  <2> QED
    BY <1>9, <2>1, <2>2, <2>3
<1>12. ASSUME NEW c PROVE TrueBefore(c, t)' <=> TrueBefore(c, t)
  BY <1>5, <1>6
<1>13. StartsAt(t)' = StartsAt(t)
  BY <1>1 DEF StartsAt
<1>14. RequiredAt(t)' = RequiredAt(t)
  BY <1>1, <1>11, <1>12, <1>13 DEF RequiredAt
<1> QED
  BY <1>1, <1>11, <1>14

\* Whether a happening disturbs itself does not change when the trace goes on.
LEMMA StillUndisturbed ==
  ASSUME problem \in Problems, problem' = problem,
         NEW t \in Times, \A k \in 1..Number(t) : trace'[k] = trace[k]
  PROVE  Undisturbed(t)' <=> Undisturbed(t)
<1>1. /\ EffectsAt(t)' = EffectsAt(t) /\ RequiredAt(t)' = RequiredAt(t)
      /\ ActionsAt(t)' = ActionsAt(t)
  BY SameEffects
<1>2. AddedAt(t)' = AddedAt(t) /\ DeletedAt(t)' = DeletedAt(t) /\ UpdatedAt(t)' = UpdatedAt(t)
  BY <1>1 DEF AddedAt, DeletedAt, UpdatedAt
<1> QED
  BY <1>1, <1>2 DEF Undisturbed

-----------------------------------------------------------------------------

\* The happening whose state is the last one was applied as it is to be.
LastUndisturbed == \A t \in Times : Number(t) + 1 = Len(trace) => Undisturbed(t)

\* A regular step is one of the happening that is due.
LEMMA RegularDue ==
  ASSUME Inv, StatusInv, ~ContinueAnyway, ExecuteRegular
  PROVE  Due(next) /\ Unfailed
<1>1. Unfailed /\ kind = "REGULAR"
  BY DEF ExecuteRegular, Executing, Unfailed
<1>2. PICK t \in Times : next = t /\ Number(t) = Len(trace)
  BY <1>1 DEF Inv, PlaceInv
<1>3. next \in Times /\ Number(next) = Len(trace)
  BY <1>2
<1> QED
  BY <1>1, <1>3 DEF Due

\* A step adds one state to the trace, or none.
LEMMA TraceExtended ==
  ASSUME TraceInv, NEW r, trace' = Append(trace, r)
  PROVE  /\ Len(trace) \in Nat /\ Len(trace) >= 1 /\ Len(trace') = Len(trace) + 1
         /\ trace'[Len(trace) + 1] = r /\ \A k \in 1..Len(trace) : trace'[k] = trace[k]
<1>1. PICK S : trace \in Seq(S)
  BY DEF TraceInv
<1>2. trace \in Seq(S \cup {r}) /\ r \in S \cup {r}
  BY <1>1
<1> QED
  BY <1>2 DEF TraceInv

\* Every step keeps that.
LEMMA StepUndisturbed ==
  ASSUME Inv, StatusInv, LastUndisturbed, [Next]_vars, ~ContinueAnyway, EffectsApart
  PROVE  LastUndisturbed'
<1>1. problem \in Problems
  BY DEF Inv
<1>2. CASE UNCHANGED <<problem, trace>>
  <2>1. \A t \in Times : Undisturbed(t)' <=> Undisturbed(t)
    BY <1>1, <1>2, StillUndisturbed
  <2>2. Times' = Times /\ \A t : Number(t)' = Number(t)
    BY <1>2, PlanFixed
  <2> QED
    BY <1>2, <2>1, <2>2 DEF LastUndisturbed
<1>3. CASE ExecuteRegular /\ trace' # trace
  <2>1. PICK order \in Orders(next) :
           /\ AllGranted(Marked(order), Claims(order))
           /\ trace' = Append(trace, [time |-> next, state |-> state', values |-> values'])
    BY <1>3 DEF ExecuteRegular
  <2>2. problem' = problem
    BY <1>3 DEF ExecuteRegular
  <2>3. Due(next) /\ Unfailed
    BY <1>3, RegularDue
  <2>4. TraceInv
    BY <2>3 DEF Inv
  <2>5. PICK t \in Times : next = t /\ Number(t) = Len(trace) /\ Due(t)
    <3>1. next \in Times /\ Number(next) = Len(trace)
      BY <2>3 DEF Due
    <3> QED
      BY <2>3, <3>1
  <2>6. /\ Len(trace) \in Nat /\ Len(trace) >= 1 /\ Len(trace') = Len(trace) + 1
        /\ \A k \in 1..Len(trace) : trace'[k] = trace[k]
    BY <2>1, <2>4, TraceExtended
  <2>7. Undisturbed(t)
    <3>1. PICK mark : mark = (Len(order) > 1)
      OBVIOUS
    <3>2. Len(order) = Cardinality(ActionsAt(t))
      BY <1>1, <2>1, <2>5, Ordered
    <3>3. PICK own : Owned(own, Claimants(t, mark))
      BY <2>1, <2>5, <3>1, ClaimsOwned
    <3> QED
      BY <2>5, <3>1, <3>2, <3>3, OwnedUndisturbed
  <2>8. Undisturbed(t)'
    BY <1>1, <2>2, <2>5, <2>6, <2>7, StillUndisturbed
  <2>9. Times' = Times /\ \A u : Number(u)' = Number(u)
    BY <2>2, PlanFixed
  <2>10. ASSUME NEW u \in Times, Number(u)' + 1 = Len(trace') PROVE u = t
    BY <1>1, <2>5, <2>6, <2>9, <2>10, InOrder
  <2> QED
    BY <2>8, <2>9, <2>10 DEF LastUndisturbed
<1>4. CASE ExecuteInvariant
  BY <1>2, <1>4 DEF ExecuteInvariant
<1>5. CASE EndExecution
  BY <1>2, <1>5 DEF EndExecution
<1>6. CASE CheckGoal
  BY <1>2, <1>6 DEF CheckGoal
<1>7. CASE UNCHANGED vars
  BY <1>2, <1>7 DEF vars
<1>8. CASE ExecuteRegular /\ trace' = trace
  BY <1>2, <1>8 DEF ExecuteRegular
<1> QED
  BY <1>3, <1>4, <1>5, <1>6, <1>7, <1>8 DEF Next, Finished

\* A happening that was applied had no action that changes what another one
\* requires, or deletes what another one adds, unless the other one has that
\* same effect itself (Ownership, Happening::applyTo), in every domain whose
\* actions do not delete with one effect what they add with another one.
THEOREM HappeningsDoNotInterfere ==
  ASSUME ~ContinueAnyway, EffectsApart
  PROVE  Spec => []NoInterference
<1> DEFINE IInv == Inv /\ StatusInv /\ LastUndisturbed
<1>1. Init => IInv
  <2> SUFFICES ASSUME Init PROVE IInv
    OBVIOUS
  <2>1. Inv /\ StatusInv
    BY InitInv, InitStatus
  <2>2. Len(trace) = 1 /\ problem \in Problems
    BY DEF Init
  <2>3. ASSUME NEW t \in Times PROVE Number(t) + 1 # 1
    <3>1. Number(t) \in 1..Cardinality(Times)
      BY <2>2, Numbered
    <3> QED
      BY <3>1
  <2> QED
    BY <2>1, <2>2, <2>3 DEF LastUndisturbed
<1>2. IInv /\ [Next]_vars => IInv'
  BY StepInv, StepStatus, StepUndisturbed
<1>3. IInv => NoInterference
  BY DEF LastUndisturbed, Undisturbed, NoInterference, Applied
<1> QED
  BY <1>1, <1>2, <1>3, PTL DEF Spec

-----------------------------------------------------------------------------
(* Sums.                                                                     *)

\* One of the elements of s.
Some(s) == CHOOSE x \in s : TRUE

\* it[s] is the sum of G over the subset s of S.
SumsOver(it, S, G) ==
    it = [s \in SUBSET S |-> IF s = {} THEN 0 ELSE G[Some(s)] + it[s \ {Some(s)}]]

\* SumFunction, without the folds.
LEMMA SumIs ==
  ASSUME NEW S, NEW G, DOMAIN G = S
  PROVE  SumFunction(G) = (CHOOSE it : SumsOver(it, S, G))[S]
BY DEF SumFunction, SumFunctionOnSet, FoldFunctionOnSet, MapThenFoldSet, SumsOver, Some

\* The sums over the subsets of a finite set are defined.
LEMMA SumsExist ==
  ASSUME NEW S, IsFiniteSet(S), NEW G \in [S -> Int]
  PROVE  \E it \in [SUBSET S -> Int] : SumsOver(it, S, G)
<1> DEFINE n == Cardinality(S)
           V == [SUBSET S -> Int]
           zero == [s \in SUBSET S |-> 0]
           Longer(h) == [s \in SUBSET S |-> IF s = {} THEN 0 ELSE G[Some(s)] + h[s \ {Some(s)}]]
           step == [p \in (1..(n + 1)) \X V |-> Longer(p[2])]
<1>1. n \in Nat /\ n + 1 \in Nat
  BY FS_CardinalityType
<1>2. \A s \in SUBSET S : s # {} => Some(s) \in s /\ G[Some(s)] \in Int /\ s \ {Some(s)} \in SUBSET S
  BY DEF Some
<1>3. zero \in V
  OBVIOUS
<1>4. \A h \in V : Longer(h) \in V
  <2> SUFFICES ASSUME NEW h \in V PROVE Longer(h) \in V
    OBVIOUS
  <2>1. ASSUME NEW s \in SUBSET S PROVE (IF s = {} THEN 0 ELSE G[Some(s)] + h[s \ {Some(s)}]) \in Int
    <3>1. CASE s = {}
      BY <3>1
    <3>2. CASE s # {}
      <4>1. G[Some(s)] \in Int /\ h[s \ {Some(s)}] \in Int
        BY <1>2, <3>2
      <4> QED
        BY <3>2, <4>1
    <3> QED
      BY <3>1, <3>2
  <2> QED
    BY <2>1
<1>5. step \in [(1..(n + 1)) \X V -> V]
  <2> HIDE DEF V, Longer, n
  <2> QED
    BY <1>4
<1>6. PICK f : Follows(f, n + 1, V, zero, step)
  <2> HIDE DEF step, zero, V, n
  <2> QED
    BY <1>1, <1>3, <1>5, Recursion
<1>7. /\ f \in [0..(n + 1) -> V] /\ f[0] = zero
      /\ \A i \in 1..(n + 1) : f[i] = Longer(f[i - 1])
  <2>1. f \in [0..(n + 1) -> V] /\ f[0] = zero /\ \A i \in 1..(n + 1) : f[i] = step[<<i, f[i - 1]>>]
    BY <1>6 DEF Follows
  <2>2. ASSUME NEW i \in 1..(n + 1) PROVE f[i] = Longer(f[i - 1])
    <3>1. i - 1 \in 0..(n + 1)
      BY <1>1
    <3>2. f[i - 1] \in V
      BY <2>1, <3>1
    <3> HIDE DEF V, Longer, n
    <3>3. step[<<i, f[i - 1]>>] = Longer(f[i - 1])
      BY <3>2
    <3> HIDE DEF step
    <3> QED
      BY <2>1, <3>3
  <2> QED
    BY <2>1, <2>2
\* The sums over sets of k elements do not change after k steps.
<1> DEFINE Stable(k) == \A s \in SUBSET S : Cardinality(s) <= k => f[k][s] = f[k + 1][s]
           K == {k \in Nat : k <= n => Stable(k)}
<1>8. \A s \in SUBSET S : /\ IsFiniteSet(s) /\ Cardinality(s) \in Nat /\ Cardinality(s) <= n
                          /\ Cardinality(s) = 0 <=> s = {}
                          /\ s # {} => Cardinality(s \ {Some(s)}) = Cardinality(s) - 1
  <2> SUFFICES ASSUME NEW s \in SUBSET S
               PROVE  /\ IsFiniteSet(s) /\ Cardinality(s) \in Nat /\ Cardinality(s) <= n
                      /\ Cardinality(s) = 0 <=> s = {}
                      /\ s # {} => Cardinality(s \ {Some(s)}) = Cardinality(s) - 1
    OBVIOUS
  <2>1. IsFiniteSet(s) /\ Cardinality(s) <= n
    BY FS_Subset
  <2>2. Cardinality(s) \in Nat /\ (Cardinality(s) = 0 <=> s = {})
    BY <2>1, FS_CardinalityType, FS_EmptySet
  <2>3. s # {} => Cardinality(s \ {Some(s)}) = Cardinality(s) - 1
    BY <1>2, <2>1, FS_RemoveElement
  <2> QED
    BY <2>1, <2>2, <2>3
<1>9. ASSUME NEW i \in 1..(n + 1), NEW s \in SUBSET S
      PROVE  f[i][s] = IF s = {} THEN 0 ELSE G[Some(s)] + f[i - 1][s \ {Some(s)}]
  <2>1. f[i] = Longer(f[i - 1])
    BY <1>7
  <2> QED
    BY <2>1
<1>10. 0 \in K
  <2>1. 1 \in 1..(n + 1) /\ 0 + 1 = 1
    BY <1>1
  <2>2. ASSUME NEW s \in SUBSET S, Cardinality(s) <= 0 PROVE f[0][s] = f[0 + 1][s]
    <3>1. s = {}
      <4>1. Cardinality(s) \in Nat
        BY <1>8
      <4>2. Cardinality(s) = 0
        BY <2>2, <4>1
      <4> QED
        BY <1>8, <4>2
    <3>2. f[0][s] = 0
      BY <1>7
    <3>3. f[1][s] = 0
      BY <1>9, <2>1, <3>1
    <3> QED
      BY <2>1, <3>2, <3>3
  <2> QED
    BY <2>2
<1>11. ASSUME NEW k \in K PROVE k + 1 \in K
  <2> SUFFICES ASSUME k + 1 <= n, NEW s \in SUBSET S, Cardinality(s) <= k + 1
               PROVE  f[k + 1][s] = f[(k + 1) + 1][s]
    BY <1>11
  <2>1. /\ k \in Nat /\ k <= n /\ k + 1 \in 1..(n + 1) /\ (k + 1) + 1 \in 1..(n + 1)
        /\ (k + 1) - 1 = k /\ ((k + 1) + 1) - 1 = k + 1
    BY <1>1
  <2>2. CASE s = {}
    BY <1>9, <2>1, <2>2
  <2>3. CASE s # {}
    <3> DEFINE r == s \ {Some(s)}
    <3>1. r \in SUBSET S /\ Cardinality(r) <= k
      BY <1>2, <1>8, <2>1, <2>3
    <3>2. f[k][r] = f[k + 1][r]
      BY <2>1, <3>1
    <3>3. f[k + 1][s] = G[Some(s)] + f[k][r] /\ f[(k + 1) + 1][s] = G[Some(s)] + f[k + 1][r]
      BY <1>9, <2>1, <2>3
    <3> QED
      BY <3>2, <3>3
  <2> QED
    BY <2>2, <2>3
<1>12. \A k \in Nat : k \in K
  <2>1. K \in SUBSET Nat
    OBVIOUS
  <2> HIDE DEF K
  <2> QED
    BY <1>10, <1>11, <2>1, AllNumbers
<1>13. Stable(n)
  <2>1. n \in K
    <3> HIDE DEF K
    <3> QED
      BY <1>1, <1>12
  <2>2. n <= n
    BY <1>1
  <2> HIDE DEF Stable, n
  <2> QED
    BY <2>1, <2>2
<1>14. f[n] \in V /\ f[n + 1] \in V
  <2>1. n \in 0..(n + 1) /\ n + 1 \in 0..(n + 1)
    <3> HIDE DEF n
    <3> QED
      BY <1>1
  <2>2. f \in [0..(n + 1) -> V]
    BY <1>7
  <2> HIDE DEF V, n
  <2> QED
    BY <2>1, <2>2
<1>15. f[n + 1] = f[n]
  <2> DEFINE g == f[n]
             h == f[n + 1]
  <2>1. g \in V /\ h \in V
    BY <1>14
  <2>2. \A s \in SUBSET S : g[s] = h[s]
    BY <1>8, <1>13
  <2> HIDE DEF g, h
  <2>3. g = h
    BY <2>1, <2>2
  <2> QED
    BY <2>3 DEF g, h
<1>16. f[n + 1] = Longer(f[n])
  <2>1. n + 1 \in 1..(n + 1) /\ (n + 1) - 1 = n
    BY <1>1
  <2> HIDE DEF Longer, n
  <2> QED
    BY <1>7, <2>1
<1> DEFINE it == f[n]
<1>17. it \in [SUBSET S -> Int] /\ it = Longer(it)
  BY <1>14, <1>15, <1>16
<1>18. SumsOver(it, S, G)
  BY <1>17 DEF SumsOver
<1> HIDE DEF it
<1> QED
  BY <1>17, <1>18

\* A sum is the value of any of its elements and the sum of the others.
LEMMA SumSteps ==
  ASSUME NEW S, IsFiniteSet(S), NEW G \in [S -> Int]
  PROVE  \E it \in [SUBSET S -> Int] :
            /\ it[{}] = 0
            /\ \A s \in SUBSET S : \A x \in s : it[s] = G[x] + it[s \ {x}]
            /\ SumFunction(G) = it[S]
<1> DEFINE it == CHOOSE h : SumsOver(h, S, G)
<1>1. PICK h \in [SUBSET S -> Int] : SumsOver(h, S, G)
  BY SumsExist
<1>2. SumsOver(it, S, G)
  BY <1>1
<1>3. SumFunction(G) = it[S]
  BY SumIs
<1> HIDE DEF it
<1>4. \A s \in SUBSET S : it[s] = IF s = {} THEN 0 ELSE G[Some(s)] + it[s \ {Some(s)}]
  BY <1>2 DEF SumsOver
<1>5. \A s \in SUBSET S : /\ IsFiniteSet(s) /\ Cardinality(s) \in Nat /\ (Cardinality(s) = 0 <=> s = {})
                          /\ \A x \in s : Cardinality(s \ {x}) = Cardinality(s) - 1 /\ s \ {x} \in SUBSET S
  <2> SUFFICES ASSUME NEW s \in SUBSET S
               PROVE  /\ IsFiniteSet(s) /\ Cardinality(s) \in Nat /\ (Cardinality(s) = 0 <=> s = {})
                      /\ \A x \in s : Cardinality(s \ {x}) = Cardinality(s) - 1 /\ s \ {x} \in SUBSET S
    OBVIOUS
  <2>1. IsFiniteSet(s)
    BY FS_Subset
  <2> QED
    BY <2>1, FS_CardinalityType, FS_EmptySet, FS_RemoveElement
<1>6. \A s \in SUBSET S : s # {} => Some(s) \in s
  BY DEF Some
<1> DEFINE Right(s) == it[s] \in Int /\ \A x \in s : it[s] = G[x] + it[s \ {x}]
           K == {k \in Nat : \A s \in SUBSET S : Cardinality(s) <= k => Right(s)}
<1>7. Right({})
  <2>1. it[{}] = 0
    <3>1. {} \in SUBSET S
      OBVIOUS
    <3> QED
      BY <1>4, <3>1
  <2> QED
    BY <2>1
<1>8. 0 \in K
  <2>1. ASSUME NEW s \in SUBSET S, Cardinality(s) <= 0 PROVE Right(s)
    <3>1. Cardinality(s) \in Nat
      BY <1>5
    <3>2. Cardinality(s) = 0
      BY <2>1, <3>1
    <3>3. s = {}
      BY <1>5, <3>2
    <3> HIDE DEF Right
    <3> QED
      BY <1>7, <3>3
  <2> HIDE DEF Right
  <2> QED
    BY <2>1
<1>9. ASSUME NEW k \in K PROVE k + 1 \in K
  <2>1. k \in Nat /\ \A s \in SUBSET S : Cardinality(s) <= k => Right(s)
    OBVIOUS
  <2>2. ASSUME NEW s \in SUBSET S, Cardinality(s) <= k + 1 PROVE Right(s)
    <3>1. CASE s = {}
      <4> HIDE DEF Right
      <4> QED
        BY <1>7, <3>1
    <3>2. CASE s # {}
      <4> DEFINE y == Some(s)
      <4>1. y \in s /\ it[s] = G[y] + it[s \ {y}]
        BY <1>4, <1>6, <3>2
      <4> HIDE DEF y
      <4>2. ASSUME NEW x \in s PROVE Right(s \ {x}) /\ s \ {x} \in SUBSET S
        <5>1. Cardinality(s) \in Nat /\ Cardinality(s \ {x}) = Cardinality(s) - 1 /\ s \ {x} \in SUBSET S
          BY <1>5
        <5>2. Cardinality(s \ {x}) <= k
          BY <2>1, <2>2, <5>1
        <5> HIDE DEF Right
        <5> QED
          BY <2>1, <5>1, <5>2
      <4>3. it[s] \in Int
        BY <4>1, <4>2
      <4>4. ASSUME NEW x \in s PROVE it[s] = G[x] + it[s \ {x}]
        <5>1. CASE x = y
          BY <4>1, <5>1
        <5>2. CASE x # y
          <6> DEFINE r == (s \ {x}) \ {y}
          <6>1. it[s \ {y}] = G[x] + it[r]
            <7>1. x \in s \ {y} /\ (s \ {y}) \ {x} = r
              BY <5>2
            <7>2. \A z \in s \ {y} : it[s \ {y}] = G[z] + it[(s \ {y}) \ {z}]
              BY <4>1, <4>2
            <7> QED
              BY <7>1, <7>2
          <6>2. it[s \ {x}] = G[y] + it[r]
            <7>1. y \in s \ {x}
              BY <4>1, <5>2
            <7>2. \A z \in s \ {x} : it[s \ {x}] = G[z] + it[(s \ {x}) \ {z}]
              BY <4>2
            <7> QED
              BY <7>1, <7>2
          <6>3. G[x] \in Int /\ G[y] \in Int /\ it[r] \in Int
            <7>1. x \in S /\ y \in S
              BY <4>1
            <7>2. r \in SUBSET S /\ Cardinality(r) <= k
              <8>1. y \in s \ {x} /\ s \ {x} \in SUBSET S
                BY <4>1, <5>2
              <8>2. /\ Cardinality(s) \in Nat /\ Cardinality(s \ {x}) = Cardinality(s) - 1
                    /\ Cardinality(r) = Cardinality(s \ {x}) - 1
                BY <1>5, <8>1
              <8> QED
                BY <2>1, <2>2, <8>2
            <7>3. Right(r)
              <8> HIDE DEF r, Right
              <8> QED
                BY <2>1, <7>2
            <7> QED
              BY <7>1, <7>3
          <6> HIDE DEF r
          <6> QED
            BY <4>1, <6>1, <6>2, <6>3
        <5> QED
          BY <5>1, <5>2
      <4> QED
        BY <4>3, <4>4
    <3> QED
      BY <3>1, <3>2
  <2> HIDE DEF Right
  <2> QED
    BY <2>1, <2>2
<1>10. \A k \in Nat : k \in K
  <2>1. K \in SUBSET Nat
    OBVIOUS
  <2> HIDE DEF K
  <2> QED
    BY <1>8, <1>9, <2>1, AllNumbers
<1>11. \A s \in SUBSET S : Right(s)
  <2> SUFFICES ASSUME NEW s \in SUBSET S PROVE Right(s)
    OBVIOUS
  <2>1. Cardinality(s) \in Nat /\ Cardinality(s) <= Cardinality(s)
    BY <1>5
  <2>2. Cardinality(s) \in K
    <3> HIDE DEF K
    <3> QED
      BY <1>10, <2>1
  <2> HIDE DEF Right
  <2> QED
    BY <2>1, <2>2
<1>12. it \in [SUBSET S -> Int]
  <2>1. it = [s \in SUBSET S |-> it[s]]
    BY <1>2 DEF SumsOver
  <2>2. \A s \in SUBSET S : it[s] \in Int
    BY <1>11
  <2> HIDE DEF K
  <2> QED
    BY <2>1, <2>2
<1>13. it[{}] = 0
  BY <1>4
<1> QED
  BY <1>3, <1>11, <1>12, <1>13

-----------------------------------------------------------------------------
(* The values a happening leads to.                                          *)

Valuations == [Fluents -> Int]

\* What one claim does to the values.
LEMMA UpdateTyped ==
  ASSUME NEW C, AreClaims(C), NEW c \in C, values \in Valuations, NEW vals \in Valuations
  PROVE  /\ Update(vals, c) \in Valuations
         /\ \A u \in c.upd : ValueOf(u) \in Int
         /\ \A f \in Fluents : UpdatesOf(c, f) = {} => Update(vals, c)[f] = vals[f]
         /\ \A f \in Fluents : \A u \in UpdatesOf(c, f) : Update(vals, c)[f] = NewValue(vals[f], u)
<1>1. \A u \in c.upd : u.by \in Fluents \cup Int /\ u.op \in {"increase", "decrease", "assign"}
  BY DEF AreClaims, IsEffect, Additive
<1>2. \A u \in c.upd : ValueOf(u) \in Int
  BY <1>1 DEF ValueOf, Valuations
<1>3. ASSUME NEW f \in Fluents, NEW u \in UpdatesOf(c, f)
      PROVE  NewValue(vals[f], u) \in Int /\ (CHOOSE v \in UpdatesOf(c, f) : TRUE) = u
  <2>1. u \in c.upd /\ vals[f] \in Int
    BY DEF UpdatesOf, Valuations
  <2>2. NewValue(vals[f], u) \in Int
    <3>1. ValueOf(u) \in Int /\ u.op \in {"increase", "decrease", "assign"}
      BY <1>1, <1>2, <2>1
    <3> DEFINE x == vals[f]
               y == ValueOf(u)
    <3>2. x \in Int /\ y \in Int
      BY <2>1, <3>1
    <3> HIDE DEF x, y
    <3>3. CASE u.op = "increase"
      <4>1. NewValue(x, u) = x + y
        BY <3>3 DEF NewValue, y
      <4> QED
        BY <3>2, <4>1 DEF x
    <3>4. CASE u.op = "decrease"
      <4>1. NewValue(x, u) = x - y
        BY <3>4 DEF NewValue, y
      <4> QED
        BY <3>2, <4>1 DEF x
    <3>5. CASE u.op = "assign"
      <4>1. NewValue(x, u) = y
        BY <3>5 DEF NewValue, y
      <4> QED
        BY <3>2, <4>1 DEF x
    <3> QED
      BY <3>1, <3>3, <3>4, <3>5
  <2>3. \A v \in UpdatesOf(c, f) : v = u
    BY DEF AreClaims, IsEffect, UpdatesOf
  <2> QED
    BY <2>2, <2>3
<1>4. DOMAIN vals = Fluents /\ \A f \in Fluents : vals[f] \in Int
  BY DEF Valuations
<1>5. ASSUME NEW f \in Fluents
      PROVE  (IF UpdatesOf(c, f) = {} THEN vals[f]
              ELSE NewValue(vals[f], CHOOSE u \in UpdatesOf(c, f) : TRUE)) \in Int
  <2>1. CASE UpdatesOf(c, f) = {}
    BY <1>4, <2>1
  <2>2. CASE UpdatesOf(c, f) # {}
    <3>1. PICK u \in UpdatesOf(c, f) : TRUE
      BY <2>2
    <3> QED
      BY <1>3, <2>2, <3>1
  <2> QED
    BY <2>1, <2>2
<1>6. Update(vals, c) \in Valuations
  BY <1>4, <1>5 DEF Update, Valuations
<1>7. ASSUME NEW f \in Fluents
      PROVE  Update(vals, c)[f] = IF UpdatesOf(c, f) = {} THEN vals[f]
                                  ELSE NewValue(vals[f], CHOOSE u \in UpdatesOf(c, f) : TRUE)
  BY <1>4 DEF Update
<1>8. \A f \in Fluents : UpdatesOf(c, f) = {} => Update(vals, c)[f] = vals[f]
  BY <1>7
<1>9. ASSUME NEW f \in Fluents, NEW u \in UpdatesOf(c, f)
      PROVE  Update(vals, c)[f] = NewValue(vals[f], u)
  BY <1>3, <1>7
<1> QED
  BY <1>2, <1>6, <1>8, <1>9

\* The values after each of the claims.
LEMMA EnactSteps ==
  ASSUME NEW C, AreClaims(C), NEW claims \in Seq(C), values \in Valuations
  PROVE  \E vs : /\ Len(claims) \in Nat
                 /\ \A i \in 0..Len(claims) : vs[i] \in Valuations
                 /\ vs[0] = values /\ vs[Len(claims)] = EnactUpdates(claims)
                 /\ \A i \in 1..Len(claims) : vs[i] = Update(vs[i - 1], claims[i]) /\ claims[i] \in C
<1> DEFINE n == Len(claims)
           V == Valuations
           step == [p \in (1..n) \X V |-> Update(p[2], claims[p[1]])]
           Def(f) == f = [i \in 0..n |-> IF i = 0 THEN values ELSE Update(f[i - 1], claims[i])]
<1>1. n \in Nat /\ \A i \in 1..n : claims[i] \in C
  OBVIOUS
<1>2. \A i \in 1..n : \A o \in V : Update(o, claims[i]) \in V
  BY <1>1, UpdateTyped
<1>3. PICK f : Follows(f, n, V, values, step)
  <2>1. step \in [(1..n) \X V -> V]
    <3> HIDE DEF n, V
    <3> QED
      BY <1>2
  <2> HIDE DEF step, n, V, Def
  <2> QED
    BY <1>1, <2>1, Recursion DEF V
<1>4. f \in [0..n -> V] /\ f[0] = values /\ \A i \in 1..n : f[i] = step[<<i, f[i - 1]>>]
  BY <1>3 DEF Follows
<1>5. ASSUME NEW i \in 1..n PROVE f[i] = Update(f[i - 1], claims[i]) /\ i # 0
  <2>1. i # 0 /\ i - 1 \in 0..n
    BY <1>1
  <2>2. f[i - 1] \in V
    BY <1>4, <2>1
  <2>3. step[<<i, f[i - 1]>>] = Update(f[i - 1], claims[i])
    <3> HIDE DEF n, V
    <3> QED
      BY <2>2
  <2> HIDE DEF step, n, V
  <2> QED
    BY <1>4, <2>1, <2>3
<1>6. Def(f)
  <2>1. ASSUME NEW i \in 0..n PROVE f[i] = IF i = 0 THEN values ELSE Update(f[i - 1], claims[i])
    <3>1. i = 0 \/ i \in 1..n
      BY <1>1
    <3> QED
      BY <1>4, <1>5, <3>1
  <2>2. f = [i \in 0..n |-> f[i]]
    BY <1>4
  <2> QED
    BY <2>1, <2>2
<1> DEFINE vs == CHOOSE g : Def(g)
<1>7. EnactUpdates(claims) = vs[n]
  BY DEF EnactUpdates
<1>8. Def(vs)
  <2> HIDE DEF Def
  <2> QED
    BY <1>6
<1> HIDE DEF vs
<1>9. /\ vs[0] = values
      /\ \A i \in 1..n : vs[i] = Update(vs[i - 1], claims[i])
  <2>1. \A i \in 0..n : vs[i] = IF i = 0 THEN values ELSE Update(vs[i - 1], claims[i])
    BY <1>8
  <2>2. 0 \in 0..n /\ \A i \in 1..n : i \in 0..n /\ i # 0
    BY <1>1
  <2> HIDE DEF n, Def
  <2> QED
    BY <2>1, <2>2
<1> HIDE DEF Def, step
<1> DEFINE S == {i \in Nat : i \in 0..n => vs[i] \in V}
<1>10. 0 \in S
  BY <1>9
<1>11. ASSUME NEW i \in S PROVE i + 1 \in S
  <2>1. (i + 1) - 1 = i /\ i + 1 \in Nat /\ (i + 1 \in 0..n => i \in 0..n /\ i + 1 \in 1..n)
    BY <1>1
  <2> HIDE DEF n, V
  <2> QED
    BY <1>2, <1>9, <2>1
<1>12. \A i \in Nat : i \in S
  <2>1. S \in SUBSET Nat
    OBVIOUS
  <2> HIDE DEF S
  <2> QED
    BY <1>10, <1>11, <2>1, AllNumbers
<1>13. \A i \in 0..n : vs[i] \in V
  <2> HIDE DEF V
  <2> QED
    BY <1>1, <1>12
<1> QED
  BY <1>1, <1>7, <1>9, <1>13

-----------------------------------------------------------------------------
(* Every update is in one claim.                                             *)

\* What tells the conditional effects and the monitors of an action apart.
LEMMA Determined ==
  ASSUME problem \in Problems, NEW t, NEW a \in ActionsAt(t)
  PROVE  /\ a = <<a[1], a[2]>> /\ a[2] \in {"start", "end"}
         /\ \A v, w \in FiredBy(a) : v.written = w.written => v = w
         /\ \A m \in MonitorsOfEnd(a) : a[2] = "end" /\ Name(m) = <<a[1], "monitor", m[2].written>>
         /\ \A k, m \in MonitorsOfEnd(a) : k[2].written = m[2].written => k = m
<1>1. PICK s \in Plan :
            /\ problem.domain \in DOMAIN Domains /\ s.op \in DOMAIN Domains[problem.domain]
            /\ Op(s.op) = HandleDurativeAction(Written(s))
            /\ \/ a = <<s.op, "start">> /\ s.start = t
                  /\ Snap(a) = SnapAction(Written(s), "start")
               \/ a = <<s.op, "end">> /\ s.end = t /\ Op(s.op).durative
                  /\ Snap(a) = SnapAction(Written(s), "end")
  BY ActionStep
<1>2. a = <<s.op, a[2]>> /\ a[1] = s.op /\ a[2] \in {"start", "end"} /\ Snap(a) = SnapAction(Written(s), a[2])
  BY <1>1
<1>3. \A w \in FiredBy(a) : w = [cond |-> Goals(w.written.cond, a[2]),
                                 effect |-> Effects(w.written.effects, a[2]), written |-> w.written]
  <2>1. Snap(a).when = HandleConditional(Written(s).when, a[2])
    BY <1>2 DEF SnapAction
  <2>2. \A w \in HandleConditional(Written(s).when, a[2]) :
           w = [cond |-> Goals(w.written.cond, a[2]),
                effect |-> Effects(w.written.effects, a[2]), written |-> w.written]
    BY DEF HandleConditional
  <2> QED
    BY <2>1, <2>2 DEF FiredBy
<1>4. ASSUME NEW v \in FiredBy(a), NEW w \in FiredBy(a), v.written = w.written PROVE v = w
  BY <1>3, <1>4
<1>5. ASSUME NEW m \in MonitorsOfEnd(a)
      PROVE  /\ a[2] = "end" /\ Name(m) = <<a[1], "monitor", m[2].written>>
             /\ m = <<a[1], [atStart |-> Goals(m[2].written.cond, "start"),
                             overAll |-> Goals(m[2].written.cond, "over"),
                             effect |-> Effects(m[2].written.effects, "end"),
                             written |-> m[2].written]>>
  <2>1. a[2] = "end" /\ m \in MonitorsIn({a[1]})
    BY DEF MonitorsOfEnd
  <2>2. PICK v \in Op(a[1]).monitors : m = <<a[1], v>>
    BY <2>1 DEF MonitorsIn
  <2>3. v \in MonitorsOf(Written(s).when)
    BY <1>1, <1>2, <2>2 DEF HandleDurativeAction
  <2>4. v = [atStart |-> Goals(v.written.cond, "start"), overAll |-> Goals(v.written.cond, "over"),
             effect |-> Effects(v.written.effects, "end"), written |-> v.written]
    BY <2>3 DEF MonitorsOf
  <2>5. m[1] = a[1] /\ m[2] = v
    BY <2>2
  <2> QED
    BY <2>1, <2>2, <2>4, <2>5 DEF Name
<1>6. ASSUME NEW k \in MonitorsOfEnd(a), NEW m \in MonitorsOfEnd(a), k[2].written = m[2].written PROVE k = m
  <2> DEFINE Of(w) == <<a[1], [atStart |-> Goals(w.cond, "start"), overAll |-> Goals(w.cond, "over"),
                               effect |-> Effects(w.effects, "end"), written |-> w]>>
  <2>1. k = Of(k[2].written) /\ m = Of(m[2].written)
    BY <1>5
  <2> HIDE DEF Of
  <2> QED
    BY <1>6, <2>1
<1> QED
  BY <1>2, <1>4, <1>5, <1>6

\* The claim c is the one of a's own updates, of its conditional effect w, or of
\* its monitor m.
OwnClaim(c, a) ==
    /\ c = Claim(a, {}, {}, [NoEffect EXCEPT !.upd = Snap(a).effect.upd])
    /\ c.by = a /\ c.from = {}
FiredClaim(c, a, mark, w) ==
    /\ c = Claim(a, {w.written}, IF mark THEN w.cond ELSE {}, w.effect)
    /\ c.by = a /\ c.from = {w.written}
MonitorClaim(c, a, m) ==
    /\ c = Claim(Name(m), {m[2].written}, {}, m[2].effect)
    /\ c.by = <<a[1], "monitor", m[2].written>> /\ c.from = {m[2].written} /\ a[2] = "end"

\* The claims with updates, by what they are of and from.
LEMMA ClaimShape ==
  ASSUME problem \in Problems, NEW t, NEW a \in ActionsAt(t), NEW mark,
         NEW c \in ClaimsOf(a, mark), c.upd # {}
  PROVE  \/ OwnClaim(c, a)
         \/ \E w \in FiredBy(a) : FiredClaim(c, a, mark, w)
         \/ \E m \in MonitorsOfEnd(a) : MonitorClaim(c, a, m)
<1>1. c # Claim(a, {}, {}, [Snap(a).effect EXCEPT !.upd = {}])
  <2>1. PICK s \in Plan : \/ Snap(a) = SnapAction(Written(s), "start")
                          \/ Snap(a) = SnapAction(Written(s), "end")
    BY ActionStep
  <2>2. [Snap(a).effect EXCEPT !.upd = {}].upd = {}
    BY <2>1 DEF SnapAction, Effects
  <2> QED
    BY <2>2 DEF Claim
<1>2. \/ c = Claim(a, {}, {}, [NoEffect EXCEPT !.upd = Snap(a).effect.upd])
      \/ c \in {Claim(a, {w.written}, IF mark THEN w.cond ELSE {}, w.effect) : w \in FiredBy(a)}
      \/ c \in {Claim(Name(m), {m[2].written}, {}, m[2].effect) : m \in MonitorsOfEnd(a)}
  BY <1>1 DEF ClaimsOf
<1>3. CASE c = Claim(a, {}, {}, [NoEffect EXCEPT !.upd = Snap(a).effect.upd])
  BY <1>3 DEF Claim, OwnClaim
<1>4. CASE c \in {Claim(a, {w.written}, IF mark THEN w.cond ELSE {}, w.effect) : w \in FiredBy(a)}
  <2>1. PICK w \in FiredBy(a) : c = Claim(a, {w.written}, IF mark THEN w.cond ELSE {}, w.effect)
    BY <1>4
  <2>2. c.by = a /\ c.from = {w.written}
    BY <2>1 DEF Claim
  <2> QED
    BY <2>1, <2>2 DEF FiredClaim
<1>5. CASE c \in {Claim(Name(m), {m[2].written}, {}, m[2].effect) : m \in MonitorsOfEnd(a)}
  <2>1. PICK m \in MonitorsOfEnd(a) : c = Claim(Name(m), {m[2].written}, {}, m[2].effect)
    BY <1>5
  <2>2. c.by = Name(m) /\ c.from = {m[2].written}
    BY <2>1 DEF Claim
  <2>3. Name(m) = <<a[1], "monitor", m[2].written>> /\ a[2] = "end"
    BY Determined
  <2> QED
    BY <2>1, <2>2, <2>3 DEF MonitorClaim
<1> QED
  BY <1>2, <1>3, <1>4, <1>5

\* A claim with an update is known by what it is of and from, and so is its action.
LEMMA ClaimTold ==
  ASSUME problem \in Problems, NEW t, NEW a \in ActionsAt(t), NEW b \in ActionsAt(t), NEW mark,
         NEW c \in ClaimsOf(a, mark), c.upd # {}, NEW d \in ClaimsOf(b, mark), d.upd # {},
         c.by = d.by
  PROVE  a = b /\ (c.from = d.from => c = d)
<1> DEFINE Plain(e, x) == e.by = x
           Spans(e, x) == \E m \in MonitorsOfEnd(x) :
                              e.by = <<x[1], "monitor", m[2].written>> /\ x[2] = "end"
<1>1. /\ Plain(c, a) \/ Spans(c, a)
      /\ Plain(d, b) \/ Spans(d, b)
  BY ClaimShape DEF OwnClaim, FiredClaim, MonitorClaim
<1>2. /\ a = <<a[1], a[2]>> /\ a[2] \in {"start", "end"}
      /\ b = <<b[1], b[2]>> /\ b[2] \in {"start", "end"}
  BY Determined
<1>3. ASSUME NEW e, NEW x \in ActionsAt(t), Plain(e, x), NEW y \in ActionsAt(t), Spans(e, y) PROVE FALSE
  <2>1. e.by[2] = "monitor"
    BY <1>3
  <2>2. x[2] \in {"start", "end"}
    BY Determined
  <2> QED
    BY <1>3, <2>1, <2>2
<1>4. a = b
  <2>1. CASE Plain(c, a) /\ Plain(d, b)
    BY <2>1
  <2>2. CASE Spans(c, a) /\ Spans(d, b)
    <3>1. PICK m \in MonitorsOfEnd(a) : c.by = <<a[1], "monitor", m[2].written>> /\ a[2] = "end"
      BY <2>2
    <3>2. PICK k \in MonitorsOfEnd(b) : d.by = <<b[1], "monitor", k[2].written>> /\ b[2] = "end"
      BY <2>2
    <3>3. a[1] = b[1]
      <4>1. <<a[1], "monitor", m[2].written>> = <<b[1], "monitor", k[2].written>>
        BY <3>1, <3>2
      <4> QED
        BY <4>1
    <3> QED
      BY <1>2, <3>1, <3>2, <3>3
  <2>3. CASE Plain(c, a) /\ Spans(d, b)
    <3>1. Plain(d, a)
      BY <2>3
    <3> HIDE DEF Plain, Spans
    <3> QED
      BY <1>3, <2>3, <3>1
  <2>4. CASE Spans(c, a) /\ Plain(d, b)
    <3>1. Plain(c, b)
      BY <2>4
    <3> HIDE DEF Plain, Spans
    <3> QED
      BY <1>3, <2>4, <3>1
  <2> HIDE DEF Plain, Spans
  <2> QED
    BY <1>1, <2>1, <2>2, <2>3, <2>4
<1> DEFINE First(e) == OwnClaim(e, a)
           Second(e, w) == FiredClaim(e, a, mark, w)
           Third(e, m) == MonitorClaim(e, a, m)
<1>5. ASSUME c.from = d.from PROVE c = d
  <2>1. ASSUME NEW e \in ClaimsOf(a, mark), e.upd # {}
        PROVE  First(e) \/ (\E w \in FiredBy(a) : Second(e, w)) \/ (\E m \in MonitorsOfEnd(a) : Third(e, m))
    BY <2>1, ClaimShape
  <2>2. \A e, m : Third(e, m) => e.by # a
    <3>1. \A w : <<a[1], "monitor", w>> # a
      <4> SUFFICES ASSUME NEW w, <<a[1], "monitor", w>> = a PROVE FALSE
        OBVIOUS
      <4>1. a[2] = "monitor"
        OBVIOUS
      <4> QED
        BY <1>2, <4>1
    <3> QED
      BY <3>1 DEF MonitorClaim
  <2>3. CASE First(c)
    <3>1. First(d)
      <4>1. d.by = a /\ d.from = {}
        BY <1>5, <2>3 DEF OwnClaim
      <4>2. \A w : ~Second(d, w)
        BY <4>1 DEF FiredClaim
      <4>3. \A m : ~Third(d, m)
        BY <2>2, <4>1
      <4> HIDE DEF First, Second, Third
      <4> QED
        BY <1>4, <2>1, <4>2, <4>3
    <3> QED
      BY <2>3, <3>1 DEF OwnClaim
  <2>4. ASSUME NEW w \in FiredBy(a), Second(c, w) PROVE c = d
    <3>1. d.by = a /\ d.from = {w.written}
      BY <1>5, <2>4 DEF FiredClaim
    <3>2. ~First(d) /\ \A m : ~Third(d, m)
      BY <2>2, <3>1 DEF OwnClaim
    <3>3. PICK v \in FiredBy(a) : Second(d, v)
      <4> HIDE DEF First, Second, Third
      <4> QED
        BY <1>4, <2>1, <3>2
    <3>4. v.written = w.written
      BY <3>1, <3>3 DEF FiredClaim
    <3>5. v = w
      BY <3>4, Determined
    <3> QED
      BY <2>4, <3>3, <3>5 DEF FiredClaim
  <2>5. ASSUME NEW m \in MonitorsOfEnd(a), Third(c, m) PROVE c = d
    <3>1. c.by # a
      BY <2>2, <2>5
    <3>2. ~First(d) /\ \A w : ~Second(d, w)
      BY <3>1 DEF OwnClaim, FiredClaim
    <3>3. PICK k \in MonitorsOfEnd(a) : Third(d, k)
      <4> HIDE DEF First, Second, Third
      <4> QED
        BY <1>4, <2>1, <3>2
    <3>4. k[2].written = m[2].written
      BY <1>5, <2>5, <3>3 DEF MonitorClaim
    <3>5. k = m
      BY <3>4, Determined
    <3> QED
      BY <2>5, <3>3, <3>5 DEF MonitorClaim
  <2> HIDE DEF First, Second, Third
  <2> QED
    BY <2>1, <2>3, <2>4, <2>5
<1> QED
  BY <1>4, <1>5

\* A sequence is mapped: what is told apart before is told apart after.
LEMMA OnceMapped ==
  ASSUME NEW S, NEW s \in Seq(S), NEW g, NEW u, IsMapped(u, s, g),
         \A i, j \in 1..Len(s) : s[i] = s[j] => i = j,
         NEW P, \A y, z \in S : g[y] = g[z] /\ g[y] \in P => y = z
  PROVE  Once(u, P)
<1>1. /\ Len(u) = Len(s) /\ Len(s) \in Nat
      /\ \A i \in 1..Len(s) : s[i] \in S /\ u[i] = g[s[i]]
  BY Mapped
<1>2. ASSUME NEW i \in 1..Len(s), NEW j \in 1..Len(s), u[i] = u[j], u[i] \in P PROVE i = j
  <2>1. s[i] = s[j]
    BY <1>1, <1>2
  <2> QED
    BY <2>1
<1> QED
  BY <1>1, <1>2 DEF Once

\* Two sequences with nothing of P in both, one after the other.
LEMMA OnceConcat ==
  ASSUME NEW T, NEW s \in Seq(T), NEW u \in Seq(T), NEW P, Once(s, P), Once(u, P),
         \A x \in P : ~ (Has(s, x) /\ Has(u, x))
  PROVE  Once(s \o u, P)
<1>1. /\ Len(s) \in Nat /\ Len(u) \in Nat /\ Len(s \o u) = Len(s) + Len(u)
      /\ \A k \in 1..(Len(s) + Len(u)) : (s \o u)[k] = IF k <= Len(s) THEN s[k] ELSE u[k - Len(s)]
  BY ConcatHas
<1>2. ASSUME NEW k \in 1..Len(s \o u)
      PROVE  \/ k \in 1..Len(s) /\ (s \o u)[k] = s[k]
             \/ k - Len(s) \in 1..Len(u) /\ (s \o u)[k] = u[k - Len(s)]
  BY <1>1
<1>3. ASSUME NEW i \in 1..Len(s \o u), NEW j \in 1..Len(s \o u),
             (s \o u)[i] = (s \o u)[j], (s \o u)[i] \in P
      PROVE  i = j
  <2>1. CASE i \in 1..Len(s) /\ (s \o u)[i] = s[i]
    <3>1. ~ (j - Len(s) \in 1..Len(u) /\ (s \o u)[j] = u[j - Len(s)])
      BY <1>3, <2>1 DEF Has
    <3> QED
      BY <1>2, <1>3, <2>1, <3>1 DEF Once
  <2>2. CASE i - Len(s) \in 1..Len(u) /\ (s \o u)[i] = u[i - Len(s)]
    <3>1. ~ (j \in 1..Len(s) /\ (s \o u)[j] = s[j])
      BY <1>3, <2>2 DEF Has
    <3>2. i - Len(s) = j - Len(s)
      BY <1>2, <1>3, <2>2, <3>1 DEF Once
    <3> QED
      BY <1>1, <3>2
  <2> QED
    BY <1>2, <2>1, <2>2
<1> QED
  BY <1>3 DEF Once

\* One element is there once.
LEMMA SingleOnce ==
  ASSUME NEW c, NEW P
  PROVE  Once(<<c>>, P)
BY DEF Once

\* The claims of some set that have updates.
Updating(C) == {c \in C : c.upd # {}}

\* An action makes each of its claims with updates once.
LEMMA ClaimedOnce ==
  ASSUME problem \in Problems, NEW t, NEW a \in ActionsAt(t), NEW mark, NEW P,
         \A c \in P : c.upd # {}
  PROVE  Once(EffectClaims(a, mark), P)
<1> DEFINE T == ClaimsOf(a, mark)
           F == FiredBy(a)
           M == MonitorsOfEnd(a)
           ws == SetToSeq(F)
           ms == SetToSeq(M)
           g == [w \in F |-> Claim(a, {w.written}, IF mark THEN w.cond ELSE {}, w.effect)]
           h == [m \in M |-> Claim(Name(m), {m[2].written}, {}, m[2].effect)]
           c1 == Claim(a, {}, {}, [Snap(a).effect EXCEPT !.upd = {}])
           c3 == Claim(a, {}, {}, [NoEffect EXCEPT !.upd = Snap(a).effect.upd])
           s2 == [i \in DOMAIN ws |-> Claim(a, {ws[i].written}, IF mark THEN ws[i].cond ELSE {}, ws[i].effect)]
           s4 == [i \in DOMAIN ms |-> Claim(Name(ms[i]), {ms[i][2].written}, {}, ms[i][2].effect)]
<1>1. EffectClaims(a, mark) = ((<<c1>> \o s2) \o <<c3>>) \o s4
  BY DEF EffectClaims, FiredBy, MonitorsOfEnd
<1>2. /\ ws \in Seq(F) /\ DOMAIN ws = 1..Len(ws) /\ \A x : Has(ws, x) <=> x \in F
      /\ ms \in Seq(M) /\ DOMAIN ms = 1..Len(ms) /\ \A x : Has(ms, x) <=> x \in M
      /\ \A i, j \in 1..Len(ws) : ws[i] = ws[j] => i = j
      /\ \A i, j \in 1..Len(ms) : ms[i] = ms[j] => i = j
  BY WhensFinite, Listed
<1>3. /\ \A w \in F : g[w].from = {w.written} /\ g[w].by = a
      /\ \A m \in M : h[m].from = {m[2].written} /\ h[m].by = <<a[1], "monitor", m[2].written>>
      /\ c3.from = {} /\ c3.by = a
  <2>1. \A m \in M : Name(m) = <<a[1], "monitor", m[2].written>>
    BY Determined
  <2> QED
    BY <2>1 DEF Claim
<1>4. c1 \notin P
  <2>1. PICK s \in Plan : \/ Snap(a) = SnapAction(Written(s), "start")
                          \/ Snap(a) = SnapAction(Written(s), "end")
    BY ActionStep
  <2>2. [Snap(a).effect EXCEPT !.upd = {}].upd = {}
    BY <2>1 DEF SnapAction, Effects
  <2> QED
    BY <2>2 DEF Claim
<1>5. /\ \A v, w \in F : g[v] = g[w] => v = w
      /\ \A k, m \in M : h[k] = h[m] => k = m
  <2>1. ASSUME NEW v \in F, NEW w \in F, g[v] = g[w] PROVE v = w
    <3>1. {v.written} = {w.written}
      BY <1>3, <2>1
    <3>2. v.written = w.written
      BY <3>1
    <3> QED
      BY <3>2, Determined
  <2>2. ASSUME NEW k \in M, NEW m \in M, h[k] = h[m] PROVE k = m
    <3>1. {k[2].written} = {m[2].written}
      BY <1>3, <2>2
    <3>2. k[2].written = m[2].written
      BY <3>1
    <3> QED
      BY <3>2, Determined
  <2> QED
    BY <2>1, <2>2
<1>6. /\ \A w \in F : g[w] # c3
      /\ \A m \in M : h[m] # c3 /\ \A w \in F : g[w] # h[m]
  <2>1. \A w \in F : g[w] # c3
    BY <1>3
  <2>2. \A m \in M : h[m].from # {}
    BY <1>3
  <2>3. \A m \in M : h[m] # c3
    BY <1>3, <2>2
  <2>4. ASSUME NEW m \in M PROVE h[m].by # a
    <3>1. a[2] \in {"start", "end"}
      BY Determined
    <3> DEFINE b == h[m].by
    <3>2. b = <<a[1], "monitor", m[2].written>>
      BY <1>3
    <3> HIDE DEF b
    <3>3. b[2] = "monitor"
      BY <3>2
    <3> QED
      BY <3>1, <3>3 DEF b
  <2>5. \A m \in M : \A w \in F : g[w] # h[m]
    BY <1>3, <2>4
  <2> QED
    BY <2>1, <2>3, <2>5
<1>7. /\ g \in [F -> T] /\ h \in [M -> T] /\ c1 \in T /\ c3 \in T
  <2> HIDE DEF F, M, c1, c3
  <2> QED
    BY DEF ClaimsOf, c1, c3, F, M
<1> HIDE DEF ws, ms
<1>8. IsMapped(s2, ws, g) /\ IsMapped(s4, ms, h)
  <2>1. (\A i \in DOMAIN ws : ws[i] \in F) /\ (\A i \in DOMAIN ms : ms[i] \in M)
    BY <1>2
  <2> HIDE DEF F, M
  <2> QED
    BY <2>1 DEF IsMapped
<1> HIDE DEF F, M, T, g, h, c1, c3, s2, s4
<1>9. /\ s2 \in Seq(T) /\ \A x : Has(s2, x) => \E w \in F : x = g[w]
      /\ s4 \in Seq(T) /\ \A x : Has(s4, x) => \E m \in M : x = h[m]
  <2>1. \A x : Has(s2, x) <=> \E w \in F : Has(ws, w) /\ x = g[w]
    BY <1>2, <1>8, Mapped
  <2>2. \A x : Has(s4, x) <=> \E m \in M : Has(ms, m) /\ x = h[m]
    BY <1>2, <1>8, Mapped
  <2>3. (\A w \in F : g[w] \in T) /\ (\A m \in M : h[m] \in T)
    BY <1>7
  <2>4. s2 \in Seq(T) /\ s4 \in Seq(T)
    BY <1>2, <1>8, <2>3, MappedTyped
  <2> QED
    BY <2>1, <2>2, <2>4
<1>10. Once(s2, P) /\ Once(s4, P)
  <2>1. Once(s2, P)
    BY <1>2, <1>5, <1>8, OnceMapped
  <2>2. Once(s4, P)
    BY <1>2, <1>5, <1>8, OnceMapped
  <2> QED
    BY <2>1, <2>2
<1>11. /\ <<c1>> \in Seq(T) /\ \A x : Has(<<c1>>, x) <=> x = c1
       /\ <<c3>> \in Seq(T) /\ \A x : Has(<<c3>>, x) <=> x = c3
       /\ Once(<<c1>>, P) /\ Once(<<c3>>, P)
  BY <1>7, SingleHas, SingleOnce
<1> DEFINE q1 == <<c1>>
           q3 == <<c3>>
           u1 == q1 \o s2
           u2 == u1 \o q3
<1>12. /\ q1 \in Seq(T) /\ q3 \in Seq(T) /\ Once(q1, P) /\ Once(q3, P)
       /\ \A x : Has(q1, x) <=> x = c1
       /\ \A x : Has(q3, x) <=> x = c3
  BY <1>11
<1> HIDE DEF q1, q3
<1>13. Once(u1, P) /\ u1 \in Seq(T) /\ \A x : Has(u1, x) <=> Has(q1, x) \/ Has(s2, x)
  <2>1. \A x \in P : ~ (Has(q1, x) /\ Has(s2, x))
    BY <1>4, <1>12
  <2>2. u1 \in Seq(T) /\ \A x : Has(u1, x) <=> Has(q1, x) \/ Has(s2, x)
    BY <1>9, <1>12, ConcatHas
  <2>3. Once(u1, P)
    BY <1>9, <1>10, <1>12, <2>1, OnceConcat
  <2> QED
    BY <2>2, <2>3
<1> HIDE DEF u1
<1>14. Once(u2, P) /\ u2 \in Seq(T) /\ \A x : Has(u2, x) <=> Has(u1, x) \/ Has(q3, x)
  <2>1. \A x \in P : ~ (Has(u1, x) /\ Has(q3, x))
    BY <1>4, <1>6, <1>9, <1>12, <1>13
  <2>2. u2 \in Seq(T) /\ \A x : Has(u2, x) <=> Has(u1, x) \/ Has(q3, x)
    BY <1>12, <1>13, ConcatHas
  <2>3. Once(u2, P)
    BY <1>12, <1>13, <2>1, OnceConcat
  <2> QED
    BY <2>2, <2>3
<1> HIDE DEF u2
<1>15. \A x \in P : ~ (Has(u2, x) /\ Has(s4, x))
  BY <1>4, <1>6, <1>9, <1>12, <1>13, <1>14
<1>16. Once(u2 \o s4, P)
  BY <1>9, <1>10, <1>14, <1>15, OnceConcat
<1> QED
  BY <1>1, <1>16 DEF u2, u1, q1, q3

\* A happening makes each of its claims with updates once.
LEMMA ClaimsOnce ==
  ASSUME problem \in Problems, NEW t, NEW order \in Orders(t), NEW mark, mark = (Len(order) > 1)
  PROVE  Once(Claims(order), Updating(AllClaims(t, mark)))
<1> DEFINE T == AllClaims(t, mark)
           P == Updating(T)
           A == ActionsAt(t)
           n == Len(order)
           ss == [i \in 1..n |-> EffectClaims(order[i], mark)]
<1>1. /\ n \in Nat /\ order \in Seq(A) /\ \A a : Has(order, a) <=> a \in A
      /\ \A i, j \in 1..n : order[i] = order[j] => i = j
  BY Ordered
<1>2. \A i \in 1..n : order[i] \in A
  BY <1>1
<1>3. \A a \in A : /\ EffectClaims(a, mark) \in Seq(ClaimsOf(a, mark))
                   /\ ClaimsOf(a, mark) \subseteq T
                   /\ \A c : Has(EffectClaims(a, mark), c) <=> c \in ClaimsOf(a, mark)
  BY EffectsClaimed DEF AllClaims
<1>4. \A a \in A : EffectClaims(a, mark) \in Seq(T)
  BY <1>3
<1>5. \A c \in P : c.upd # {}
  BY DEF Updating
<1>6. \A a \in A : Once(EffectClaims(a, mark), P)
  BY <1>5, ClaimedOnce
<1>7. ASSUME NEW a \in A, NEW b \in A, NEW c \in P, c \in ClaimsOf(a, mark), c \in ClaimsOf(b, mark)
      PROVE  a = b
  BY <1>5, <1>7, ClaimTold
<1> HIDE DEF A, T, P
<1>8. ss \in Seq(Seq(T)) /\ Len(ss) = n /\ \A i \in 1..n : ss[i] = EffectClaims(order[i], mark)
  <2>1. \A i \in 1..n : EffectClaims(order[i], mark) \in Seq(T)
    BY <1>2, <1>4
  <2>2. n \in Nat
    BY <1>1
  <2> HIDE DEF n
  <2> QED
    BY <2>1, <2>2
<1>9. Claims(order) = FlattenSeq(ss)
  BY DEF Claims
<1> HIDE DEF ss
<1>10. \A i \in 1..n : Once(ss[i], P)
  BY <1>2, <1>6, <1>8
<1>11. ASSUME NEW i \in 1..n, NEW j \in 1..n, NEW x \in P, Has(ss[i], x), Has(ss[j], x) PROVE i = j
  <2>1. order[i] \in A /\ order[j] \in A /\ x \in ClaimsOf(order[i], mark) /\ x \in ClaimsOf(order[j], mark)
    BY <1>2, <1>3, <1>8, <1>11
  <2>2. order[i] = order[j]
    BY <1>7, <2>1
  <2> QED
    BY <1>1, <2>2
<1>12. Once(FlattenSeq(ss), P)
  BY <1>8, <1>10, <1>11, Flattened
<1> QED
  BY <1>9, <1>12 DEF P, T

\* U has the elements of the sets q[1] to q[n], which have one each at most and
\* none in common.
Gathers(q, n, U) ==
    /\ \A x : x \in U <=> \E i \in 1..n : x \in q[i]
    /\ \A i, j \in 1..n : \A x \in q[i], y \in q[j] : (i = j => x = y) /\ (x = y => i = j)

\* v changes by G of what is in the sets, one after the other.
Running(v, q, n, G) ==
    /\ v[0] \in Int
    /\ \A i \in 1..n : /\ q[i] = {} => v[i] = v[i - 1]
                      /\ \A x \in q[i] : v[i] = v[i - 1] + G[x]

\* What one adds up in the order of the sets is the sum over all of them.
LEMMA RunningSum ==
  ASSUME NEW n \in Nat, NEW q, NEW U, Gathers(q, n, U), NEW G \in [U -> Int],
         NEW v, Running(v, q, n, G)
  PROVE  v[n] = v[0] + SumFunction(G)
<1>0. /\ v[0] \in Int
      /\ \A i \in 1..n : /\ q[i] = {} => v[i] = v[i - 1]
                        /\ \A x \in q[i] : v[i] = v[i - 1] + G[x]
  BY DEF Running
<1> DEFINE W(m) == {x \in U : \E i \in 1..m : x \in q[i]}
<1>1. ASSUME NEW m \in Nat, m + 1 <= n
      PROVE  /\ m + 1 \in 1..n /\ (m + 1) - 1 = m
             /\ q[m + 1] = {} => W(m + 1) = W(m)
             /\ \A x \in q[m + 1] : /\ W(m + 1) = W(m) \cup {x} /\ W(m) = W(m + 1) \ {x}
                                    /\ x \in W(m + 1)
  <2>1. /\ m + 1 \in 1..n /\ (m + 1) - 1 = m
        /\ \A i : i \in 1..(m + 1) <=> i \in 1..m \/ i = m + 1
        /\ \A i \in 1..m : i \in 1..n /\ i # m + 1
    BY <1>1
  <2>2. q[m + 1] = {} => W(m + 1) = W(m)
    BY <2>1
  <2>3. ASSUME NEW x \in q[m + 1]
        PROVE  W(m + 1) = W(m) \cup {x} /\ W(m) = W(m + 1) \ {x} /\ x \in W(m + 1)
    <3>1. x \in U /\ (\A y \in q[m + 1] : y = x) /\ x \notin W(m)
      BY <2>1 DEF Gathers
    <3>2. \A y : y \in W(m + 1) <=> y \in W(m) \/ y = x
      BY <2>1, <3>1
    <3> HIDE DEF W
    <3> QED
      BY <3>1, <3>2
  <2> HIDE DEF W
  <2> QED
    BY <2>1, <2>2, <2>3
<1>2. W(0) = {} /\ W(n) = U
  <2>1. 1..0 = {}
    OBVIOUS
  <2> QED
    BY <2>1 DEF Gathers
<1> HIDE DEF W
<1> DEFINE S == {m \in Nat : m <= n => IsFiniteSet(W(m))}
<1>3. 0 \in S
  BY <1>2, FS_EmptySet
<1>4. ASSUME NEW m \in S PROVE m + 1 \in S
  <2> SUFFICES ASSUME m + 1 <= n PROVE IsFiniteSet(W(m + 1))
    OBVIOUS
  <2>1. m \in Nat /\ IsFiniteSet(W(m))
    OBVIOUS
  <2>2. CASE q[m + 1] = {}
    BY <1>1, <2>1, <2>2
  <2>3. ASSUME NEW x \in q[m + 1] PROVE IsFiniteSet(W(m + 1))
    <3>1. W(m + 1) = W(m) \cup {x}
      BY <1>1, <2>1
    <3> QED
      BY <2>1, <3>1, FS_AddElement
  <2> QED
    BY <2>2, <2>3
<1>5. \A m \in Nat : m \in S
  <2>1. S \in SUBSET Nat
    OBVIOUS
  <2> HIDE DEF S
  <2> QED
    BY <1>3, <1>4, <2>1, AllNumbers
<1>6. IsFiniteSet(U)
  BY <1>2, <1>5
<1>7. PICK it \in [SUBSET U -> Int] :
            /\ it[{}] = 0
            /\ \A s \in SUBSET U : \A x \in s : it[s] = G[x] + it[s \ {x}]
            /\ SumFunction(G) = it[U]
  BY <1>6, SumSteps
<1>8. \A m : W(m) \in SUBSET U
  BY DEF W
<1> DEFINE K == {m \in Nat : m <= n => v[m] = v[0] + it[W(m)]}
<1>9. 0 \in K
  <2>1. it[W(0)] = 0
    BY <1>2, <1>7
  <2>2. v[0] = v[0] + it[W(0)]
    BY <1>0, <2>1
  <2> QED
    BY <2>2
<1>10. ASSUME NEW m \in K PROVE m + 1 \in K
  <2> SUFFICES ASSUME m + 1 <= n PROVE v[m + 1] = v[0] + it[W(m + 1)]
    OBVIOUS
  <2>1. m \in Nat /\ v[m] = v[0] + it[W(m)] /\ it[W(m)] \in Int
    BY <1>7, <1>8
  <2>2. CASE q[m + 1] = {}
    <3>1. W(m + 1) = W(m) /\ v[m + 1] = v[m]
      BY <1>0, <1>1, <2>1, <2>2
    <3> QED
      BY <2>1, <3>1
  <2>3. ASSUME NEW x \in q[m + 1] PROVE v[m + 1] = v[0] + it[W(m + 1)]
    <3>1. W(m) = W(m + 1) \ {x} /\ x \in W(m + 1) /\ v[m + 1] = v[m] + G[x]
      <4>1. m + 1 \in 1..n /\ (m + 1) - 1 = m
        BY <1>1, <2>1
      <4>2. v[m + 1] = v[(m + 1) - 1] + G[x]
        BY <1>0, <4>1
      <4>3. v[m + 1] = v[m] + G[x]
        BY <4>1, <4>2
      <4> QED
        BY <1>1, <2>1, <4>3
    <3> DEFINE s == W(m + 1)
    <3>a. s \in SUBSET U /\ x \in s /\ W(m) = s \ {x}
      BY <1>8, <3>1
    <3> HIDE DEF s
    <3>b. it[s] = G[x] + it[s \ {x}] /\ G[x] \in Int
      <4>1. x \in U
        BY <3>a
      <4>2. it[s] = G[x] + it[s \ {x}]
        BY <1>7, <3>a
      <4> QED
        BY <4>1, <4>2
    <3>2. it[W(m + 1)] = G[x] + it[W(m)]
      BY <3>a, <3>b DEF s
    <3>3. G[x] \in Int
      BY <3>b
    <3>4. v[0] \in Int
      BY <1>0
    <3> QED
      BY <2>1, <3>1, <3>2, <3>3, <3>4
  <2> QED
    BY <2>2, <2>3
<1>11. \A m \in Nat : m \in K
  <2>1. K \in SUBSET Nat
    OBVIOUS
  <2> HIDE DEF K
  <2> QED
    BY <1>9, <1>10, <2>1, AllNumbers
<1>12. v[n] = v[0] + it[W(n)]
  BY <1>11
<1> QED
  BY <1>2, <1>7, <1>12

\* The updates of f that the claim c has, with who they are of and from.
Parts(c, f) == {<<c.by, u, c.from>> : u \in UpdatesOf(c, f)}
Change(u) == IF u[2].op = "decrease" THEN - ValueOf(u[2]) ELSE ValueOf(u[2])

\* A fluent that is assigned has that value afterwards.
LEMMA AssignedValue ==
  ASSUME NEW C, AreClaims(C), NEW claims \in Seq(C), values \in Valuations, NEW f \in Fluents,
         NEW u, u.op = "assign", \A c \in C : \A w \in UpdatesOf(c, f) : w = u,
         NEW d, Has(claims, d), u \in UpdatesOf(d, f)
  PROVE  EnactUpdates(claims)[f] = ValueOf(u)
<1> DEFINE n == Len(claims)
<1>1. PICK vs : /\ n \in Nat
                /\ \A i \in 0..n : vs[i] \in Valuations
                /\ vs[0] = values /\ vs[n] = EnactUpdates(claims)
                /\ \A i \in 1..n : vs[i] = Update(vs[i - 1], claims[i]) /\ claims[i] \in C
  BY EnactSteps
<1>2. PICK k \in 1..n : claims[k] = d
  BY DEF Has
<1> HIDE DEF n
<1>3. ASSUME NEW i \in 1..n
      PROVE  /\ UpdatesOf(claims[i], f) = {} => vs[i][f] = vs[i - 1][f]
             /\ UpdatesOf(claims[i], f) # {} => vs[i][f] = ValueOf(u)
  <2>1. /\ i - 1 \in 0..n /\ vs[i - 1] \in Valuations /\ claims[i] \in C
        /\ vs[i] = Update(vs[i - 1], claims[i])
    BY <1>1
  <2>2. /\ UpdatesOf(claims[i], f) = {} => vs[i][f] = vs[i - 1][f]
        /\ \A w \in UpdatesOf(claims[i], f) : vs[i][f] = NewValue(vs[i - 1][f], w)
    BY <2>1, UpdateTyped
  <2>3. ASSUME NEW w \in UpdatesOf(claims[i], f) PROVE vs[i][f] = ValueOf(u)
    <3>1. w = u
      BY <2>1
    <3> QED
      BY <2>2, <3>1 DEF NewValue
  <2> QED
    BY <2>2, <2>3
<1> DEFINE S == {i \in Nat : k <= i /\ i <= n => vs[i][f] = ValueOf(u)}
<1>4. 0 \in S
  BY <1>1, <1>2
<1>5. ASSUME NEW i \in S PROVE i + 1 \in S
  <2> SUFFICES ASSUME k <= i + 1, i + 1 <= n PROVE vs[i + 1][f] = ValueOf(u)
    OBVIOUS
  <2>1. i + 1 \in 1..n /\ (i + 1) - 1 = i
    BY <1>1
  <2>2. CASE i + 1 = k
    BY <1>2, <1>3, <2>2
  <2>3. CASE i + 1 # k
    <3>1. k <= i /\ i <= n
      BY <1>1, <1>2, <2>3
    <3>2. vs[i][f] = ValueOf(u)
      BY <3>1
    <3> QED
      BY <1>3, <2>1, <3>2
  <2> QED
    BY <2>2, <2>3
<1>6. \A i \in Nat : i \in S
  <2>1. S \in SUBSET Nat
    OBVIOUS
  <2> HIDE DEF S
  <2> QED
    BY <1>4, <1>5, <2>1, AllNumbers
<1>7. vs[n][f] = ValueOf(u)
  BY <1>1, <1>2, <1>6
<1> QED
  BY <1>1, <1>7

\* A fluent that is increased and decreased changes by the sum of all of it.
LEMMA AddedValue ==
  ASSUME NEW C, AreClaims(C), NEW claims \in Seq(C), values \in Valuations, NEW f \in Fluents,
         OnlyAdditive(C, f), Once(claims, Updating(C)),
         \A c, d \in Updating(C) : c.by = d.by /\ c.from = d.from => c = d,
         NEW U, \A x : x \in U <=> \E c \in C : Has(claims, c) /\ x \in Parts(c, f)
  PROVE  EnactUpdates(claims)[f] = values[f] + SumFunction([x \in U |-> Change(x)])
<1> DEFINE n == Len(claims)
           G == [x \in U |-> Change(x)]
<1>1. PICK vs : /\ n \in Nat
                /\ \A i \in 0..n : vs[i] \in Valuations
                /\ vs[0] = values /\ vs[n] = EnactUpdates(claims)
                /\ \A i \in 1..n : vs[i] = Update(vs[i - 1], claims[i]) /\ claims[i] \in C
  BY EnactSteps
<1> DEFINE q == [i \in 1..n |-> Parts(claims[i], f)]
           v == [i \in 0..n |-> vs[i][f]]
<1>2. ASSUME NEW c \in C, NEW u \in UpdatesOf(c, f)
      PROVE  /\ c \in Updating(C) /\ ValueOf(u) \in Int /\ u.op \in {"increase", "decrease"}
             /\ \A w \in UpdatesOf(c, f) : w = u
  <2>1. u \in c.upd /\ c \in Updating(C)
    BY DEF UpdatesOf, Updating
  <2>2. ValueOf(u) \in Int
    BY <2>1, UpdateTyped
  <2>3. u.op \in {"increase", "decrease"}
    BY DEF OnlyAdditive, Additive
  <2>4. \A w \in UpdatesOf(c, f) : w = u
    BY DEF AreClaims, IsEffect, UpdatesOf
  <2> QED
    BY <2>1, <2>2, <2>3, <2>4
<1>3. Gathers(q, n, U)
  <2>1. \A x : x \in U <=> \E i \in 1..n : x \in q[i]
    BY <1>1 DEF Has
  <2>2. ASSUME NEW i \in 1..n, NEW j \in 1..n, NEW x \in q[i], NEW y \in q[j]
        PROVE  (i = j => x = y) /\ (x = y => i = j)
    <3>1. PICK u \in UpdatesOf(claims[i], f) : x = <<claims[i].by, u, claims[i].from>>
      BY DEF Parts
    <3>2. PICK w \in UpdatesOf(claims[j], f) : y = <<claims[j].by, w, claims[j].from>>
      BY DEF Parts
    <3>3. i = j => x = y
      BY <1>1, <1>2, <3>1, <3>2
    <3>4. ASSUME x = y PROVE i = j
      <4>1. <<claims[i].by, u, claims[i].from>> = <<claims[j].by, w, claims[j].from>>
        BY <3>1, <3>2, <3>4
      <4>2. claims[i].by = claims[j].by /\ claims[i].from = claims[j].from
        BY <4>1
      <4>3. claims[i] \in Updating(C) /\ claims[j] \in Updating(C)
        BY <1>1, <1>2
      <4>4. claims[i] = claims[j]
        BY <4>2, <4>3
      <4> QED
        BY <4>3, <4>4 DEF Once
    <3> QED
      BY <3>3, <3>4
  <2> HIDE DEF q, n
  <2> QED
    BY <2>1, <2>2 DEF Gathers
<1>4. ASSUME NEW c \in C, NEW u \in UpdatesOf(c, f), NEW x, x = <<c.by, u, c.from>>, NEW a \in Int
      PROVE  Change(x) \in Int /\ NewValue(a, u) = a + Change(x)
  <2>1. ValueOf(u) \in Int /\ u.op \in {"increase", "decrease"} /\ x[2] = u
    BY <1>2, <1>4
  <2> DEFINE b == ValueOf(u)
  <2>2. b \in Int /\ (u.op = "increase" \/ u.op = "decrease")
    BY <2>1
  <2>3. Change(x) = IF u.op = "decrease" THEN - b ELSE b
    BY <2>1 DEF Change
  <2>4. (u.op = "increase" => NewValue(a, u) = a + b) /\ (u.op = "decrease" => NewValue(a, u) = a - b)
    BY DEF NewValue
  <2> HIDE DEF b
  <2> QED
    BY <2>2, <2>3, <2>4
<1>5. G \in [U -> Int]
  <2>1. ASSUME NEW x \in U PROVE Change(x) \in Int
    <3>1. PICK c \in C : x \in Parts(c, f)
      OBVIOUS
    <3>2. PICK u \in UpdatesOf(c, f) : x = <<c.by, u, c.from>>
      BY <3>1 DEF Parts
    <3> QED
      BY <1>4, <3>2
  <2> QED
    BY <2>1
<1> HIDE DEF n
<1>6. \A i \in 0..n : v[i] \in Int /\ v[i] = vs[i][f]
  BY <1>1 DEF Valuations
<1>7. ASSUME NEW i \in 1..n
      PROVE  /\ q[i] = {} => v[i] = v[i - 1]
             /\ \A x \in q[i] : v[i] = v[i - 1] + G[x]
  <2>1. /\ i - 1 \in 0..n /\ i \in 0..n /\ vs[i - 1] \in Valuations /\ claims[i] \in C
        /\ vs[i] = Update(vs[i - 1], claims[i])
    BY <1>1
  <2>2. /\ v[i] = vs[i][f] /\ v[i - 1] = vs[i - 1][f] /\ v[i - 1] \in Int /\ q[i] = Parts(claims[i], f)
    BY <1>6, <2>1
  <2> HIDE DEF v
  <2>3. /\ UpdatesOf(claims[i], f) = {} => v[i] = v[i - 1]
        /\ \A w \in UpdatesOf(claims[i], f) : v[i] = NewValue(v[i - 1], w)
    BY <2>1, <2>2, UpdateTyped
  <2>4. q[i] = {} => v[i] = v[i - 1]
    <3>1. \A u \in UpdatesOf(claims[i], f) : <<claims[i].by, u, claims[i].from>> \in q[i]
      BY <2>2 DEF Parts
    <3> QED
      BY <2>3, <3>1
  <2>5. ASSUME NEW x \in q[i] PROVE v[i] = v[i - 1] + G[x]
    <3>1. PICK u \in UpdatesOf(claims[i], f) : x = <<claims[i].by, u, claims[i].from>>
      BY <2>2 DEF Parts
    <3>2. v[i] = v[i - 1] + Change(x)
      BY <1>4, <2>1, <2>2, <2>3, <3>1
    <3>3. x \in U
      BY <1>3, <2>5 DEF Gathers
    <3>4. G[x] = Change(x)
      BY <3>3
    <3> QED
      BY <3>2, <3>4
  <2> QED
    BY <2>4, <2>5
<1>8. v[0] = values[f] /\ v[0] \in Int /\ v[n] = EnactUpdates(claims)[f]
  <2>1. 0 \in 0..n /\ n \in 0..n
    BY <1>1
  <2> QED
    BY <1>1, <1>6, <2>1
<1> HIDE DEF v, q, G
<1>9. v[n] = v[0] + SumFunction(G)
  <2>1. \A i \in 1..n : /\ q[i] = {} => v[i] = v[i - 1]
                        /\ \A x \in q[i] : v[i] = v[i - 1] + G[x]
    BY <1>7
  <2>2. n \in Nat /\ v[0] \in Int
    BY <1>1, <1>8
  <2>3. Running(v, q, n, G)
    BY <2>1, <2>2 DEF Running
  <2> QED
    BY <1>3, <1>5, <2>2, <2>3, RunningSum
<1> QED
  BY <1>8, <1>9 DEF G

\* The updates of f at t.
UpdatesAt(f, t) == {u \in UpdatedAt(t) : u[2].fluent = f}

\* What a fluent is to be, in the words of the claims.
LEMMA ValueMeant ==
  ASSUME NEW t, Due(t), NEW f
  PROVE  ValueAfter(f, t) =
            IF \E u \in UpdatesAt(f, t) : u[2].op = "assign"
            THEN ValueOf((CHOOSE u \in UpdatesAt(f, t) : u[2].op = "assign")[2])
            ELSE values[f] + SumFunction([u \in UpdatesAt(f, t) |-> Change(u)])
<1> DEFINE V == Before(t).values
           S == UpdatesAt(f, t)
           amount(u) == IF u.by \in Fluents THEN V[u.by] ELSE u.by
           change(u) == IF u[2].op = "decrease" THEN - amount(u[2]) ELSE amount(u[2])
<1>1. V = values
  BY DEF Due, Inv, TraceInv, Before
<1>2. ValueAfter(f, t) =
            IF \E u \in S : u[2].op = "assign"
            THEN amount((CHOOSE u \in S : u[2].op = "assign")[2])
            ELSE V[f] + SumFunction([u \in S |-> change(u)])
  BY DEF ValueAfter, UpdatesAt
<1> HIDE DEF V, S
<1>3. \A u : amount(u) = ValueOf(u)
  BY <1>1 DEF ValueOf
<1> HIDE DEF amount
<1>4. \A u : change(u) = Change(u)
  BY <1>3 DEF Change
<1> HIDE DEF change
<1>5. [u \in S |-> change(u)] = [u \in S |-> Change(u)]
  BY <1>4
<1>6. /\ amount((CHOOSE u \in S : u[2].op = "assign")[2]) = ValueOf((CHOOSE u \in S : u[2].op = "assign")[2])
      /\ V[f] = values[f]
  BY <1>1, <1>3
<1> QED
  BY <1>2, <1>5, <1>6 DEF S

\* The updates of f at t are those of the claims.
LEMMA UpdatesClaimed ==
  ASSUME NEW t, Due(t), NEW mark, NEW f, NEW x
  PROVE  x \in UpdatesAt(f, t) <=> \E c \in AllClaims(t, mark) : x \in Parts(c, f)
<1>1. ASSUME x \in UpdatesAt(f, t) PROVE \E c \in AllClaims(t, mark) : x \in Parts(c, f)
  <2>1. x = <<x[1], x[2], x[3]>> /\ x \in UpdatedAt(t) /\ x[2].fluent = f
    BY <1>1, EffectsClaimedAt DEF UpdatesAt
  <2> DEFINE b == x[1]
             v == x[2]
             w == x[3]
  <2>2. <<b, v, w>> \in UpdatedAt(t) /\ v.fluent = f /\ x = <<b, v, w>>
    BY <2>1
  <2> HIDE DEF b, v, w
  <2>3. PICK c \in AllClaims(t, mark) : c.by = b /\ c.from = w /\ v \in c.upd
    BY <2>2, EffectsClaimedAt
  <2>4. x = <<c.by, v, c.from>> /\ v \in UpdatesOf(c, f)
    BY <2>2, <2>3 DEF UpdatesOf
  <2> QED
    BY <2>4 DEF Parts
<1>2. ASSUME NEW c \in AllClaims(t, mark), x \in Parts(c, f) PROVE x \in UpdatesAt(f, t)
  <2>1. PICK u \in UpdatesOf(c, f) : x = <<c.by, u, c.from>>
    BY <1>2 DEF Parts
  <2>2. u \in c.upd /\ u.fluent = f
    BY DEF UpdatesOf
  <2>3. <<c.by, u, c.from>> \in UpdatedAt(t)
    BY <2>2, EffectsClaimedAt
  <2>4. x[2] = u
    BY <2>1
  <2> QED
    BY <2>1, <2>2, <2>3, <2>4 DEF UpdatesAt
<1> QED
  BY <1>1, <1>2

\* A happening that is granted gives every fluent the value it is to have.
LEMMA ValueReached ==
  ASSUME NEW t, Due(t), values \in Valuations,
         NEW order \in Orders(t), AllGranted(Marked(order), Claims(order)),
         NEW f \in Fluents
  PROVE  EnactUpdates(Claims(order))[f] = ValueAfter(f, t)
<1>1. PICK mark : mark = (Len(order) > 1)
  OBVIOUS
<1> DEFINE D == Claimants(t, mark)
           A == AllClaims(t, mark)
           cs == Claims(order)
           U == UpdatesAt(f, t)
           y == CHOOSE u \in U : u[2].op = "assign"
<1>2. problem \in Problems
  BY StateBefore
<1>3. PICK own : Owned(own, D)
  BY <1>1, ClaimsOwned
<1>4. AreClaims(D) /\ A \subseteq D
  BY ClaimsTyped DEF Claimants
<1>5. AreClaims(A)
  BY <1>4 DEF AreClaims
<1>6. cs \in Seq(A) /\ (\A c : Has(cs, c) <=> c \in A) /\ Once(cs, Updating(A))
  BY <1>1, <1>2, ClaimsHave, ClaimsOnce
<1>7. FluentEntry(own[f], Requirers(D, f), Updaters(D, f), OnlyAdditive(D, f), OneUpdate(D, f))
  BY <1>3 DEF Owned, FluentOwned
<1>8. \A x : x \in U <=> \E c \in A : x \in Parts(c, f)
  BY UpdatesClaimed
<1>9. ASSUME NEW c \in Updating(A), NEW d \in Updating(A), c.by = d.by, c.from = d.from PROVE c = d
  <2>1. c \in A /\ c.upd # {} /\ d \in A /\ d.upd # {}
    BY DEF Updating
  <2>2. PICK a \in ActionsAt(t) : c \in ClaimsOf(a, mark)
    BY <2>1 DEF AllClaims
  <2>3. PICK b \in ActionsAt(t) : d \in ClaimsOf(b, mark)
    BY <2>1 DEF AllClaims
  <2> HIDE DEF A
  <2> QED
    BY <1>2, <1>9, <2>1, <2>2, <2>3, ClaimTold
<1>10. ValueAfter(f, t) = IF \E u \in U : u[2].op = "assign" THEN ValueOf(y[2])
                          ELSE values[f] + SumFunction([u \in U |-> Change(u)])
  BY ValueMeant
<1> HIDE DEF D, A, cs, U
<1>11. CASE \E u \in U : u[2].op = "assign"
  <2>1. y \in U /\ y[2].op = "assign"
    BY <1>11
  <2> HIDE DEF y
  <2>2. PICK c \in A : y \in Parts(c, f)
    BY <1>8, <2>1
  <2>3. PICK u \in UpdatesOf(c, f) : y = <<c.by, u, c.from>>
    BY <2>2 DEF Parts
  <2>4. y[2] = u /\ u.op = "assign" /\ c \in D
    BY <1>4, <2>1, <2>3
  <2>5. ~OnlyAdditive(D, f) /\ c.by \in Updaters(D, f)
    BY <2>3, <2>4 DEF OnlyAdditive, Additive, Updaters
  <2>6. OneUpdate(D, f)
    BY <1>7, <2>5 DEF FluentEntry
  <2>7. ASSUME NEW d \in A, NEW w \in UpdatesOf(d, f) PROVE w = u
    <3>1. d = c
      BY <1>4, <2>4, <2>6 DEF OneUpdate
    <3> QED
      BY <1>5, <3>1 DEF AreClaims, IsEffect, UpdatesOf
  <2>8. Has(cs, c)
    BY <1>6
  <2>9. EnactUpdates(cs)[f] = ValueOf(u)
    BY <1>5, <1>6, <2>4, <2>7, <2>8, AssignedValue
  <2> QED
    BY <1>10, <1>11, <2>4, <2>9 DEF cs
<1>12. CASE ~ \E u \in U : u[2].op = "assign"
  <2>1. ASSUME NEW c \in A, NEW u \in UpdatesOf(c, f) PROVE u.op \in Additive
    <3> DEFINE x == <<c.by, u, c.from>>
    <3>1. x \in Parts(c, f) /\ x[2] = u
      BY DEF Parts
    <3>2. u.op # "assign"
      BY <1>8, <1>12, <3>1
    <3>3. u.op \in Additive \cup {"assign"}
      BY <1>5 DEF AreClaims, IsEffect, UpdatesOf
    <3> QED
      BY <3>2, <3>3
  <2>2. OnlyAdditive(A, f)
    BY <2>1 DEF OnlyAdditive
  <2>3. \A x : x \in U <=> \E c \in A : Has(cs, c) /\ x \in Parts(c, f)
    BY <1>6, <1>8
  <2>4. EnactUpdates(cs)[f] = values[f] + SumFunction([x \in U |-> Change(x)])
    BY <1>5, <1>6, <1>9, <2>2, <2>3, AddedValue
  <2> QED
    BY <1>10, <1>12, <2>4 DEF cs
<1> QED
  BY <1>11, <1>12

\* It makes true what it is to make true.
LEMMA StateReached ==
  ASSUME NEW t, Due(t), NEW order \in Orders(t)
  PROVE  Enact(Claims(order)) = (state \ {d[2] : d \in DeletedAt(t)}) \cup {e[2] : e \in AddedAt(t)}
<1>1. PICK mark : mark = (Len(order) > 1)
  OBVIOUS
<1> DEFINE A == AllClaims(t, mark)
           cs == Claims(order)
<1>2. problem \in Problems
  BY StateBefore
<1>3. cs \in Seq(A) /\ (\A c : Has(cs, c) <=> c \in A)
  BY <1>1, <1>2, ClaimsHave
<1>4. /\ \A b, p : <<b, p>> \in AddedAt(t) <=> \E c \in A : c.by = b /\ p \in c.add
      /\ \A b, p : <<b, p>> \in DeletedAt(t) <=> \E c \in A : c.by = b /\ p \in c.del
      /\ \A x \in AddedAt(t) \cup DeletedAt(t) : x = <<x[1], x[2]>>
  BY EffectsClaimedAt
<1> DEFINE added == AddedAt(t)
           deleted == DeletedAt(t)
<1> HIDE DEF A, cs, added, deleted
<1>5. /\ \A b, p : <<b, p>> \in added <=> \E c \in A : c.by = b /\ p \in c.add
      /\ \A b, p : <<b, p>> \in deleted <=> \E c \in A : c.by = b /\ p \in c.del
      /\ \A x \in added \cup deleted : x = <<x[1], x[2]>>
  BY <1>4 DEF added, deleted
<1>6. DOMAIN cs = 1..Len(cs)
  BY <1>3
<1>7. ASSUME NEW p PROVE (\E e \in added : e[2] = p) <=> \E i \in DOMAIN cs : p \in cs[i].add
  <2>1. ASSUME NEW e \in added, e[2] = p PROVE \E i \in DOMAIN cs : p \in cs[i].add
    <3> DEFINE b == e[1]
    <3>1. <<b, p>> \in added
      BY <1>5, <2>1
    <3> HIDE DEF b
    <3>2. PICK c \in A : p \in c.add
      BY <1>5, <3>1
    <3> QED
      BY <1>3, <1>6, <3>2 DEF Has
  <2>2. ASSUME NEW i \in DOMAIN cs, p \in cs[i].add PROVE \E e \in added : e[2] = p
    <3>1. cs[i] \in A
      BY <1>3, <1>6
    <3>2. <<cs[i].by, p>> \in added
      BY <1>5, <2>2, <3>1
    <3> QED
      BY <3>2
  <2> QED
    BY <2>1, <2>2
<1>8. ASSUME NEW p PROVE (\E e \in deleted : e[2] = p) <=> \E i \in DOMAIN cs : p \in cs[i].del
  <2>1. ASSUME NEW e \in deleted, e[2] = p PROVE \E i \in DOMAIN cs : p \in cs[i].del
    <3> DEFINE b == e[1]
    <3>1. <<b, p>> \in deleted
      BY <1>5, <2>1
    <3> HIDE DEF b
    <3>2. PICK c \in A : p \in c.del
      BY <1>5, <3>1
    <3> QED
      BY <1>3, <1>6, <3>2 DEF Has
  <2>2. ASSUME NEW i \in DOMAIN cs, p \in cs[i].del PROVE \E e \in deleted : e[2] = p
    <3>1. cs[i] \in A
      BY <1>3, <1>6
    <3>2. <<cs[i].by, p>> \in deleted
      BY <1>5, <2>2, <3>1
    <3> QED
      BY <3>2
  <2> QED
    BY <2>1, <2>2
<1> DEFINE E == {e[2] : e \in added}
           L == {d[2] : d \in deleted}
           adds == UNION {cs[i].add : i \in DOMAIN cs}
           dels == UNION {cs[i].del : i \in DOMAIN cs}
<1>9. E = adds /\ L = dels
  <2>1. \A p : p \in E <=> \E e \in added : e[2] = p
    OBVIOUS
  <2>2. \A p : p \in L <=> \E d \in deleted : d[2] = p
    OBVIOUS
  <2>3. \A p : p \in adds <=> \E i \in DOMAIN cs : p \in cs[i].add
    OBVIOUS
  <2>4. \A p : p \in dels <=> \E i \in DOMAIN cs : p \in cs[i].del
    OBVIOUS
  <2> HIDE DEF E, L, adds, dels
  <2> QED
    BY <1>7, <1>8, <2>1, <2>2, <2>3, <2>4
<1>10. Enact(cs) = (state \ dels) \cup adds
  BY DEF Enact
<1> QED
  BY <1>9, <1>10 DEF cs, added, deleted

\* What StatesFollowThePlan says of the happening at t.
Reached(t) ==
    /\ After(t).state = (Before(t).state \ {d[2] : d \in DeletedAt(t)})
                            \cup {e[2] : e \in AddedAt(t)}
    /\ \A f \in Fluents : After(t).values[f] = ValueAfter(f, t)

LastReached == \A t \in Times : Number(t) + 1 = Len(trace) => Reached(t)

\* What a happening is to lead to does not change when the trace goes on.
LEMMA StillMeant ==
  ASSUME problem \in Problems, problem' = problem,
         NEW t \in Times, \A k \in 1..Number(t) : trace'[k] = trace[k]
  PROVE  /\ AddedAt(t)' = AddedAt(t) /\ DeletedAt(t)' = DeletedAt(t)
         /\ Before(t)' = Before(t) /\ Number(t)' = Number(t)
         /\ \A f \in Fluents : ValueAfter(f, t)' = ValueAfter(f, t)
<1>1. EffectsAt(t)' = EffectsAt(t)
  BY SameEffects
<1>2. AddedAt(t)' = AddedAt(t) /\ DeletedAt(t)' = DeletedAt(t) /\ UpdatedAt(t)' = UpdatedAt(t)
  BY <1>1 DEF AddedAt, DeletedAt, UpdatedAt
<1>3. Number(t)' = Number(t)
  BY PlanFixed
<1>4. Number(t) \in 1..Number(t)
  <2>1. Number(t) \in 1..Cardinality(Times) /\ Cardinality(Times) \in Nat
    BY Numbered, TimesFinite, FS_CardinalityType
  <2> QED
    BY <2>1
<1>5. Before(t)' = Before(t)
  BY <1>3, <1>4 DEF Before
<1>6. \A f \in Fluents : ValueAfter(f, t)' = ValueAfter(f, t)
  BY <1>2, <1>5 DEF ValueAfter
<1> QED
  BY <1>2, <1>3, <1>5, <1>6

\* The happening that is applied leads to what it is to lead to.
LEMMA AppliedReached ==
  ASSUME Inv, StatusInv, values \in Valuations, ExecuteRegular, trace' # trace,
         ~ContinueAnyway
  PROVE  LastReached' /\ values' \in Valuations
<1>1. PICK order \in Orders(next) :
         /\ AllGranted(Marked(order), Claims(order))
         /\ state' = Enact(Claims(order)) /\ values' = EnactUpdates(Claims(order))
         /\ trace' = Append(trace, [time |-> next, state |-> state', values |-> values'])
  BY DEF ExecuteRegular
<1>2. problem' = problem
  BY DEF ExecuteRegular
<1>3. Due(next) /\ Unfailed
  BY RegularDue
<1>4. TraceInv /\ problem \in Problems
  BY <1>3 DEF Inv
<1>5. PICK t \in Times : next = t /\ Number(t) = Len(trace) /\ Due(t)
  <2>1. next \in Times /\ Number(next) = Len(trace)
    BY <1>3 DEF Due
  <2> QED
    BY <1>3, <2>1
<1>6. /\ Len(trace) \in Nat /\ Len(trace) >= 1 /\ Len(trace') = Len(trace) + 1
      /\ trace'[Len(trace) + 1] = [time |-> next, state |-> state', values |-> values']
      /\ \A k \in 1..Len(trace) : trace'[k] = trace[k]
  BY <1>1, <1>4, TraceExtended
<1>7. order \in Orders(t)
  BY <1>5
<1>8. /\ AddedAt(t)' = AddedAt(t) /\ DeletedAt(t)' = DeletedAt(t)
      /\ Before(t)' = Before(t) /\ Number(t)' = Number(t)
      /\ \A f \in Fluents : ValueAfter(f, t)' = ValueAfter(f, t)
  BY <1>2, <1>4, <1>5, <1>6, StillMeant
<1>9. Before(t).state = state
  BY <1>4, <1>5, <1>3 DEF TraceInv, Before
<1>10. After(t)'.state = state' /\ After(t)'.values = values'
  <2>1. After(t)' = trace'[Number(t)' + 1]
    BY DEF After
  <2>2. After(t)' = [time |-> next, state |-> state', values |-> values']
    BY <1>5, <1>6, <1>8, <2>1
  <2> QED
    BY <2>2
<1>11. state' = (state \ {d[2] : d \in DeletedAt(t)}) \cup {e[2] : e \in AddedAt(t)}
  BY <1>1, <1>5, <1>7, StateReached
<1>12. \A f \in Fluents : values'[f] = ValueAfter(f, t)
  BY <1>1, <1>5, <1>7, ValueReached
<1>13. Reached(t)'
  BY <1>8, <1>9, <1>10, <1>11, <1>12 DEF Reached
<1>14. Times' = Times /\ \A u : Number(u)' = Number(u)
  BY <1>2, PlanFixed
<1>15. ASSUME NEW u \in Times, Number(u)' + 1 = Len(trace') PROVE u = t
  BY <1>4, <1>5, <1>6, <1>14, <1>15, InOrder
<1>16. LastReached'
  BY <1>13, <1>14, <1>15 DEF LastReached
<1>17. values' \in Valuations
  <2>1. PICK mark : mark = (Len(order) > 1)
    OBVIOUS
  <2> DEFINE A == AllClaims(t, mark)
             cs == Claims(order)
  <2>2. cs \in Seq(A)
    BY <1>4, <1>7, <2>1, ClaimsHave
  <2>3. AreClaims(A)
    <3>1. AreClaims(Claimants(t, mark)) /\ A \subseteq Claimants(t, mark)
      BY <1>5, ClaimsTyped DEF Claimants
    <3> QED
      BY <3>1 DEF AreClaims
  <2> HIDE DEF A, cs
  <2>4. PICK vs : /\ Len(cs) \in Nat /\ \A i \in 0..Len(cs) : vs[i] \in Valuations
                  /\ vs[Len(cs)] = EnactUpdates(cs)
    BY <2>2, <2>3, EnactSteps
  <2>5. EnactUpdates(cs) \in Valuations
    BY <2>4
  <2> QED
    BY <1>1, <2>5 DEF cs
<1> QED
  BY <1>16, <1>17

\* Every step keeps that, and the values integers.
LEMMA StepReached ==
  ASSUME Inv, StatusInv, values \in Valuations, LastReached, [Next]_vars,
         ~ContinueAnyway
  PROVE  LastReached' /\ values' \in Valuations
<1>1. problem \in Problems
  BY DEF Inv
<1>2. CASE UNCHANGED <<problem, trace, values>>
  <2>1. \A t : After(t)' = trace[Number(t)' + 1]
    BY <1>2 DEF After
  <2>2. Times' = Times /\ \A t : Number(t)' = Number(t)
    BY <1>2, PlanFixed
  <2>3. ASSUME NEW t \in Times PROVE Reached(t)' <=> Reached(t)
    <3>1. /\ AddedAt(t)' = AddedAt(t) /\ DeletedAt(t)' = DeletedAt(t) /\ Before(t)' = Before(t)
          /\ \A f \in Fluents : ValueAfter(f, t)' = ValueAfter(f, t)
      BY <1>1, <1>2, StillMeant
    <3>2. After(t)' = After(t)
      BY <2>1, <2>2 DEF After
    <3> QED
      BY <3>1, <3>2 DEF Reached
  <2> QED
    BY <1>2, <2>2, <2>3 DEF LastReached
<1>3. CASE ExecuteRegular /\ trace' # trace
  BY <1>3, AppliedReached
<1>4. CASE ExecuteRegular /\ trace' = trace
  <2>1. problem' = problem
    BY <1>4 DEF ExecuteRegular
  <2>2. UNCHANGED <<state, values, trace>>
    <3>1. Due(next)
      BY <1>4, RegularDue
    <3>2. TraceInv
      BY <3>1 DEF Due, Inv
    <3>3. ASSUME trace' = Append(trace, [time |-> next, state |-> state', values |-> values'])
          PROVE  FALSE
      BY <1>4, <3>2, <3>3, TraceExtended
    <3> QED
      BY <1>4, <3>3 DEF ExecuteRegular
  <2> QED
    BY <1>2, <1>4, <2>1, <2>2
<1>5. CASE ExecuteInvariant
  BY <1>2, <1>5 DEF ExecuteInvariant
<1>6. CASE EndExecution
  BY <1>2, <1>6 DEF EndExecution
<1>7. CASE CheckGoal
  BY <1>2, <1>7 DEF CheckGoal
<1>8. CASE UNCHANGED vars
  BY <1>2, <1>8 DEF vars
<1> QED
  BY <1>3, <1>4, <1>5, <1>6, <1>7, <1>8 DEF Next, Finished

\* Whatever the order of the actions in a happening, the state it leads to is
\* the one of all their effects together, as the domain has them: the split
\* into two ends and monitors loses no effect, and one that spans an action
\* happens just if its conditions were true at the start and in every state
\* since (handleDAConditionalEffects, CondCommunicationAction, enact).
THEOREM StatesAreOfThePlan ==
  ASSUME ~ContinueAnyway
  PROVE  Spec => []StatesFollowThePlan
<1> DEFINE IInv == Inv /\ StatusInv /\ values \in Valuations /\ LastReached
<1>1. Init => IInv
  <2> SUFFICES ASSUME Init PROVE IInv
    OBVIOUS
  <2>1. Inv /\ StatusInv
    BY InitInv, InitStatus
  <2>2. Len(trace) = 1 /\ problem \in Problems /\ values \in Valuations
    BY ProblemsAssumption DEF Init, Valuations
  <2>3. ASSUME NEW t \in Times PROVE Number(t) + 1 # 1
    <3>1. Number(t) \in 1..Cardinality(Times)
      BY <2>2, Numbered
    <3> QED
      BY <3>1
  <2> QED
    BY <2>1, <2>2, <2>3 DEF LastReached
<1>2. IInv /\ [Next]_vars => IInv'
  <2> SUFFICES ASSUME IInv, [Next]_vars PROVE IInv'
    OBVIOUS
  <2>1. Inv' /\ StatusInv'
    BY StepInv, StepStatus
  <2>2. LastReached' /\ values' \in Valuations
    BY StepReached
  <2> QED
    BY <2>1, <2>2 DEF Valuations
<1>3. IInv => StatesFollowThePlan
  BY DEF LastReached, Reached, StatesFollowThePlan, Applied
<1> QED
  BY <1>1, <1>2, <1>3, PTL DEF Spec

-----------------------------------------------------------------------------
(* A claim is refused for a reason.                                          *)

\* Somebody else than a in the set S is the reason to refuse a the entry e.
Told(e, S) == \A a : e.owner # a => \E r \in S : r # a

\* The entry e of a proposition, with those who require, add and delete it.
PropositionBlame(e, R, A, L) ==
    /\ e.kind \in {"free", "pre", "add", "del"}
    /\ e.kind = "pre" => Told(e, R)
    /\ e.kind = "add" => Told(e, A)
    /\ e.kind = "del" => Told(e, L)

\* The entry e of a fluent, with those who require and update it, and whether
\* one of them assigns it.
FluentBlame(e, R, U, assigned) ==
    /\ e.kind \in {"free", "pre", "add", "assignment"}
    /\ e.kind = "pre" => Told(e, R)
    /\ e.kind \in {"add", "assignment"} => U # {} /\ Told(e, U)
    /\ e.kind = "assignment" => assigned

\* Who is told of is still told of when there are more.
LEMMA ToldOfMore ==
  ASSUME NEW e, NEW S, NEW T, S \subseteq T, Told(e, S)
  PROVE  Told(e, T)
BY DEF Told

\* Somebody's own entry needs nobody else to blame.
LEMMA ToldOfOwn ==
  ASSUME NEW S, NEW a \in S, NEW e, e.owner = a
  PROVE  Told(e, S)
BY DEF Told

\* An entry that becomes shared was somebody else's.
LEMMA ToldOfShared ==
  ASSUME NEW S, NEW e, Told(e, S), NEW a, e.owner # a, NEW f
  PROVE  Told(f, S \cup {a})
<1>1. PICK r \in S : r # a
  BY DEF Told
<1>2. ASSUME NEW b PROVE \E q \in S \cup {a} : q # b
  <2>1. CASE b = a
    BY <1>1, <2>1
  <2>2. CASE b # a
    BY <2>2
  <2> QED
    BY <2>1, <2>2
<1> QED
  BY <1>2 DEF Told

\* A requirement is granted unless somebody else changes the proposition.
LEMMA RequirementBlamed ==
  ASSUME NEW e, NEW R, NEW A, NEW L, PropositionBlame(e, R, A, L), NEW a,
         \A r \in A \cup L : r = a
  PROVE  /\ MarkOwnedPrecondition(e, a)
         /\ PropositionBlame(Required(e, a), R \cup {a}, A, L)
<1>1. MarkOwnedPrecondition(e, a)
  <2>1. CASE e.kind = "add"
    BY <2>1 DEF PropositionBlame, Told, MarkOwnedPrecondition
  <2>2. CASE e.kind = "del"
    BY <2>2 DEF PropositionBlame, Told, MarkOwnedPrecondition
  <2> QED
    BY <2>1, <2>2 DEF PropositionBlame, MarkOwnedPrecondition
<1>2. CASE e.kind = "free"
  <2> DEFINE f == [owner |-> a, kind |-> "pre"]
  <2>1. Required(e, a) = f /\ f.owner = a /\ f.kind = "pre"
    BY <1>2 DEF Required
  <2>2. Told(f, R \cup {a})
    BY <2>1, ToldOfOwn
  <2> QED
    BY <2>1, <2>2, <1>1 DEF PropositionBlame
<1>3. CASE e.kind = "pre" /\ e.owner # a
  <2> DEFINE f == [owner |-> Shared, kind |-> "pre"]
  <2>1. Required(e, a) = f /\ f.kind = "pre"
    BY <1>3 DEF Required
  <2>2. Told(f, R \cup {a})
    BY <1>3, ToldOfShared DEF PropositionBlame
  <2> QED
    BY <2>1, <2>2, <1>1 DEF PropositionBlame
<1>4. CASE e.kind # "free" /\ ~(e.kind = "pre" /\ e.owner # a)
  <2>1. Required(e, a) = e
    BY <1>4 DEF Required
  <2>2. e.kind = "pre" => Told(e, R \cup {a})
    BY ToldOfMore DEF PropositionBlame
  <2> QED
    BY <2>1, <2>2, <1>1 DEF PropositionBlame
<1> QED
  BY <1>2, <1>3, <1>4

\* An addition is, unless somebody else requires or deletes it.
LEMMA AdditionBlamed ==
  ASSUME NEW e, NEW R, NEW A, NEW L, PropositionBlame(e, R, A, L), NEW a,
         \A r \in R \cup L : r = a
  PROVE  /\ OwnsForAdd(e, a)
         /\ PropositionBlame(Affected(e, a, "add"), R, A \cup {a}, L)
<1>1. OwnsForAdd(e, a)
  <2>1. CASE e.kind = "pre"
    BY <2>1 DEF PropositionBlame, Told, OwnsForAdd
  <2>2. CASE e.kind = "del"
    BY <2>2 DEF PropositionBlame, Told, OwnsForAdd
  <2> QED
    BY <2>1, <2>2 DEF PropositionBlame, OwnsForAdd
<1>2. CASE e.kind \in {"free", "pre"}
  <2> DEFINE f == [owner |-> a, kind |-> "add"]
  <2>1. Affected(e, a, "add") = f /\ f.owner = a /\ f.kind = "add"
    BY <1>2 DEF Affected
  <2>2. Told(f, A \cup {a})
    BY <2>1, ToldOfOwn
  <2> QED
    BY <2>1, <2>2, <1>1 DEF PropositionBlame
<1>3. CASE e.kind \notin {"free", "pre"}
  <2>1. Affected(e, a, "add") = e
    BY <1>3 DEF Affected
  <2>2. e.kind = "add" => Told(e, A \cup {a})
    BY ToldOfMore DEF PropositionBlame
  <2> QED
    BY <2>1, <2>2, <1>1 DEF PropositionBlame
<1> QED
  BY <1>2, <1>3

\* A deletion is, unless somebody else requires or adds it.
LEMMA DeletionBlamed ==
  ASSUME NEW e, NEW R, NEW A, NEW L, PropositionBlame(e, R, A, L), NEW a,
         \A r \in R \cup A : r = a
  PROVE  /\ OwnsForDel(e, a)
         /\ PropositionBlame(Affected(e, a, "del"), R, A, L \cup {a})
<1>1. OwnsForDel(e, a)
  <2>1. CASE e.kind = "pre"
    BY <2>1 DEF PropositionBlame, Told, OwnsForDel
  <2>2. CASE e.kind = "add"
    BY <2>2 DEF PropositionBlame, Told, OwnsForDel
  <2> QED
    BY <2>1, <2>2 DEF PropositionBlame, OwnsForDel
<1>2. CASE e.kind \in {"free", "pre"}
  <2> DEFINE f == [owner |-> a, kind |-> "del"]
  <2>1. Affected(e, a, "del") = f /\ f.owner = a /\ f.kind = "del"
    BY <1>2 DEF Affected
  <2>2. Told(f, L \cup {a})
    BY <2>1, ToldOfOwn
  <2> QED
    BY <2>1, <2>2, <1>1 DEF PropositionBlame
<1>3. CASE e.kind \notin {"free", "pre"}
  <2>1. Affected(e, a, "del") = e
    BY <1>3 DEF Affected
  <2>2. e.kind = "del" => Told(e, L \cup {a})
    BY ToldOfMore DEF PropositionBlame
  <2> QED
    BY <2>1, <2>2, <1>1 DEF PropositionBlame
<1> QED
  BY <1>2, <1>3

\* A requirement of a fluent is granted unless somebody else updates it.
LEMMA FluentRequirementBlamed ==
  ASSUME NEW e, NEW R, NEW U, NEW assigned, FluentBlame(e, R, U, assigned), NEW a,
         \A r \in U : r = a
  PROVE  /\ MarkOwnedPrecondition(e, a)
         /\ FluentBlame(Required(e, a), R \cup {a}, U, assigned)
<1>1. MarkOwnedPrecondition(e, a)
  <2>1. CASE e.kind \in {"add", "assignment"}
    BY <2>1 DEF FluentBlame, Told, MarkOwnedPrecondition
  <2> QED
    BY <2>1 DEF FluentBlame, MarkOwnedPrecondition
<1>2. CASE e.kind = "free"
  <2> DEFINE f == [owner |-> a, kind |-> "pre"]
  <2>1. Required(e, a) = f /\ f.owner = a /\ f.kind = "pre"
    BY <1>2 DEF Required
  <2>2. Told(f, R \cup {a})
    BY <2>1, ToldOfOwn
  <2> QED
    BY <2>1, <2>2, <1>1 DEF FluentBlame
<1>3. CASE e.kind = "pre" /\ e.owner # a
  <2> DEFINE f == [owner |-> Shared, kind |-> "pre"]
  <2>1. Required(e, a) = f /\ f.kind = "pre"
    BY <1>3 DEF Required
  <2>2. Told(f, R \cup {a})
    BY <1>3, ToldOfShared DEF FluentBlame
  <2> QED
    BY <2>1, <2>2, <1>1 DEF FluentBlame
<1>4. CASE e.kind # "free" /\ ~(e.kind = "pre" /\ e.owner # a)
  <2>1. Required(e, a) = e
    BY <1>4 DEF Required
  <2>2. e.kind = "pre" => Told(e, R \cup {a})
    BY ToldOfMore DEF FluentBlame
  <2> QED
    BY <2>1, <2>2, <1>1 DEF FluentBlame
<1> QED
  BY <1>2, <1>3, <1>4

\* An update is, unless somebody else requires the fluent, or one of this and
\* an earlier update is an assignment.
LEMMA UpdateBlamed ==
  ASSUME NEW e, NEW R, NEW U, NEW assigned, FluentBlame(e, R, U, assigned), NEW a,
         \A r \in R : r = a,
         NEW op \in Additive \cup {"assign"}, U # {} => op \in Additive /\ ~assigned,
         NEW assigned2, op = "assign" => assigned2
  PROVE  /\ MarkOwnedEffectFE(e, a, op)
         /\ FluentBlame(Updated(e, a, op), R, U \cup {a}, assigned2)
<1>1. MarkOwnedEffectFE(e, a, op)
  <2>1. CASE e.kind = "pre"
    BY <2>1 DEF FluentBlame, Told, MarkOwnedEffectFE
  <2> QED
    BY <2>1 DEF FluentBlame, MarkOwnedEffectFE
<1> DEFINE f == Updated(e, a, op)
<1>2. Told(f, U \cup {a})
  <2>1. CASE e.kind = "free" \/ e.owner = a
    <3>1. f.owner = a
      BY <2>1 DEF Updated
    <3> HIDE DEF f
    <3> QED
      BY <3>1, ToldOfOwn
  <2>2. CASE e.kind # "free" /\ e.owner # a
    <3>1. e.kind = "add"
      BY <1>1, <2>2 DEF MarkOwnedEffectFE
    <3>2. Told(e, U)
      BY <3>1 DEF FluentBlame
    <3> HIDE DEF f
    <3> QED
      BY <2>2, <3>2, ToldOfShared
  <2> QED
    BY <2>1, <2>2
<1>3. f.kind \in {"add", "assignment"} /\ (f.kind = "assignment" => assigned2)
  BY DEF Updated
<1> HIDE DEF f
<1>4. FluentBlame(f, R, U \cup {a}, assigned2)
  BY <1>2, <1>3 DEF FluentBlame
<1> QED
  BY <1>1, <1>4 DEF f

Requires(c) == c.require \cup Reads(c)

\* The claims do not disturb each other.
Calm(C) ==
    \A c, d \in C :
        /\ c.by # d.by =>
              /\ \A x \in Requires(c) : x \notin d.add /\ x \notin d.del /\ UpdatesOf(d, x) = {}
              /\ \A x \in c.add : x \notin d.del
        /\ c # d => \A u \in c.upd, v \in d.upd :
              u.fluent = v.fluent => u.op \in Additive /\ v.op \in Additive

\* One of the claims D assigns x.
Assigned(D, x) == \E d \in D : \E u \in UpdatesOf(d, x) : u.op = "assign"

\* The ownership own says of the claims D who is to blame if one is refused.
PropositionBlamed(e, D, x) ==
    PropositionBlame(e, Requirers(D, x), Adders(D, x), Deleters(D, x))
FluentBlamed(e, D, x) == FluentBlame(e, Requirers(D, x), Updaters(D, x), Assigned(D, x))
Blamed(own, D) ==
    /\ \A x \in Props : PropositionBlamed(own[x], D, x)
    /\ \A x \in Fluents : FluentBlamed(own[x], D, x)

\* One more claim of a proposition is granted.
LEMMA PropositionCalm ==
  ASSUME NEW C, AreClaims(C), Calm(C), Props \cap Fluents = {},
         NEW D \in SUBSET C, NEW c \in C, NEW x \in Props,
         NEW own, PropositionBlamed(own[x], D, x)
  PROVE  /\ GrantedAt(own, c, x) /\ UpdatesOf(c, x) = {}
         /\ PropositionBlamed(AfterDel(c, own[x], x), D \cup {c}, x)
<1> DEFINE R == Requirers(D, x)
           A == Adders(D, x)
           L == Deleters(D, x)
           R1 == Requirers(D \cup {c}, x)
           A1 == Adders(D \cup {c}, x)
           L1 == Deleters(D \cup {c}, x)
           e1 == AfterRequire(c, own[x], x)
           e2 == AfterAdd(c, own[x], x)
           e3 == AfterDel(c, own[x], x)
           a == c.by
<1>1. UpdatesOf(c, x) = {}
  BY DEF AreClaims, IsEffect, UpdatesOf
<1>2. PropositionBlame(own[x], R, A, L)
  BY DEF PropositionBlamed
<1>3. R1 = IF x \in c.require \cup Reads(c) THEN R \cup {a} ELSE R
  <2>1. CASE x \in c.require \cup Reads(c)
    BY <2>1 DEF Requirers
  <2>2. CASE x \notin c.require \cup Reads(c)
    BY <2>2 DEF Requirers
  <2> QED
    BY <2>1, <2>2
<1>4. A1 = IF x \in c.add THEN A \cup {a} ELSE A
  <2>1. CASE x \in c.add
    BY <2>1 DEF Adders
  <2>2. CASE x \notin c.add
    BY <2>2 DEF Adders
  <2> QED
    BY <2>1, <2>2
<1>5. L1 = IF x \in c.del THEN L \cup {a} ELSE L
  <2>1. CASE x \in c.del
    BY <2>1 DEF Deleters
  <2>2. CASE x \notin c.del
    BY <2>2 DEF Deleters
  <2> QED
    BY <2>1, <2>2
<1>6. x \in c.require \cup Reads(c) => \A r \in A \cup L : r = a
  BY DEF Calm, Adders, Deleters, Requires
<1>7. x \in c.add => \A r \in R1 \cup L : r = a
  BY DEF Calm, Requirers, Deleters, Requires
<1>8. x \in c.del => \A r \in R1 \cup A1 : r = a
  BY DEF Calm, Requirers, Adders, Requires
<1> HIDE DEF R, A, L, R1, A1, L1
<1>9. /\ x \in c.require \cup Reads(c) => MarkOwnedPrecondition(own[x], a)
      /\ PropositionBlame(e1, R1, A, L)
  <2>1. CASE x \in c.require \cup Reads(c)
    <3>1. e1 = Required(own[x], a) /\ R1 = R \cup {a}
      BY <1>3, <2>1 DEF AfterRequire
    <3> QED
      BY <1>2, <1>6, <2>1, <3>1, RequirementBlamed
  <2>2. CASE x \notin c.require \cup Reads(c)
    BY <1>2, <1>3, <2>2 DEF AfterRequire
  <2> QED
    BY <2>1, <2>2
<1>10. /\ x \in c.add => OwnsForAdd(e1, a)
       /\ PropositionBlame(e2, R1, A1, L)
  <2>1. CASE x \in c.add
    <3>1. e2 = Affected(e1, a, "add") /\ A1 = A \cup {a}
      BY <1>4, <2>1 DEF AfterAdd
    <3> HIDE DEF e1, e2
    <3> QED
      BY <1>7, <1>9, <2>1, <3>1, AdditionBlamed
  <2>2. CASE x \notin c.add
    BY <1>4, <1>9, <2>2 DEF AfterAdd
  <2> QED
    BY <2>1, <2>2
<1>11. /\ x \in c.del => OwnsForDel(e2, a)
       /\ PropositionBlame(e3, R1, A1, L1)
  <2>1. CASE x \in c.del
    <3>1. e3 = Affected(e2, a, "del") /\ L1 = L \cup {a}
      BY <1>5, <2>1 DEF AfterDel
    <3> HIDE DEF e2, e3
    <3> QED
      BY <1>8, <1>10, <2>1, <3>1, DeletionBlamed
  <2>2. CASE x \notin c.del
    BY <1>5, <1>10, <2>2 DEF AfterDel
  <2> QED
    BY <2>1, <2>2
<1>12. GrantedAt(own, c, x)
  BY <1>1, <1>9, <1>10, <1>11 DEF GrantedAt
<1>13. PropositionBlamed(e3, D \cup {c}, x)
  BY <1>11 DEF PropositionBlamed, R1, A1, L1
<1> QED
  BY <1>1, <1>12, <1>13

\* One more claim of a fluent is granted; one that updates it is new.
LEMMA FluentCalm ==
  ASSUME NEW C, AreClaims(C), Calm(C), Props \cap Fluents = {},
         NEW D \in SUBSET C, NEW c \in C, c.upd = {} \/ c \notin D, NEW x \in Fluents,
         NEW own, FluentBlamed(own[x], D, x)
  PROVE  LET e == AfterDel(c, own[x], x) IN
         /\ GrantedAt(own, c, x)
         /\ FluentBlamed(IF UpdatesOf(c, x) = {} THEN e
                         ELSE Updated(e, c.by, (CHOOSE u \in UpdatesOf(c, x) : TRUE).op),
                         D \cup {c}, x)
<1> DEFINE R == Requirers(D, x)
           U == Updaters(D, x)
           R1 == Requirers(D \cup {c}, x)
           U1 == Updaters(D \cup {c}, x)
           e1 == AfterRequire(c, own[x], x)
           a == c.by
           v == CHOOSE u \in UpdatesOf(c, x) : TRUE
<1>1. /\ x \notin c.add /\ x \notin c.del
      /\ AfterDel(c, own[x], x) = e1 /\ AfterAdd(c, own[x], x) = e1
  BY DEF AreClaims, IsEffect, AfterDel, AfterAdd
<1>2. FluentBlame(own[x], R, U, Assigned(D, x))
  BY DEF FluentBlamed
<1>3. R1 = IF x \in c.require \cup Reads(c) THEN R \cup {a} ELSE R
  <2>1. CASE x \in c.require \cup Reads(c)
    BY <2>1 DEF Requirers
  <2>2. CASE x \notin c.require \cup Reads(c)
    BY <2>2 DEF Requirers
  <2> QED
    BY <2>1, <2>2
<1>4. U1 = IF UpdatesOf(c, x) # {} THEN U \cup {a} ELSE U
  <2>1. CASE UpdatesOf(c, x) # {}
    BY <2>1 DEF Updaters
  <2>2. CASE UpdatesOf(c, x) = {}
    BY <2>2 DEF Updaters
  <2> QED
    BY <2>1, <2>2
<1>5. \A u \in UpdatesOf(c, x) : u = v /\ u.op \in Additive \cup {"assign"}
  BY DEF AreClaims, IsEffect, UpdatesOf
<1>6. x \in c.require \cup Reads(c) => \A r \in U : r = a
  BY DEF Calm, Updaters, Requires
<1>7. UpdatesOf(c, x) # {} => \A r \in R1 : r = a
  BY DEF Calm, Requirers, Requires
<1>8. ASSUME UpdatesOf(c, x) # {}, U # {} PROVE v.op \in Additive
  <2>1. PICK d \in D : UpdatesOf(d, x) # {}
    BY <1>8 DEF Updaters
  <2>2. PICK w \in UpdatesOf(d, x) : TRUE
    BY <2>1
  <2>3. v \in UpdatesOf(c, x)
    BY <1>8
  <2> HIDE DEF v
  <2>4. c # d /\ d \in C /\ v \in c.upd /\ w \in d.upd /\ v.fluent = w.fluent
    BY <2>1, <2>2, <2>3 DEF UpdatesOf
  <2> QED
    BY <2>4 DEF Calm
<1>9. ASSUME UpdatesOf(c, x) # {}, Assigned(D, x) PROVE FALSE
  <2>1. PICK d \in D : \E u \in UpdatesOf(d, x) : u.op = "assign"
    BY <1>9 DEF Assigned
  <2>2. PICK w \in UpdatesOf(d, x) : w.op = "assign"
    BY <2>1
  <2>3. PICK u \in UpdatesOf(c, x) : TRUE
    BY <1>9
  <2>4. c # d /\ d \in C /\ u \in c.upd /\ w \in d.upd /\ u.fluent = w.fluent
    BY <2>2, <2>3 DEF UpdatesOf
  <2> QED
    BY <2>2, <2>4 DEF Calm, Additive
<1>10. Assigned(D, x) => Assigned(D \cup {c}, x)
  BY DEF Assigned
<1>11. UpdatesOf(c, x) # {} /\ v.op = "assign" => Assigned(D \cup {c}, x)
  BY DEF Assigned
<1> HIDE DEF R, U, R1, U1
<1>12. /\ x \in c.require \cup Reads(c) => MarkOwnedPrecondition(own[x], a)
       /\ FluentBlame(e1, R1, U, Assigned(D, x))
  <2>1. CASE x \in c.require \cup Reads(c)
    <3>1. e1 = Required(own[x], a) /\ R1 = R \cup {a}
      BY <1>3, <2>1 DEF AfterRequire
    <3> QED
      BY <1>2, <1>6, <2>1, <3>1, FluentRequirementBlamed
  <2>2. CASE x \notin c.require \cup Reads(c)
    BY <1>2, <1>3, <2>2 DEF AfterRequire
  <2> QED
    BY <2>1, <2>2
<1> HIDE DEF e1
<1>13. CASE UpdatesOf(c, x) = {}
  <2>1. FluentBlame(e1, R1, U1, Assigned(D \cup {c}, x))
    BY <1>4, <1>10, <1>12, <1>13 DEF FluentBlame
  <2>2. GrantedAt(own, c, x)
    BY <1>1, <1>12, <1>13 DEF GrantedAt
  <2> QED
    BY <1>1, <1>13, <2>1, <2>2 DEF FluentBlamed, R1, U1
<1>14. CASE UpdatesOf(c, x) # {}
  <2>1. v \in UpdatesOf(c, x)
    BY <1>14
  <2>2. v.op \in Additive \cup {"assign"}
    BY <1>5, <2>1
  <2>3. U # {} => v.op \in Additive /\ ~Assigned(D, x)
    BY <1>8, <1>9, <1>14
  <2>4. \A u \in UpdatesOf(c, x) : u = v
    BY <1>5
  <2> HIDE DEF v
  <2>5. v.op = "assign" => Assigned(D \cup {c}, x)
    BY <1>11, <1>14 DEF v
  <2>6. /\ MarkOwnedEffectFE(e1, a, v.op)
        /\ FluentBlame(Updated(e1, a, v.op), R1, U \cup {a}, Assigned(D \cup {c}, x))
    BY <1>7, <1>12, <1>14, <2>2, <2>3, <2>5, UpdateBlamed
  <2>7. GrantedAt(own, c, x)
    BY <1>1, <1>12, <2>4, <2>6 DEF GrantedAt
  <2>8. FluentBlamed(Updated(e1, a, v.op), D \cup {c}, x)
    BY <1>4, <1>14, <2>6 DEF FluentBlamed, R1, U1
  <2> QED
    BY <1>1, <1>14, <2>7, <2>8 DEF v
<1> QED
  BY <1>13, <1>14

\* One more claim is granted, and the ownership is right of it, too.
LEMMA BlamedStep ==
  ASSUME NEW C, AreClaims(C), Calm(C), Props \cap Fluents = {},
         NEW D \in SUBSET C, NEW c \in C, c.upd = {} \/ c \notin D,
         NEW own \in Owns(Owners(C)), Blamed(own, D)
  PROVE  Blamed(Claimed(own, c), D \cup {c}) /\ \A x \in Props \cup Fluents : GrantedAt(own, c, x)
<1>1. DOMAIN own = Props \cup Fluents
  BY DEF Owns
<1>2. ASSUME NEW x \in Props
      PROVE  PropositionBlamed(Claimed(own, c)[x], D \cup {c}, x) /\ GrantedAt(own, c, x)
  <2>1. /\ GrantedAt(own, c, x) /\ UpdatesOf(c, x) = {}
        /\ PropositionBlamed(AfterDel(c, own[x], x), D \cup {c}, x)
    BY PropositionCalm DEF Blamed
  <2>2. Claimed(own, c)[x] = AfterDel(c, own[x], x)
    BY <1>1, <2>1 DEF Claimed
  <2> QED
    BY <2>1, <2>2
<1>3. ASSUME NEW x \in Fluents
      PROVE  FluentBlamed(Claimed(own, c)[x], D \cup {c}, x) /\ GrantedAt(own, c, x)
  <2> DEFINE e == AfterDel(c, own[x], x)
             f == IF UpdatesOf(c, x) = {} THEN e
                  ELSE Updated(e, c.by, (CHOOSE u \in UpdatesOf(c, x) : TRUE).op)
  <2>1. FluentBlamed(f, D \cup {c}, x) /\ GrantedAt(own, c, x)
    BY FluentCalm DEF Blamed
  <2>2. Claimed(own, c)[x] = f
    BY <1>1 DEF Claimed
  <2> QED
    BY <2>1, <2>2
<1> QED
  BY <1>2, <1>3 DEF Blamed

\* Claims that do not disturb each other are all granted, one after the other.
LEMMA BlamedAfter ==
  ASSUME NEW C, AreClaims(C), Calm(C), Props \cap Fluents = {},
         NEW D \in SUBSET C, \A d \in D : d.upd = {},
         NEW claims \in Seq(C), Once(claims, Updating(C)),
         NEW own \in Owns(Owners(C)), Blamed(own, D)
  PROVE  /\ Blamed(Ownerships(own, claims)[Len(claims)], D \cup UpTo(claims, Len(claims)))
         /\ \A i \in 1..Len(claims) : \A x \in Props \cup Fluents :
                GrantedAt(Ownerships(own, claims)[i - 1], claims[i], x)
<1> DEFINE n == Len(claims)
           os == Ownerships(own, claims)
           E(i) == D \cup UpTo(claims, i)
           S == {i \in Nat : i \in 0..n => Blamed(os[i], E(i))}
<1>1. /\ n \in Nat
      /\ \A i \in 0..n : os[i] \in Owns(Owners(C))
      /\ os[0] = own
      /\ \A i \in 1..n : os[i] = Claimed(os[i - 1], claims[i]) /\ claims[i] \in C
  BY OwnershipSteps
<1>2. E(0) = D
  BY DEF UpTo
<1>3. \A i \in Nat : E(i + 1) = E(i) \cup {claims[i + 1]}
  <2>1. \A i \in Nat : 1..(i + 1) = (1..i) \cup {i + 1}
    OBVIOUS
  <2> QED
    BY <2>1 DEF UpTo
<1>4. \A i \in 0..n : E(i) \subseteq C
  BY <1>1 DEF UpTo
<1>5. ASSUME NEW i \in Nat, i + 1 \in 1..n
      PROVE  claims[i + 1].upd = {} \/ claims[i + 1] \notin E(i)
  <2> DEFINE c == claims[i + 1]
  <2> SUFFICES ASSUME c.upd # {}, c \in E(i) PROVE FALSE
    OBVIOUS
  <2>1. c \in UpTo(claims, i)
    OBVIOUS
  <2>2. PICK j \in 1..i : c = claims[j]
    BY <2>1 DEF UpTo
  <2>3. j \in 1..n /\ i + 1 \in 1..n /\ j # i + 1
    BY <1>1, <1>5
  <2>4. c \in Updating(C)
    BY <1>1, <1>5 DEF Updating
  <2> QED
    BY <2>2, <2>3, <2>4 DEF Once
<1> HIDE DEF E
<1>6. ASSUME NEW i \in Nat, i + 1 \in 1..n, Blamed(os[i], E(i))
      PROVE  /\ Blamed(os[i + 1], E(i + 1))
             /\ \A x \in Props \cup Fluents : GrantedAt(os[i], claims[i + 1], x)
  <2> DEFINE c == claims[i + 1]
             o == os[i]
  <2>1. (i + 1) - 1 = i /\ i \in 0..n
    BY <1>1, <1>6
  <2>2. c \in C /\ os[i + 1] = Claimed(o, c) /\ o \in Owns(Owners(C)) /\ E(i) \in SUBSET C
    BY <1>1, <1>4, <1>6, <2>1
  <2>3. c.upd = {} \/ c \notin E(i)
    BY <1>5, <1>6
  <2>4. Blamed(o, E(i)) /\ E(i + 1) = E(i) \cup {c}
    BY <1>3, <1>6
  <2> HIDE DEF c, o, os
  <2>5. Blamed(Claimed(o, c), E(i) \cup {c}) /\ \A x \in Props \cup Fluents : GrantedAt(o, c, x)
    BY <2>2, <2>3, <2>4, BlamedStep
  <2> QED
    BY <2>2, <2>4, <2>5 DEF o, c
<1>7. 0 \in S
  BY <1>1, <1>2
<1>8. ASSUME NEW i \in S PROVE i + 1 \in S
  <2> SUFFICES ASSUME i + 1 \in 0..n PROVE Blamed(os[i + 1], E(i + 1))
    OBVIOUS
  <2>1. i \in Nat /\ i \in 0..n /\ i + 1 \in 1..n
    BY <1>1
  <2>2. Blamed(os[i], E(i))
    BY <2>1
  <2> HIDE DEF os
  <2> QED
    BY <1>6, <2>1, <2>2
<1>9. \A i \in Nat : i \in S
  <2>1. S \in SUBSET Nat
    OBVIOUS
  <2> HIDE DEF S
  <2> QED
    BY <1>7, <1>8, <2>1, AllNumbers
<1> HIDE DEF os
<1>10. \A i \in 0..n : Blamed(os[i], E(i))
  <2> TAKE i \in 0..n
  <2>1. i \in Nat
    BY <1>1
  <2>2. i \in S
    <3> HIDE DEF S
    <3> QED
      BY <1>9, <2>1
  <2> QED
    BY <2>2
<1>11. \A i \in 1..n : \A x \in Props \cup Fluents : GrantedAt(os[i - 1], claims[i], x)
  <2> TAKE i \in 1..n
  <2> DEFINE j == i - 1
  <2>1. j \in Nat /\ j + 1 = i /\ j + 1 \in 1..n /\ j \in 0..n
    BY <1>1
  <2>2. Blamed(os[j], E(j))
    BY <1>10, <2>1
  <2> HIDE DEF j
  <2>3. \A x \in Props \cup Fluents : GrantedAt(os[j], claims[j + 1], x)
    BY <1>6, <2>1, <2>2
  <2> QED
    BY <2>1, <2>3 DEF j
<1>12. Blamed(os[n], E(n))
  <2>1. n \in 0..n
    BY <1>1
  <2> HIDE DEF n
  <2> QED
    BY <1>10, <2>1
<1> QED
  BY <1>11, <1>12 DEF os, E

\* A claim of propositions and fluents is granted if each of them is.
LEMMA EverywhereGranted ==
  ASSUME NEW own, NEW c, IsEffect(c), c.require \subseteq Props \cup Fluents,
         \A x \in Props \cup Fluents : GrantedAt(own, c, x)
  PROVE  Granted(own, c)
<1>1. \A x \in c.require \cup Reads(c) : x \in Props \cup Fluents
  BY DEF Reads
<1>2. /\ \A x \in c.add \cup c.del : x \in Props \cup Fluents
      /\ \A u \in c.upd : u.fluent \in Props \cup Fluents /\ u \in UpdatesOf(c, u.fluent)
  BY DEF IsEffect, UpdatesOf
<1> QED
  BY <1>1, <1>2 DEF Granted, GrantedAt

\* Nobody is to blame when nothing is owned.
LEMMA NothingIsBlamed == Blamed(NothingOwned, {})
<1>1. \A x \in Props \cup Fluents : NothingOwned[x] = Unclaimed
  BY DEF NothingOwned
<1> QED
  BY <1>1 DEF Blamed, PropositionBlamed, FluentBlamed, PropositionBlame, FluentBlame, Unclaimed

\* Conditions ask for propositions and fluents.
LEMMA GoalsTyped ==
  ASSUME problem \in Problems, NEW s \in Plan, NEW at,
         s.op \in DOMAIN Domains[problem.domain], problem.domain \in DOMAIN Domains
  PROVE  /\ Goals(Written(s).cond, at) \subseteq Props \cup Fluents
         /\ \A w \in Written(s).when : Goals(w.cond, at) \subseteq Props \cup Fluents
<1>1. \A c \in {Written(s).cond} \cup {w.cond : w \in Written(s).when} :
          \A g \in c : g.of \in Props \cup Fluents
  BY ConditionsAssumption DEF Written
<1>2. ASSUME NEW c, \A g \in c : g.of \in Props \cup Fluents
      PROVE  Goals(c, at) \subseteq Props \cup Fluents
  BY <1>2 DEF Goals
<1>3. \A g \in Written(s).cond : g.of \in Props \cup Fluents
  BY <1>1
<1>4. \A w \in Written(s).when : \A g \in w.cond : g.of \in Props \cup Fluents
  BY <1>1
<1> QED
  BY <1>2, <1>3, <1>4

\* The claims of a happening are of propositions and fluents.
LEMMA RequirementsTyped ==
  ASSUME NEW t, problem \in Problems, NEW mark, NEW c \in Claimants(t, mark)
  PROVE  c.require \subseteq Props \cup Fluents
<1>1. PICK a \in ActionsAt(t) : c \in ClaimsOf(a, mark) \/ c \in FirstClaimsOf(a)
  BY DEF Claimants, AllClaims, AllFirstClaims
<1>2. PICK s \in Plan :
            /\ problem.domain \in DOMAIN Domains /\ s.op \in DOMAIN Domains[problem.domain]
            /\ Op(s.op) = HandleDurativeAction(Written(s))
            /\ \/ a = <<s.op, "start">> /\ s.start = t
                  /\ Snap(a) = SnapAction(Written(s), "start")
               \/ a = <<s.op, "end">> /\ s.end = t /\ Op(s.op).durative
                  /\ Snap(a) = SnapAction(Written(s), "end")
  BY <1>1, ActionStep
<1>3. \A at : /\ Goals(Written(s).cond, at) \subseteq Props \cup Fluents
              /\ \A w \in Written(s).when : Goals(w.cond, at) \subseteq Props \cup Fluents
  BY <1>2, GoalsTyped
<1>4. PICK at \in {"start", "end"} : Snap(a) = SnapAction(Written(s), at) /\ a[1] = s.op
  BY <1>2
<1>5. Snap(a).pre \subseteq Props \cup Fluents
  BY <1>3, <1>4 DEF SnapAction
<1>6. \A w \in FiredBy(a) : w.cond \subseteq Props \cup Fluents
  BY <1>3, <1>4 DEF FiredBy, SnapAction, HandleConditional
<1>7. \A m \in MonitorsOfStart(a) : m[2].atStart \subseteq Props \cup Fluents
  <2> TAKE m \in MonitorsOfStart(a)
  <2>1. m \in MonitorsIn({s.op})
    BY <1>4 DEF MonitorsOfStart
  <2>2. PICK v \in Op(s.op).monitors : m = <<s.op, v>>
    BY <2>1 DEF MonitorsIn
  <2>3. \E w \in Written(s).when : v.atStart = Goals(w.cond, "start")
    BY <1>2, <2>2 DEF HandleDurativeAction, MonitorsOf
  <2> QED
    BY <1>3, <2>2, <2>3
<1>8. CASE c \in ClaimsOf(a, mark)
  BY <1>6, <1>8 DEF ClaimsOf, Claim
<1>9. CASE c \in FirstClaimsOf(a)
  BY <1>5, <1>7, <1>9 DEF FirstClaimsOf, Claim
<1> QED
  BY <1>1, <1>8, <1>9

\* The happening that is due is granted if its claims do not disturb each other.
LEMMA CalmGranted ==
  ASSUME NEW t, Due(t), NEW order \in Orders(t), NEW mark, mark = (Len(order) > 1),
         Calm(Claimants(t, mark))
  PROVE  AllGranted(Marked(order), Claims(order))
<1> DEFINE A == AllClaims(t, mark)
           F == AllFirstClaims(t)
           C == Claimants(t, mark)
           O == Owners(C)
<1>1. problem \in Problems /\ Props \cap Fluents = {}
  BY StateBefore, DomainsAssumption
<1>2. AreClaims(C) /\ Calm(C)
  BY ClaimsTyped
<1>3. /\ Claims(order) \in Seq(A)
      /\ Once(Claims(order), Updating(A))
  BY <1>1, ClaimsHave, ClaimsOnce
<1>4. A \subseteq C
  BY DEF Claimants
<1> HIDE DEF A, C
<1>5. \E D \in SUBSET C : (\A d \in D : d.upd = {}) /\ Marked(order) \in Owns(O) /\ Blamed(Marked(order), D)
  <2>1. CASE mark
    <3>1. /\ FirstClaims(order) \in Seq(F)
          /\ \A c : Has(FirstClaims(order), c) <=> c \in F
      BY <1>1, FirstClaimsHave
    <3>2. F \subseteq C
      BY <2>1 DEF C, Claimants
    <3>3. Marked(order) = Ownerships(NothingOwned, FirstClaims(order))[Len(FirstClaims(order))]
      BY <2>1 DEF Marked, MarkAll, FirstClaims
    <3>4. \A c \in F : c.upd = {}
      BY <1>1, FirstClaimsPlain
    <3> HIDE DEF F
    <3> DEFINE fs == FirstClaims(order)
    <3>5. fs \in Seq(F) /\ fs \in Seq(C) /\ UpTo(fs, Len(fs)) = F
      BY <3>1, <3>2, AllHad
    <3>6. Once(fs, Updating(C))
      <4>1. \A i \in 1..Len(fs) : fs[i] \in F
        BY <3>5
      <4>2. \A i \in 1..Len(fs) : fs[i] \notin Updating(C)
        BY <3>4, <4>1 DEF Updating
      <4> QED
        BY <4>2 DEF Once
    <3> HIDE DEF fs
    <3>7. NothingOwned \in Owns(O) /\ Blamed(NothingOwned, {})
      BY NothingIsOwned, NothingIsBlamed
    <3>8. Blamed(Ownerships(NothingOwned, fs)[Len(fs)], {} \cup UpTo(fs, Len(fs)))
      <4>1. {} \in SUBSET C /\ \A d \in {} : d.upd = {}
        OBVIOUS
      <4> QED
        BY <1>1, <1>2, <3>5, <3>6, <3>7, <4>1, BlamedAfter
    <3>9. Ownerships(NothingOwned, fs)[Len(fs)] \in Owns(O)
      <4>1. /\ Len(fs) \in Nat
            /\ \A i \in 0..Len(fs) : Ownerships(NothingOwned, fs)[i] \in Owns(O)
        BY <3>5, <3>7, OwnershipSteps
      <4> QED
        BY <4>1
    <3>10. {} \cup UpTo(fs, Len(fs)) = F
      BY <3>5
    <3> QED
      BY <3>2, <3>3, <3>4, <3>8, <3>9, <3>10 DEF fs
  <2>2. CASE ~mark
    <3>1. Marked(order) = NothingOwned
      BY <2>2 DEF Marked
    <3>2. {} \in SUBSET C /\ \A d \in {} : d.upd = {}
      OBVIOUS
    <3> QED
      BY <3>1, <3>2, NothingIsOwned, NothingIsBlamed
  <2> QED
    BY <2>1, <2>2
<1>6. PICK D \in SUBSET C : (\A d \in D : d.upd = {}) /\ Marked(order) \in Owns(O) /\ Blamed(Marked(order), D)
  BY <1>5
<1> DEFINE cs == Claims(order)
           own == Marked(order)
<1>7. cs \in Seq(C)
  BY <1>3, <1>4
<1>8. Once(cs, Updating(C))
  <2>1. \A i \in 1..Len(cs) : cs[i] \in A
    BY <1>3
  <2>2. \A i \in 1..Len(cs) : cs[i] \in Updating(C) => cs[i] \in Updating(A)
    BY <2>1 DEF Updating
  <2>3. Once(cs, Updating(A))
    BY <1>3
  <2> HIDE DEF cs
  <2> QED
    BY <2>2, <2>3 DEF Once
<1> HIDE DEF cs, own
<1>9. own \in Owns(O) /\ Blamed(own, D)
  BY <1>6 DEF own
<1>10. \A i \in 1..Len(cs) : \A x \in Props \cup Fluents : GrantedAt(Ownerships(own, cs)[i - 1], cs[i], x)
  BY <1>1, <1>2, <1>6, <1>7, <1>8, <1>9, BlamedAfter
<1>11. \A i \in 1..Len(cs) : Granted(Ownerships(own, cs)[i - 1], cs[i])
  <2> TAKE i \in 1..Len(cs)
  <2>1. cs[i] \in C
    BY <1>7
  <2>2. IsEffect(cs[i])
    BY <1>2, <2>1 DEF AreClaims
  <2>3. cs[i].require \subseteq Props \cup Fluents
    BY <1>1, <2>1, RequirementsTyped DEF C
  <2> QED
    BY <1>10, <2>2, <2>3, EverywhereGranted
<1> QED
  BY <1>11 DEF AllGranted, cs, own

\* What the claims require is required, whether it is marked or not.
LEMMA ClaimsRequired ==
  ASSUME NEW t, Due(t), NEW mark, NEW c \in Claimants(t, mark), NEW x \in Requires(c)
  PROVE  <<c.by, x>> \in RequiredAt(t)
<1>1. CASE c \in AllFirstClaims(t)
  <2>1. c \in AllClaims(t, TRUE) \cup AllFirstClaims(t)
    BY <1>1
  <2>2. c.by = c.by /\ x \in c.require \cup Reads(c)
    BY DEF Requires
  <2> QED
    BY <2>1, <2>2, RequirementsClaimed
<1>2. CASE c \in AllClaims(t, mark) /\ mark = TRUE
  <2>1. c \in AllClaims(t, TRUE) \cup AllFirstClaims(t)
    BY <1>2
  <2>2. c.by = c.by /\ x \in c.require \cup Reads(c)
    BY DEF Requires
  <2> QED
    BY <2>1, <2>2, RequirementsClaimed
<1>3. CASE c \in AllClaims(t, mark) /\ x \in Reads(c)
  <2>1. PICK u \in c.upd : x = u.by /\ x \in Fluents
    BY <1>3 DEF Reads
  <2> DEFINE updated(b, w, f) == <<b, w, f>> \in UpdatedAt(t)
             claimed(m, b, w, f) == \E d \in AllClaims(t, m) : d.by = b /\ d.from = f /\ w \in d.upd
  <2>2. \A b, w, f : updated(b, w, f) <=> claimed(mark, b, w, f)
    BY EffectsClaimedAt
  <2>3. \A b, w, f : updated(b, w, f) <=> claimed(TRUE, b, w, f)
    BY EffectsClaimedAt
  <2>4. claimed(mark, c.by, u, c.from)
    BY <1>3, <2>1
  <2>5. claimed(TRUE, c.by, u, c.from)
    <3> HIDE DEF updated, claimed
    <3> QED
      BY ONLY <2>2, <2>3, <2>4
  <2>6. PICK d \in AllClaims(t, TRUE) : d.by = c.by /\ u \in d.upd
    BY <2>5
  <2>7. d.by = c.by /\ x \in d.require \cup Reads(d)
    BY <2>1, <2>6 DEF Reads
  <2> QED
    BY <2>6, <2>7, RequirementsClaimed
<1>4. CASE c \in AllClaims(t, mark) /\ ~mark
  <2>1. PICK a \in ActionsAt(t) : c \in ClaimsOf(a, mark)
    BY <1>4 DEF AllClaims
  <2>2. c.require = {}
    BY <1>4, <2>1 DEF ClaimsOf, Claim
  <2> QED
    BY <1>3, <1>4, <2>2 DEF Requires
<1>5. CASE c \in AllClaims(t, mark) /\ mark
  <2>1. PICK a \in ActionsAt(t) : c \in ClaimsOf(a, mark)
    BY <1>5 DEF AllClaims
  <2>2. ClaimsOf(a, mark) = ClaimsOf(a, TRUE)
    BY <1>5 DEF ClaimsOf
  <2>3. c \in AllClaims(t, TRUE) \cup AllFirstClaims(t)
    BY <2>1, <2>2 DEF AllClaims
  <2>4. c.by = c.by /\ x \in c.require \cup Reads(c)
    BY DEF Requires
  <2> QED
    BY <2>3, <2>4, RequirementsClaimed
<1> QED
  BY <1>1, <1>4, <1>5 DEF Claimants

\* The claims of a happening do not disturb each other, unless it does.
LEMMA UndisturbedCalm ==
  ASSUME NEW t, Due(t), ~Disturbs(t), NEW mark
  PROVE  Calm(Claimants(t, mark))
<1> DEFINE C == Claimants(t, mark)
           A == AllClaims(t, mark)
           meet(X, Y) == \E x \in X, y \in Y : x[1] # y[1] /\ x[2] = y[2]
<1>1. problem \in Problems /\ AreClaims(C)
  BY StateBefore, ClaimsTyped
<1>2. /\ \A b, p : <<b, p>> \in AddedAt(t) <=> \E c \in A : c.by = b /\ p \in c.add
      /\ \A b, p : <<b, p>> \in DeletedAt(t) <=> \E c \in A : c.by = b /\ p \in c.del
      /\ \A b, u, f : <<b, u, f>> \in UpdatedAt(t) <=> \E c \in A : c.by = b /\ c.from = f /\ u \in c.upd
  BY EffectsClaimedAt
<1>3. /\ ~meet(RequiredAt(t), AddedAt(t) \cup DeletedAt(t))
      /\ ~meet(AddedAt(t), DeletedAt(t))
      /\ ~meet(RequiredAt(t), {<<u[1], u[2].fluent>> : u \in UpdatedAt(t)})
      /\ \A u, v \in UpdatedAt(t) : u # v /\ u[2].fluent = v[2].fluent => u[2].op # "assign"
  BY DEF Disturbs
<1>4. \A c \in C : c \in A \/ (c.add = {} /\ c.del = {} /\ c.upd = {})
  BY <1>1, FirstClaimsPlain DEF Claimants
<1>5. ASSUME NEW c \in C, NEW x \in Requires(c) PROVE <<c.by, x>> \in RequiredAt(t)
  BY <1>5, ClaimsRequired
<1>6. ASSUME NEW c \in C
      PROVE  /\ \A p \in c.add : <<c.by, p>> \in AddedAt(t)
             /\ \A p \in c.del : <<c.by, p>> \in DeletedAt(t)
             /\ \A u \in c.upd : <<c.by, u, c.from>> \in UpdatedAt(t)
  BY <1>2, <1>4
<1>7. ASSUME NEW c \in C, NEW d \in C, c.by # d.by, NEW x \in Requires(c)
      PROVE  x \notin d.add /\ x \notin d.del /\ UpdatesOf(d, x) = {}
  <2>1. <<c.by, x>> \in RequiredAt(t)
    BY <1>5
  <2>2. ASSUME x \in d.add \cup d.del PROVE FALSE
    <3>1. <<d.by, x>> \in AddedAt(t) \cup DeletedAt(t)
      BY <1>6, <2>2
    <3>2. <<c.by, x>>[1] # <<d.by, x>>[1] /\ <<c.by, x>>[2] = <<d.by, x>>[2]
      BY <1>7
    <3> QED
      BY <1>3, <2>1, <3>1, <3>2
  <2>3. ASSUME NEW u \in UpdatesOf(d, x) PROVE FALSE
    <3> DEFINE v == <<d.by, u, d.from>>
    <3>1. u \in d.upd /\ u.fluent = x
      BY DEF UpdatesOf
    <3>2. v \in UpdatedAt(t)
      BY <1>6, <3>1
    <3>3. v[1] = d.by /\ v[2] = u
      OBVIOUS
    <3>4. <<v[1], v[2].fluent>> = <<d.by, x>>
      BY <3>1, <3>3
    <3>5. <<d.by, x>> \in {<<w[1], w[2].fluent>> : w \in UpdatedAt(t)}
      BY <3>2, <3>4
    <3>6. <<c.by, x>>[1] # <<d.by, x>>[1] /\ <<c.by, x>>[2] = <<d.by, x>>[2]
      BY <1>7
    <3> QED
      BY <1>3, <2>1, <3>5, <3>6
  <2> QED
    BY <2>2, <2>3
<1>8. ASSUME NEW c \in C, NEW d \in C, c.by # d.by, NEW x \in c.add
      PROVE  x \notin d.del
  <2> SUFFICES ASSUME x \in d.del PROVE FALSE
    OBVIOUS
  <2>1. <<c.by, x>> \in AddedAt(t) /\ <<d.by, x>> \in DeletedAt(t)
    BY <1>6
  <2>2. <<c.by, x>>[1] # <<d.by, x>>[1] /\ <<c.by, x>>[2] = <<d.by, x>>[2]
    BY <1>8
  <2> QED
    BY <1>3, <2>1, <2>2
<1>9. ASSUME NEW c \in C, NEW d \in C, c # d, NEW u \in c.upd, NEW v \in d.upd, u.fluent = v.fluent
      PROVE  u.op \in Additive /\ v.op \in Additive
  <2>1. c \in A /\ d \in A
    BY <1>4
  <2>2. PICK a \in ActionsAt(t) : c \in ClaimsOf(a, mark)
    BY <2>1 DEF AllClaims
  <2>3. PICK b \in ActionsAt(t) : d \in ClaimsOf(b, mark)
    BY <2>1 DEF AllClaims
  <2>4. c.by = d.by => c.from # d.from
    BY <1>1, <1>9, <2>2, <2>3, ClaimTold
  <2> DEFINE y == <<c.by, u, c.from>>
             z == <<d.by, v, d.from>>
  <2>5. y # z
    BY <2>4
  <2>6. y[2] = u /\ z[2] = v
    OBVIOUS
  <2>7. y \in UpdatedAt(t) /\ z \in UpdatedAt(t)
    BY <1>6
  <2> HIDE DEF y, z
  <2>8. u.op # "assign" /\ v.op # "assign"
    BY <1>3, <1>9, <2>5, <2>6, <2>7
  <2>9. u.op \in Additive \cup {"assign"} /\ v.op \in Additive \cup {"assign"}
    BY <1>1 DEF AreClaims, IsEffect
  <2> QED
    BY <2>8, <2>9
<1> HIDE DEF C
<1>10. Calm(C)
  BY <1>7, <1>8, <1>9 DEF Calm
<1> QED
  BY <1>10 DEF C

\* A claim that is refused means that the happening disturbs itself.
LEMMA RefusedDisturbs ==
  ASSUME NEW t, Due(t), NEW order \in Orders(t), ~AllGranted(Marked(order), Claims(order))
  PROVE  Disturbs(t)
<1>1. PICK mark : mark = (Len(order) > 1)
  OBVIOUS
<1> QED
  BY <1>1, UndisturbedCalm, CalmGranted

-----------------------------------------------------------------------------
(* A failure has a reason.                                                   *)

\* The context has the invariants of running actions only, and of those that
\* took no time, which may stay in it.
RunsAt(o, t) ==
    \E s \in Plan : /\ s.op = o /\ Op(o).durative /\ s.start <= t
                    /\ t < s.end \/ s.start = s.end
ContextRuns(inv, t) == \A o \in inv : RunsAt(o, t)

ContextRunsInv == Unfailed /\ kind # "END" => next \in Times /\ ContextRuns(invariants, next)

\* The actions that start, but for those that have ended.
LEMMA StartingRuns ==
  ASSUME problem \in Problems, NEW t, NEW late, NEW o \in Starting(t, late), Op(o).durative
  PROVE  RunsAt(o, t)
<1>1. PICK s \in Plan : s.op = o /\ s.start = t
  BY DEF Starting, StartsAt
<1>2. s.start \in Nat /\ s.end \in Nat /\ s.start <= s.end /\ \A r \in Plan : r.op = s.op => r = s
  BY StepTimes
<1>3. CASE s.end = t
  BY <1>1, <1>3, <1>2 DEF RunsAt
<1>4. CASE s.end # t
  <2>1. t < s.end
    BY <1>1, <1>2, <1>4
  <2> QED
    BY <1>1, <1>2, <2>1 DEF RunsAt
<1> QED
  BY <1>3, <1>4

\* The adjusted context has the invariants of the actions that run then.
LEMMA RunsAdjusted ==
  ASSUME problem \in Problems, NEW t \in Times, Later(t) # {}, NEW inv, ContextRuns(inv, t), NEW late
  PROVE  ContextRuns(AdjustInvariants(inv, NextTime(t), late), NextTime(t))
<1>1. /\ NextTime(t) \in Times /\ NextTime(t) > t
      /\ \A u \in Times : u <= t \/ u >= NextTime(t)
  BY NextNumber
<1>2. t \in Nat /\ NextTime(t) \in Nat
  BY <1>1, TimesFinite
<1>3. ASSUME NEW o \in inv \ EndsAt(NextTime(t)) PROVE RunsAt(o, NextTime(t))
  <2>1. PICK s \in Plan : /\ s.op = o /\ Op(o).durative /\ s.start <= t
                          /\ t < s.end \/ s.start = s.end
    BY <1>3 DEF ContextRuns, RunsAt
  <2>2. s.start \in Nat /\ s.end \in Nat /\ s.end \in Times
    BY <2>1, StepTimes
  <2>3. s.end # NextTime(t)
    BY <1>3, <2>1 DEF EndsAt
  <2>4. s.start <= NextTime(t)
    BY <1>1, <1>2, <2>1, <2>2
  <2>5. NextTime(t) < s.end \/ s.start = s.end
    BY <1>1, <1>2, <2>1, <2>2, <2>3
  <2> QED
    BY <2>1, <2>4, <2>5 DEF RunsAt
<1>4. ASSUME NEW o \in Starting(NextTime(t), late), Op(o).durative PROVE RunsAt(o, NextTime(t))
  BY <1>4, StartingRuns
<1> QED
  BY <1>3, <1>4 DEF ContextRuns, AdjustInvariants

\* It holds at first.
LEMMA InitRuns ==
  ASSUME Init
  PROVE  ContextRunsInv
<1> SUFFICES ASSUME kind # "END" PROVE next \in Times /\ ContextRuns(invariants, next)
  BY DEF ContextRunsInv
<1>1. problem \in Problems /\ Times # {} /\ next = Min(Times)
  BY DEF Init
<1>2. next \in Times
  BY <1>1, FirstNumber
<1>3. PICK late : invariants = AdjustInvariants({}, next, late)
  BY DEF Init
<1>4. \A o \in Starting(next, late) : Op(o).durative => RunsAt(o, next)
  BY <1>1, StartingRuns
<1> QED
  BY <1>2, <1>3, <1>4 DEF ContextRuns, AdjustInvariants

\* The iterator keeps it.
LEMMA AdvanceRuns ==
  ASSUME problem \in Problems, problem' = problem, next \in Times, ContextRuns(invariants, next),
         Advance, kind' # "END"
  PROVE  next' \in Times' /\ ContextRuns(invariants, next)'
<1>1. /\ Times' = Times
      /\ \A o, t : RunsAt(o, t)' <=> RunsAt(o, t)
  <2>1. Plan' = Plan /\ Times' = Times /\ \A o : Op(o)' = Op(o)
    BY PlanFixed
  <2> QED
    BY <2>1 DEF RunsAt
<1>2. Later(next) # {}
  BY DEF Advance
<1>3. CASE next' = next /\ invariants' = invariants
  BY <1>1, <1>3 DEF ContextRuns
<1>4. CASE next' = NextTime(next) /\ \E late : invariants' = AdjustInvariants(invariants, NextTime(next), late)
  <2>1. PICK late : invariants' = AdjustInvariants(invariants, NextTime(next), late)
    BY <1>4
  <2>2. ContextRuns(AdjustInvariants(invariants, NextTime(next), late), NextTime(next))
    BY <1>2, RunsAdjusted
  <2>3. ContextRuns(invariants', next')
    BY <1>4, <2>1, <2>2
  <2>4. NextTime(next) \in Times
    BY <1>2, NextNumber
  <2>5. \A o \in invariants' : RunsAt(o, next')
    BY <2>3 DEF ContextRuns
  <2>6. \A o \in invariants' : RunsAt(o, next)'
    <3>1. \A o : RunsAt(o, next') <=> RunsAt(o, next)'
      <4>1. Plan' = Plan /\ \A o : Op(o)' = Op(o)
        BY PlanFixed
      <4> QED
        BY <4>1 DEF RunsAt
    <3> QED
      BY <2>5, <3>1
  <2> QED
    BY <1>1, <1>4, <2>4, <2>6 DEF ContextRuns
<1> QED
  BY <1>2, <1>3, <1>4 DEF Advance

\* Every step keeps it.
LEMMA StepRuns ==
  ASSUME Inv, ContextRunsInv, [Next]_vars, ~ContinueAnyway
  PROVE  ContextRunsInv'
<1> SUFFICES ASSUME Unfailed', kind' # "END"
             PROVE  next' \in Times' /\ ContextRuns(invariants, next)'
  BY DEF ContextRunsInv
<1>1. problem \in Problems
  BY DEF Inv
<1>2. CASE UNCHANGED <<problem, next, kind, invariants>> /\ Unfailed
  <2>1. Times' = Times /\ Plan' = Plan /\ \A o : Op(o)' = Op(o)
    BY <1>2, PlanFixed
  <2>2. next \in Times /\ ContextRuns(invariants, next)
    BY <1>2 DEF ContextRunsInv
  <2> QED
    BY <1>2, <2>1, <2>2 DEF ContextRuns, RunsAt
<1>3. CASE ExecuteRegular \/ ExecuteInvariant
  <2>1. Unfailed /\ kind # "END" /\ Advance /\ problem' = problem
    BY <1>3 DEF ExecuteRegular, ExecuteInvariant, Executing, Unfailed
  <2>2. next \in Times /\ ContextRuns(invariants, next)
    BY <2>1 DEF ContextRunsInv
  <2> QED
    BY <1>1, <2>1, <2>2, AdvanceRuns
<1>4. CASE EndExecution
  BY <1>2, <1>4 DEF EndExecution, Unfailed, context
<1>5. CASE CheckGoal
  BY <1>5 DEF CheckGoal, Unfailed
<1>6. CASE UNCHANGED vars
  BY <1>2, <1>6 DEF vars, context, Unfailed
<1> QED
  BY <1>3, <1>4, <1>5, <1>6 DEF Next, Finished

\* The trace is the one it was, or goes on with states from the time s on.
GoesOn(s) ==
    /\ Len(trace) \in Nat /\ Len(trace') \in Nat /\ Len(trace) <= Len(trace') /\ s \in Int
    /\ \A k \in 1..Len(trace) : trace'[k] = trace[k] /\ trace[k].time \in Int
    /\ \A k \in 1..Len(trace') : k <= Len(trace) \/ (trace'[k].time \in Int /\ s <= trace'[k].time)

\* What has been violated at the time s is not satisfied later.
LEMMA ViolatedForGood ==
  ASSUME NEW c, NEW m, NEW s, GoesOn(s), Founded(c, m, trace, Len(trace), s), c \in m.violated,
         c.kind \in ConstraintKinds \ {"hold-after", "hold-during"}, c.by \in Int
  PROVE  ~Satisfied(c)'
<1> DEFINE L == Len(trace)
           N == Len(trace')
<1>1. /\ L \in Nat /\ N \in Nat /\ L <= N /\ s \in Int
      /\ \A k \in 1..L : k \in 1..N /\ trace'[k] = trace[k] /\ trace[k].time \in Int
      /\ \A k \in 1..N : k \in 1..L \/ (k > L /\ trace'[k].time \in Int /\ s <= trace'[k].time)
  BY DEF GoesOn
<1> HIDE DEF L, N
<1>2. CASE c.kind \in {"at-end", "sometime", "sometime-after"}
  BY <1>2 DEF Founded, FoundedSometime, FoundedAfter, L
<1>3. CASE c.kind = "always"
  <2>1. \E k \in 1..L : ~Shows(trace, k, c.p)
    BY <1>3 DEF Founded, FoundedAlways, L
  <2>2. PICK k \in 1..N : c.p \notin trace'[k].state
    BY <1>1, <2>1 DEF Shows
  <2> QED
    BY <1>3, <2>2 DEF Satisfied, Stages, Sees, N
<1>4. CASE c.kind = "within"
  <2>1. s > c.by /\ \A k \in 1..L : Shows(trace, k, c.p) => trace[k].time > c.by
    BY <1>4 DEF Founded, FoundedWithin, L
  <2>2. ASSUME NEW k \in 1..N, c.p \in trace'[k].state PROVE ~(trace'[k].time <= c.by)
    <3>1. CASE k \in 1..L
      <4>1. trace'[k] = trace[k] /\ trace[k].time \in Int
        BY <1>1, <3>1
      <4>2. trace[k].time > c.by
        BY <2>1, <2>2, <3>1, <4>1 DEF Shows
      <4> QED
        BY <4>1, <4>2
    <3>2. CASE trace'[k].time \in Int /\ s <= trace'[k].time
      BY <1>1, <2>1, <3>2
    <3> QED
      BY <1>1, <3>1, <3>2
  <2> QED
    BY <1>4, <2>2 DEF Satisfied, Stages, Sees, N
<1>5. CASE c.kind = "at-most-once"
  <2>1. PICK i \in 1..L, j \in 1..L, k \in 1..L :
            i < j /\ j < k /\ Shows(trace, i, c.p) /\ ~Shows(trace, j, c.p) /\ Shows(trace, k, c.p)
    BY <1>5 DEF Founded, FoundedOnce, L
  <2>2. /\ i \in 1..N /\ j \in 1..N /\ k \in 1..N
        /\ c.p \in trace'[i].state /\ c.p \notin trace'[j].state /\ c.p \in trace'[k].state
    BY <1>1, <2>1 DEF Shows
  <2> QED
    BY <1>5, <2>1, <2>2 DEF Satisfied, Stages, Sees, N
<1>6. CASE c.kind = "sometime-before"
  <2>1. PICK k \in 1..L : Shows(trace, k, c.q) /\ \A j \in 1..(k - 1) : ~Shows(trace, j, c.p)
    BY <1>6 DEF Founded, FoundedBefore, L
  <2>2. k \in 1..N /\ c.q \in trace'[k].state
    BY <1>1, <2>1 DEF Shows
  <2>3. \A j \in 1..(k - 1) : c.p \notin trace'[j].state
    BY <1>1, <2>1 DEF Shows
  <2> QED
    BY <1>6, <2>2, <2>3 DEF Satisfied, Stages, Sees, N
<1>7. CASE c.kind = "always-within"
  <2>1. PICK k \in 1..L :
            /\ Shows(trace, k, c.q) /\ s > trace[k].time + c.by
            /\ \A j \in k..L : Shows(trace, j, c.p) => trace[j].time > trace[k].time + c.by
    BY <1>7 DEF Founded, FoundedAlwaysWithin, L
  <2>2. k \in 1..N /\ c.q \in trace'[k].state /\ trace'[k] = trace[k] /\ trace[k].time \in Int
    BY <1>1, <2>1 DEF Shows
  <2>3. ASSUME NEW j \in k..N, c.p \in trace'[j].state
        PROVE  ~(trace'[j].time <= trace'[k].time + c.by)
    <3>1. j \in 1..N
      BY <1>1, <2>1
    <3>2. CASE j \in 1..L
      <4>1. j \in k..L /\ trace'[j] = trace[j] /\ trace[j].time \in Int
        BY <1>1, <3>2
      <4>2. trace[j].time > trace[k].time + c.by
        BY <2>1, <2>3, <4>1 DEF Shows
      <4> QED
        BY <2>2, <4>1, <4>2
    <3>3. CASE trace'[j].time \in Int /\ s <= trace'[j].time
      BY <1>1, <2>1, <2>2, <3>3
    <3> QED
      BY <1>1, <3>1, <3>2, <3>3
  <2> QED
    BY <1>7, <2>2, <2>3 DEF Satisfied, Stages, Sees, N
<1> QED
  BY <1>2, <1>3, <1>4, <1>5, <1>6, <1>7 DEF ConstraintKinds

\* A constraint that is to hold from some time on, or in a window, may be found
\* violated when the state that violates it is left.
NoHardHolds ==
    \A pr \in Problems : \A c \in pr.constraints : c.kind \in {"hold-after", "hold-during"} => c.pref

\* What RejectedForAReason says of a plan, but for its goal, part by part.
HappeningFails ==
    \E t \in Times : Number(t) = Len(trace) /\
        \/ Disturbs(t)
        \/ \E a \in ActionsAt(t) :
              \/ ~TrueBefore(Snap(a).pre, t)
              \/ a[2] = "start" /\ Op(a[1]).durative /\ DurationOf(a[1]) \notin Op(a[1]).durations
InvariantFails ==
    \E s \in {s \in Plan : Op(s.op).durative} :
        Len(trace) \in Inside(s) /\ ~TrueIn(Op(s.op).over, Len(trace))
ConstraintFails == \E c \in problem.constraints : ~c.pref /\ ~Satisfied(c)
Reason == HappeningFails \/ InvariantFails \/ ConstraintFails

\* A step that finds something serious has a reason, if it adds to the trace or not.
LEMMA SeriousReason ==
  ASSUME Inv, Unfailed, NoHardHolds, problem' = problem,
         tjm' = CheckAtState(tjm, state, time), ~NothingSerious(tjm'),
         \/ trace' = trace
         \/ \E r : r.time \in Int /\ time <= r.time /\ trace' = Append(trace, r)
  PROVE  ConstraintFails'
<1> DEFINE m == tjm'
           C == problem.constraints
<1>1. PICK c \in m.violated : ~c.pref
  BY DEF NothingSerious
<1>2. m \in Monitors(C) /\ Monitored(C, m, trace, Len(trace), time)
  BY LookTaken
<1>3. c \in C /\ Founded(c, m, trace, Len(trace), time)
  <2> HIDE DEF m, C
  <2>1. c \in C
    BY <1>2 DEF Monitors
  <2> QED
    BY <1>2, <2>1 DEF Monitored
<1>4. problem \in Problems /\ TraceInv /\ time \in Int
  BY DEF Inv, TimeInv
<1>5. c.kind \in ConstraintKinds \ {"hold-after", "hold-during"} /\ c.by \in Int
  BY <1>1, <1>3, <1>4, ProblemsAssumption DEF NoHardHolds
<1>6. GoesOn(time)
  <2>1. CASE trace' = trace
    BY <1>4, <2>1 DEF GoesOn, TraceInv
  <2>2. ASSUME NEW r, r.time \in Int, time <= r.time, trace' = Append(trace, r) PROVE GoesOn(time)
    <3>1. /\ Len(trace) \in Nat /\ Len(trace') = Len(trace) + 1
          /\ trace'[Len(trace) + 1] = r /\ \A k \in 1..Len(trace) : trace'[k] = trace[k]
      BY <1>4, <2>2, TraceExtended
    <3>2. \A k \in 1..Len(trace') : k <= Len(trace) \/ k = Len(trace) + 1
      BY <3>1
    <3> QED
      BY <1>4, <2>2, <3>1, <3>2 DEF GoesOn, TraceInv
  <2> QED
    BY <2>1, <2>2
<1>7. ~Satisfied(c)'
  BY <1>3, <1>5, <1>6, ViolatedForGood
<1> QED
  BY <1>1, <1>3, <1>7 DEF ConstraintFails

\* A reason stays one while neither the plan nor the trace changes.
LEMMA SameReason ==
  ASSUME problem \in Problems, UNCHANGED <<problem, trace>>
  PROVE  /\ HappeningFails => HappeningFails'
         /\ InvariantFails => InvariantFails'
         /\ ConstraintFails => ConstraintFails'
         /\ (Applied = Times /\ ~(problem.goal \subseteq Final.state)) =>
                (Applied = Times /\ ~(problem.goal \subseteq Final.state))'
<1>1. /\ Plan' = Plan /\ Times' = Times
      /\ \A t : Number(t)' = Number(t) /\ ActionsAt(t)' = ActionsAt(t)
      /\ \A o : Op(o)' = Op(o) /\ DurationOf(o)' = DurationOf(o)
      /\ \A a : Snap(a)' = Snap(a)
      /\ \A s : Inside(s)' = Inside(s)
  BY PlanFixed
<1>2. ASSUME NEW t \in Times PROVE Disturbs(t)' <=> Disturbs(t)
  <2>1. EffectsAt(t)' = EffectsAt(t) /\ RequiredAt(t)' = RequiredAt(t)
    BY SameEffects
  <2>2. AddedAt(t)' = AddedAt(t) /\ DeletedAt(t)' = DeletedAt(t) /\ UpdatedAt(t)' = UpdatedAt(t)
    BY <2>1 DEF AddedAt, DeletedAt, UpdatedAt
  <2> QED
    BY <2>1, <2>2 DEF Disturbs
<1>3. \A c, t : TrueBefore(c, t)' <=> TrueBefore(c, t)
  BY <1>1 DEF TrueBefore, TrueIn
<1>4. \A c, k : TrueIn(c, k)' <=> TrueIn(c, k)
  BY DEF TrueIn
<1>5. HappeningFails => HappeningFails'
  <2> SUFFICES ASSUME HappeningFails PROVE HappeningFails'
    OBVIOUS
  <2>1. PICK t \in Times :
          /\ Number(t) = Len(trace)
          /\ \/ Disturbs(t)
             \/ \E a \in ActionsAt(t) :
                   \/ ~TrueBefore(Snap(a).pre, t)
                   \/ a[2] = "start" /\ Op(a[1]).durative /\ DurationOf(a[1]) \notin Op(a[1]).durations
    BY DEF HappeningFails
  <2>2. t \in Times' /\ Number(t)' = Len(trace')
    BY <1>1, <2>1
  <2>3. CASE Disturbs(t)
    BY <1>2, <2>2, <2>3 DEF HappeningFails
  <2>4. CASE \E a \in ActionsAt(t) :
               \/ ~TrueBefore(Snap(a).pre, t)
               \/ a[2] = "start" /\ Op(a[1]).durative /\ DurationOf(a[1]) \notin Op(a[1]).durations
    <3>1. PICK a \in ActionsAt(t) :
               \/ ~TrueBefore(Snap(a).pre, t)
               \/ a[2] = "start" /\ Op(a[1]).durative /\ DurationOf(a[1]) \notin Op(a[1]).durations
      BY <2>4
    <3>2. a \in ActionsAt(t)' /\ Op(a[1])' = Op(a[1]) /\ DurationOf(a[1])' = DurationOf(a[1])
      BY <1>1
    <3>3. TrueBefore(Snap(a).pre, t)' <=> TrueBefore(Snap(a).pre, t)
      BY <1>1, <1>3 DEF TrueBefore, TrueIn
    <3> QED
      BY <2>2, <3>1, <3>2, <3>3 DEF HappeningFails
  <2> QED
    BY <2>1, <2>3, <2>4
<1>6. InvariantFails => InvariantFails'
  BY <1>1 DEF InvariantFails, TrueIn
<1>7. ConstraintFails => ConstraintFails'
  BY SamePlan DEF ConstraintFails
<1> QED
  BY <1>1, <1>5, <1>6, <1>7 DEF Applied, Final

\* A regular step that fails has a reason.
LEMMA RegularReason ==
  ASSUME Inv, StatusInv, ~ContinueAnyway, NoHardHolds, ExecuteRegular, ~isOK'
  PROVE  Reason'
<1>1. Due(next) /\ Unfailed
  BY RegularDue
<1>2. PICK t \in Times : next = t /\ Number(t) = Len(trace) /\ Due(t)
  <2>1. next \in Times /\ Number(next) = Len(trace)
    BY <1>1 DEF Due
  <2> QED
    BY <1>1, <2>1
<1>3. problem \in Problems /\ problem' = problem /\ tjm' = CheckAtState(tjm, state, time)
  BY DEF Inv, ExecuteRegular
<1>4. PICK order \in Orders(next) :
         LET applied == AllGranted(Marked(order), Claims(order)) IN
         /\ isOK' = (NothingSerious(tjm') /\ CanHappen(next) /\ applied)
         /\ IF CanHappen(next) /\ applied
            THEN trace' = Append(trace, [time |-> next, state |-> state', values |-> values'])
            ELSE trace' = trace
  BY DEF ExecuteRegular
<1>5. CASE ~CanHappen(t)
  <2>1. PICK a \in ActionsAt(t) : ~Confirmed(a)
    BY <1>5 DEF CanHappen
  <2>2. TrueBefore(Snap(a).pre, t) <=> IsTrue(Snap(a).pre, state, values)
    BY <1>2, StateBefore
  <2>3. HappeningFails
    BY <1>2, <2>1, <2>2 DEF Confirmed, HappeningFails
  <2> QED
    BY <1>2, <1>3, <1>4, <1>5, <2>3, SameReason DEF Reason
<1>6. CASE CanHappen(t) /\ ~AllGranted(Marked(order), Claims(order))
  <2>1. Disturbs(t)
    BY <1>2, <1>4, <1>6, RefusedDisturbs
  <2>2. HappeningFails
    BY <1>2, <2>1 DEF HappeningFails
  <2> QED
    BY <1>2, <1>3, <1>4, <1>6, <2>2, SameReason DEF Reason
<1>7. CASE ~NothingSerious(tjm')
  <2> DEFINE r == [time |-> next, state |-> state', values |-> values']
  <2>1. t \in Nat /\ time <= next
    BY <1>1, <1>2, <1>3, TimesFinite DEF Due, Inv, TimeInv
  <2>2. r.time \in Int /\ time <= r.time
    BY <1>2, <2>1
  <2>3. trace' = trace \/ trace' = Append(trace, r)
    BY <1>4
  <2> HIDE DEF r
  <2>4. \/ trace' = trace
        \/ \E q : q.time \in Int /\ time <= q.time /\ trace' = Append(trace, q)
    BY <2>2, <2>3
  <2> QED
    BY <1>1, <1>3, <1>7, <2>4, SeriousReason DEF Reason
<1> QED
  BY <1>2, <1>4, <1>5, <1>6, <1>7

\* An action with an invariant takes some time: the invariant of one that takes
\* none may stay in the context when it has ended.
InvariantsTakeTime ==
    \A d \in DOMAIN Domains : \A o \in DOMAIN Domains[d] :
        Goals(Domains[d][o].cond, "over") # {} => 0 \notin Domains[d][o].durations

\* An invariant that is found false is the one of a running action.
LEMMA InvariantReason ==
  ASSUME Inv, ContextRunsInv, ~ContinueAnyway, NoHardHolds, InvariantsTakeTime,
         ExecuteInvariant, ~isOK'
  PROVE  Reason'
<1>1. Unfailed /\ kind = "INVARIANT" /\ problem \in Problems /\ UNCHANGED <<problem, trace>>
  BY DEF ExecuteInvariant, Executing, Unfailed, Inv
<1>2. tjm' = CheckAtState(tjm, state, time)
  BY DEF ExecuteInvariant
<1>3. CASE ~NothingSerious(tjm')
  BY <1>1, <1>2, <1>3, SeriousReason DEF Reason
<1>4. CASE \E o \in invariants : ~IsTrue(Op(o).over, state, values)
  <2>1. PICK o \in invariants : ~IsTrue(Op(o).over, state, values)
    BY <1>4
  <2>2. PICK t \in Times : next = t /\ Number(t) + 1 = Len(trace)
    BY <1>1 DEF Inv, PlaceInv
  <2>3. PICK s \in Plan : /\ s.op = o /\ Op(o).durative /\ s.start <= t
                          /\ t < s.end \/ s.start = s.end
    BY <1>1, <2>1, <2>2 DEF ContextRunsInv, ContextRuns, RunsAt
  <2>4. /\ s.start \in Times /\ s.start \in Nat /\ s.end \in Nat
        /\ <<s.op, "start">> \in ActionsAt(s.start)
        /\ \A r \in Plan : r.op = s.op => r = s
    BY <1>1, StepTimes
  <2>5. CASE t < s.end
    <3>1. Len(trace) \in Inside(s)
      BY <1>1, <2>2, <2>3, <2>5, RunsAfter
    <3>2. ~TrueIn(Op(s.op).over, Len(trace))
      BY <1>1, <2>1, <2>3 DEF Inv, TraceInv, TrueIn
    <3>3. InvariantFails
      BY <2>3, <3>1, <3>2 DEF InvariantFails
    <3> QED
      BY <1>1, <3>3, SameReason DEF Reason
  <2>6. CASE s.start = s.end
    <3>1. Number(s.start) < Len(trace)
      <4>1. /\ Number(s.start) \in Nat /\ Number(t) \in Nat
            /\ t < s.start <=> Number(t) < Number(s.start)
            /\ t \in Nat
        BY <1>1, <2>4, InOrder
      <4> QED
        BY <2>2, <2>3, <2>4, <4>1
    <3> DEFINE a == <<s.op, "start">>
    <3>2. a[1] = o /\ a[2] = "start" /\ a \in ActionsAt(s.start)
      BY <2>3, <2>4
    <3> HIDE DEF a
    <3>3. DurationOf(o) \in Op(o).durations
      BY <1>1, <2>3, <2>4, <3>1, <3>2 DEF Inv, DoneInv
    <3>4. DurationOf(o) = 0
      <4>1. (CHOOSE r \in Plan : r.op = o) = s
        BY <2>3, <2>4
      <4>2. DurationOf(o) = s.end - s.start
        BY <4>1 DEF DurationOf
      <4>3. s.end - s.start = 0
        BY <2>4, <2>6
      <4> QED
        BY <4>2, <4>3
    <3>5. Op(o).over # {}
      BY <2>1 DEF IsTrue
    <3>6. /\ problem.domain \in DOMAIN Domains /\ o \in DOMAIN Domains[problem.domain]
          /\ Op(o) = HandleDurativeAction(Written(s))
      <4>1. PICK r \in Plan :
              /\ problem.domain \in DOMAIN Domains /\ r.op \in DOMAIN Domains[problem.domain]
              /\ Op(r.op) = HandleDurativeAction(Written(r))
              /\ a = <<r.op, "start">> \/ a = <<r.op, "end">>
        BY <1>1, <3>2, ActionStep
      <4>2. r = s
        BY <2>3, <2>4, <3>2, <4>1
      <4> QED
        BY <2>3, <4>1, <4>2
    <3>7. Op(o).over = Goals(Domains[problem.domain][o].cond, "over")
          /\ Op(o).durations = Domains[problem.domain][o].durations
      BY <2>3, <3>6 DEF HandleDurativeAction, Written
    <3> QED
      BY <3>3, <3>4, <3>5, <3>6, <3>7 DEF InvariantsTakeTime
  <2> QED
    BY <2>3, <2>5, <2>6
<1> QED
  BY <1>3, <1>4 DEF ExecuteInvariant

\* A goal check that fails has a reason, too.
LEMMA GoalReason ==
  ASSUME Inv, NoHardHolds, CheckGoal, phase' = "invalid"
  PROVE  RejectedForAReason'
<1>1. /\ Unfailed /\ phase = "goal" /\ problem \in Problems /\ UNCHANGED <<problem, trace>>
      /\ TraceInv /\ kind = "END" /\ Len(trace) = Cardinality(Times) + 1
  BY DEF CheckGoal, Unfailed, Inv, PlaceInv
<1>2. CASE ~(problem.goal \subseteq state)
  <2>1. Applied = Times
    <3>1. \A t \in Times : Number(t) \in 1..Cardinality(Times)
      BY <1>1, Numbered
    <3>2. Cardinality(Times) \in Nat
      BY <1>1, TimesFinite, FS_CardinalityType
    <3> QED
      BY <1>1, <3>1, <3>2 DEF Applied
  <2>2. Final.state = state
    BY <1>1 DEF TraceInv, Final
  <2>3. (Applied = Times /\ ~(problem.goal \subseteq Final.state))'
    BY <1>1, <1>2, <2>1, <2>2, SameReason
  <2> QED
    BY <2>3 DEF RejectedForAReason
<1>3. CASE problem.goal \subseteq state
  <2>1. tjm' = CheckFinalState(tjm, state, time) /\ ~NothingSerious(tjm')
    BY <1>3 DEF CheckGoal
  <2>2. PICK c \in tjm'.violated : ~c.pref
    BY <2>1 DEF NothingSerious
  <2>3. tjm \in Monitors(problem.constraints) /\ time \in Int /\ \A d \in problem.constraints : d.by \in Int
    BY <1>1, LookDue, ProblemsAssumption DEF Inv, TimeInv
  <2>4. c \in problem.constraints
    <3> DEFINE o == CheckAtState(tjm, state, time)
    <3>1. o \in Monitors(problem.constraints)
      BY <2>3, Checked
    <3>2. tjm'.violated =
            o.violated \cup {d \in o.atEnd : d.p \notin state} \cup o.sometime \cup {w[1] : w \in o.within}
      BY <2>1, <2>3, FinallyChecked
    <3> HIDE DEF o
    <3>3. /\ o.violated \subseteq problem.constraints /\ o.atEnd \subseteq problem.constraints
          /\ o.sometime \subseteq problem.constraints /\ o.within \subseteq problem.constraints \X Int
      BY <3>1 DEF Monitors
    <3> QED
      BY <2>2, <3>2, <3>3
  <2>5. c.kind \notin {"hold-after", "hold-during"}
    BY <1>1, <2>2, <2>4 DEF NoHardHolds
  <2>6. ~Satisfied(c)
    <3>1. ~AskedFor(c)
      BY <1>1, <2>1, <2>2, <2>4, <2>5, CountIsRight
    <3> QED
      BY <2>5, <3>1 DEF AskedFor
  <2>7. ConstraintFails
    BY <2>2, <2>4, <2>6 DEF ConstraintFails
  <2>8. ConstraintFails'
    BY <1>1, <2>7, SameReason
  <2> QED
    BY <2>8 DEF RejectedForAReason, ConstraintFails
<1> QED
  BY <1>2, <1>3

\* Where an execution that failed stands.
FailedInv ==
    /\ phase = "execute" /\ ~isOK => Reason
    /\ RejectedForAReason

\* Every step keeps it.
LEMMA StepFailed ==
  ASSUME Inv, StatusInv, ContextRunsInv, FailedInv, [Next]_vars, ~ContinueAnyway,
         NoHardHolds, InvariantsTakeTime
  PROVE  FailedInv'
<1>1. problem \in Problems
  BY DEF Inv
<1>2. CASE ExecuteRegular
  <2>1. phase' = "execute"
    BY <1>2 DEF ExecuteRegular, Executing
  <2>2. ~isOK' => Reason'
    BY <1>2, RegularReason
  <2> QED
    BY <2>1, <2>2 DEF FailedInv, RejectedForAReason
<1>3. CASE ExecuteInvariant
  <2>1. phase' = "execute"
    BY <1>3 DEF ExecuteInvariant, Executing
  <2>2. ~isOK' => Reason'
    BY <1>3, InvariantReason
  <2> QED
    BY <2>1, <2>2 DEF FailedInv, RejectedForAReason
<1>4. CASE EndExecution
  <2>1. /\ UNCHANGED <<problem, trace>> /\ phase = "execute"
        /\ phase' \in {"goal", "invalid"} /\ (phase' = "invalid" => ~isOK)
    BY <1>4 DEF EndExecution
  <2>2. phase' = "invalid" => Reason'
    BY <1>1, <2>1, SameReason DEF FailedInv, Reason
  <2>3. Reason' => RejectedForAReason'
    BY DEF Reason, HappeningFails, InvariantFails, ConstraintFails, RejectedForAReason
  <2> QED
    BY <2>1, <2>2, <2>3 DEF FailedInv, RejectedForAReason
<1>5. CASE CheckGoal
  <2>1. phase' \in {"valid", "invalid"}
    BY <1>5 DEF CheckGoal
  <2>2. RejectedForAReason'
    <3>1. phase' # "invalid" => RejectedForAReason'
      BY DEF RejectedForAReason
    <3> QED
      BY <1>5, <3>1, GoalReason
  <2> QED
    BY <2>1, <2>2 DEF FailedInv
<1>6. CASE UNCHANGED vars
  <2>1. UNCHANGED <<problem, trace, phase, isOK>>
    BY <1>6 DEF vars
  <2>2. CASE phase = "invalid"
    <3>1. Reason \/ (Applied = Times /\ ~(problem.goal \subseteq Final.state))
      BY <2>2 DEF FailedInv, RejectedForAReason, Reason, HappeningFails, InvariantFails, ConstraintFails
    <3>2. Reason' \/ (Applied = Times /\ ~(problem.goal \subseteq Final.state))'
      BY <1>1, <2>1, <3>1, SameReason DEF Reason
    <3>3. RejectedForAReason'
      BY <3>2 DEF Reason, HappeningFails, InvariantFails, ConstraintFails, RejectedForAReason
    <3> QED
      BY <2>1, <2>2, <3>3 DEF FailedInv
  <2>3. CASE phase # "invalid"
    <3>1. phase = "execute" /\ ~isOK => Reason'
      BY <1>1, <2>1, SameReason DEF FailedInv, Reason
    <3> QED
      BY <2>1, <2>3, <3>1 DEF FailedInv, RejectedForAReason
  <2> QED
    BY <2>2, <2>3
<1> QED
  BY <1>2, <1>3, <1>4, <1>5, <1>6 DEF Next, Finished

\* A plan VAL rejects has a fault: the happening that was to come next has an
\* action that cannot be applied or is disturbed by another one, an invariant
\* is false in the last state, or the goal or a constraint is not met (Ownership,
\* Happening::canHappen, ExecutionContext, TrajectoryConstraintsMonitor), in
\* every domain where an action with an invariant takes some time, and for every
\* problem where constraints to hold from some time on are preferences.
THEOREM RejectedPlansHaveAReason ==
  ASSUME ~ContinueAnyway, NoHardHolds, InvariantsTakeTime
  PROVE  Spec => []RejectedForAReason
<1> DEFINE IInv == Inv /\ StatusInv /\ ContextRunsInv /\ FailedInv
<1>1. Init => IInv
  <2> SUFFICES ASSUME Init PROVE IInv
    OBVIOUS
  <2>1. Inv /\ StatusInv /\ ContextRunsInv
    BY InitInv, InitStatus, InitRuns
  <2>2. isOK = TRUE /\ phase = "execute"
    BY DEF Init
  <2> QED
    BY <2>1, <2>2 DEF FailedInv, RejectedForAReason
<1>2. IInv /\ [Next]_vars => IInv'
  BY StepInv, StepStatus, StepRuns, StepFailed
<1>3. IInv => RejectedForAReason
  BY DEF FailedInv
<1> QED
  BY <1>1, <1>2, <1>3, PTL DEF Spec
=============================================================================
