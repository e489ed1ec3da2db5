---------------------------- MODULE EHCSearchProofs ----------------------------
(***************************************************************************)
(* Proofs about EHCSearch, for every search space.  The invariant says     *)
(* that the best state is a goal, the start or better than the start, and  *)
(* that LIMIT is zero between turns, since an evaluation that gives up has *)
(* raised it beyond MaxLimit and ends the search.                          *)
(***************************************************************************)
EXTENDS EHCSearch, SequenceTheorems, FiniteSetTheorems, TLAPS

\* A walk so far has improved on its start, and LIMIT is zero.
Climbing(s) == s \in Goals \cup {start} \/ H[s] < H[start]

Inv ==
    /\ TypeOK
    /\ limit = 0
    /\ Climbing(bestState)
    /\ phase = "begin" => bestState = start
    /\ ResultImproves

\* What an evaluation may report: a state that improves, or a LIMIT that is
\* unchanged or at least MaxLimit.
LEMMA ReportShape ==
  ASSUME NEW S \in SUBSET States, NEW h \in Nat,
         NEW report \in Results(S, h, 0)
  PROVE  /\ report.limit \in Nat
         /\ report.limit = 0 \/ report.limit >= MaxLimit
         /\ report.best = NoState \/ (report.best \in S /\ Improves(report.best, h))
<1>1. MaxLimit \in Nat \ {0} /\ EvaluationSize \in Nat \ {0}
  BY LimitAssumption
<1>2. \A l \in MaxLimit .. MaxLimit + EvaluationSize - 1 : l \in Nat /\ l >= MaxLimit
  BY <1>1
<1>3. \/ \E s \in {t \in S : Improves(t, h)} : report = [best |-> s, limit |-> 0]
      \/ \E l \in MaxLimit .. MaxLimit + EvaluationSize - 1 :
           report = [best |-> NoState, limit |-> l]
      \/ report = [best |-> NoState, limit |-> 0]
  <2> DEFINE Found == {[best |-> s, limit |-> 0] : s \in {t \in S : Improves(t, h)}}
             GivenUp == {[best |-> NoState, limit |-> l] :
                            l \in MaxLimit .. MaxLimit + EvaluationSize - 1}
             Interrupted == {[best |-> NoState, limit |-> 0]}
  <2>1. report \in Found \cup GivenUp \cup Interrupted
    BY DEF Results
  <2> QED
    BY <2>1
<1> QED
  BY <1>2, <1>3

\* The initial states satisfy the invariant.
LEMMA InitInv == Init => Inv
  BY SearchAssumption DEF Init, Inv, TypeOK, Climbing, ResultImproves

\* One turn of the loop keeps it.
LEMMA TurnInv == ASSUME Inv, NEW s \in Range(open), Turn(s) PROVE Inv'
<1>0. /\ open \in Seq(States) /\ open # <<>> /\ s \in States /\ Tail(open) \in Seq(States)
      /\ LookAhead[s] \in States /\ bestHValue \in Nat /\ bestState \in States
      /\ phase = "search" /\ limit = 0 /\ start \in States /\ H[start] \in Nat
      /\ \A t \in States : <<t>> \in Seq(States) /\ H[t] \in Nat
      /\ result = NoState
  <2>1. open \in Seq(States) /\ DOMAIN open = 1 .. Len(open) /\ Len(open) \in Nat
    BY DEF Inv, TypeOK
  <2>2. open # <<>> /\ s \in States
    BY <2>1 DEF Range
  <2>3. phase = "search"
    BY DEF Turn, Raise, LookAheadReachesGoal, LookAheadImproves, EvaluateNeighbours,
           Continuing
  <2>4. limit = 0 /\ bestState \in States /\ start \in States /\ result = NoState
    BY <2>3, SearchAssumption DEF Inv, TypeOK
  <2>5. \A t \in States : <<t>> \in Seq(States) /\ H[t] \in Nat /\ LookAhead[t] \in States
    BY SearchAssumption
  <2> QED
    BY <2>1, <2>2, <2>3, <2>4, <2>5 DEF bestHValue
<1>1. CASE Raise(s) \/ LookAheadReachesGoal(s)
  <2>1. /\ open' = Tail(open) /\ UNCHANGED <<start, bestState, limit>>
        /\ \/ phase' = "raised" /\ result' = NoState
           \/ phase' = "returned" /\ result' \in Goals
    BY <1>0, <1>1 DEF Raise, LookAheadReachesGoal
  <2>2. TypeOK'
    BY <1>0, <2>1, SearchAssumption DEF Inv, TypeOK
  <2>3. ResultImproves' /\ Climbing(bestState)'
    BY <1>0, <2>1 DEF Inv, Climbing, ResultImproves
  <2> QED
    BY <1>0, <2>1, <2>2, <2>3 DEF Inv
<1>2. CASE LookAheadImproves(s)
  <2>1. Climbing(LookAhead[s])
    BY <1>0, <1>2, SearchAssumption DEF LookAheadImproves, Inv, Climbing, bestHValue
  <2> QED
    BY <1>0, <1>2, <2>1
       DEF LookAheadImproves, Inv, TypeOK, Climbing, ResultImproves
<1>3. CASE EvaluateNeighbours(s)
  <2> DEFINE Filtered == FilterGoalRemovingState(s)
  <2>1. Filtered \in SUBSET States
    BY <1>0, SearchAssumption DEF FilterGoalRemovingState
  <2>2. PICK report \in Results(Filtered, bestHValue, 0) :
            \/ /\ report.best \in States \ Failing
               /\ bestState' = report.best
               /\ open' = <<report.best>>
               /\ GiveUpAtLimit(report.limit)
            \/ /\ report.best \in Failing
               /\ phase' = "raised"
               /\ open' = Tail(open)
               /\ UNCHANGED <<bestState, limit, result>>
            \/ /\ report.best = NoState
               /\ \E order \in SetToSeqs(Filtered) : open' = Tail(open) \o order
               /\ UNCHANGED bestState
               /\ GiveUpAtLimit(report.limit)
    BY <1>0, <1>3 DEF EvaluateNeighbours
  <2>3. /\ report.limit \in Nat
        /\ report.limit = 0 \/ report.limit >= MaxLimit
        /\ report.best = NoState
             \/ (report.best \in States /\ Improves(report.best, bestHValue))
    BY <1>0, <2>1, ReportShape
  <2>4. start' = start /\ MaxLimit \in Nat \ {0} /\ NoState \notin States
    BY <1>3, LimitAssumption, SearchAssumption DEF EvaluateNeighbours
  <2>5. ASSUME GiveUpAtLimit(report.limit), bestState' \in States, Climbing(bestState'),
               open' \in Seq(States)
        PROVE  Inv'
    <3>1. limit' = 0
      BY <2>3, <2>4, <2>5 DEF GiveUpAtLimit
    <3>2. \/ phase' = "search" /\ result' = NoState
          \/ phase' = "returned" /\ result' = bestState'
      BY <2>5 DEF GiveUpAtLimit
    <3>3. TypeOK'
      <4>1. start \in Starts
        BY DEF Inv, TypeOK
      <4> QED
        BY <2>4, <2>5, <3>1, <3>2, <4>1 DEF TypeOK
    <3>4. ResultImproves' /\ Climbing(bestState)'
      BY <2>4, <2>5, <3>2 DEF ResultImproves, Climbing
    <3> QED
      BY <3>1, <3>2, <3>3, <3>4 DEF Inv
  <2>6. CASE report.best \in States \ Failing /\ bestState' = report.best
             /\ open' = <<report.best>> /\ GiveUpAtLimit(report.limit)
    <3>1. Climbing(report.best)
      BY <1>0, <2>3, <2>4, <2>6, SearchAssumption DEF Improves, Inv, Climbing, bestHValue
    <3> QED
      BY <1>0, <2>5, <2>6, <3>1
  <2>7. CASE report.best \in Failing /\ phase' = "raised" /\ open' = Tail(open)
             /\ UNCHANGED <<bestState, limit, result>>
    BY <1>0, <2>4, <2>7 DEF Inv, TypeOK, Climbing, ResultImproves
  <2>8. CASE report.best = NoState /\ UNCHANGED bestState /\ GiveUpAtLimit(report.limit)
             /\ \E order \in SetToSeqs(Filtered) : open' = Tail(open) \o order
    <3>1. Cardinality(Filtered) \in Nat
      <4>1. IsFiniteSet(Neighbours[s])
        BY <1>0, SearchAssumption
      <4>2. IsFiniteSet(Filtered)
        BY <4>1, FS_Subset DEF FilterGoalRemovingState
      <4> QED
        BY <4>2, FS_CardinalityType
    <3>2. \A order \in SetToSeqs(Filtered) : order \in Seq(States)
      BY <2>1, <3>1 DEF SetToSeqs
    <3>3. open' \in Seq(States)
      BY <1>0, <2>8, <3>2
    <3> QED
      BY <1>0, <2>5, <2>8, <3>3 DEF Inv, Climbing
  <2> QED
    BY <2>2, <2>6, <2>7, <2>8
<1> QED
  BY <1>1, <1>2, <1>3 DEF Turn

\* Every step keeps the invariant.
LEMMA NextInv == Inv /\ [Next]_vars => Inv'
<1> SUFFICES ASSUME Inv, [Next]_vars PROVE Inv'
  OBVIOUS
<1>1. CASE StartIsGoal \/ OpenStart \/ OpenExhausted
  <2>1. start \in States /\ <<start>> \in Seq(States)
    BY SearchAssumption DEF Inv, TypeOK
  <2> QED
    BY <1>1, <2>1
       DEF StartIsGoal, OpenStart, OpenExhausted, Inv, TypeOK, Climbing, ResultImproves
<1>2. CASE \E s \in Range(open) : Turn(s)
  BY <1>2, TurnInv
<1>3. CASE UNCHANGED vars
  BY <1>3 DEF Inv, vars, TypeOK, Climbing, ResultImproves
<1> QED
  BY <1>1, <1>2, <1>3 DEF Next

\* The strengthened invariant holds throughout.
LEMMA Invariance == Spec => []Inv
  BY InitInv, NextInv, PTL DEF Spec

-----------------------------------------------------------------------------

\* The fields of the search keep their types, whatever the search space.
THEOREM SearchTypeCorrect == Spec => []TypeOK
<1>1. Inv => TypeOK
  BY DEF Inv
<1> QED
  BY <1>1, Invariance, PTL

\* The walk of every search space returns a goal, its start or better: what
\* BestPerforming assumes of Walk.
THEOREM WalkImproves == Spec => []ResultImproves
<1>1. Inv => ResultImproves
  BY DEF Inv
<1> QED
  BY <1>1, Invariance, PTL

\* Every search leaves the static LIMIT at zero for the next.
THEOREM LimitAtZero == Spec => []LimitLeftAtZero
<1>1. Inv => LimitLeftAtZero
  BY DEF Inv, LimitLeftAtZero
<1> QED
  BY <1>1, Invariance, PTL

\* Look-ahead and evaluation alike replace the best state only by a strictly
\* better one or a goal.
THEOREM ClimbingEnforced == Spec => BestOnlyImproves
<1> DEFINE Rises == bestState' # bestState => bestState' \in Goals \/ H[bestState'] < H[bestState]
<1>1. ASSUME Inv, [Next]_vars PROVE Rises
  <2> SUFFICES ASSUME bestState' # bestState
               PROVE  bestState' \in Goals \/ H[bestState'] < H[bestState]
    OBVIOUS
  <2>1. PICK s \in Range(open) : LookAheadImproves(s) \/ EvaluateNeighbours(s)
    BY <1>1 DEF Next, Turn, StartIsGoal, OpenStart, OpenExhausted, Raise,
                LookAheadReachesGoal, vars
  <2>2. CASE LookAheadImproves(s)
    BY <2>2 DEF LookAheadImproves, bestHValue
  <2>3. CASE EvaluateNeighbours(s)
    <3>1. s \in States /\ bestHValue \in Nat /\ limit = 0
      BY <1>1, SearchAssumption DEF Inv, TypeOK, Range, bestHValue
    <3>2. FilterGoalRemovingState(s) \in SUBSET States
      BY <3>1, SearchAssumption DEF FilterGoalRemovingState
    <3>3. PICK report \in Results(FilterGoalRemovingState(s), bestHValue, 0) :
                 report.best \in States /\ bestState' = report.best
      BY <2>3, <3>1 DEF EvaluateNeighbours
    <3>4. Improves(report.best, bestHValue)
      BY <3>1, <3>2, <3>3, ReportShape, SearchAssumption
    <3> QED
      BY <3>3, <3>4 DEF Improves, bestHValue
  <2> QED
    BY <2>1, <2>2, <2>3
<1>2. Inv /\ [Next]_vars => [Rises]_vars
  BY <1>1
<1> QED
  BY <1>2, Invariance, PTL DEF Spec, BestOnlyImproves

-----------------------------------------------------------------------------
(***************************************************************************)
(* What is opened besides the best state.  An evaluation that reports no   *)
(* state and leaves LIMIT below its bound is one of no neighbours or one   *)
(* that threw; every other end of a turn leaves the best state alone open  *)
(* or leaves the search.                                                   *)
(***************************************************************************)

\* None is reported at a LIMIT below its bound only by an interrupted or an
\* empty evaluation.
LEMMA NoneBelowLimit ==
  ASSUME NEW S \in SUBSET States, NEW h \in Nat,
         NEW report \in Results(S, h, 0),
         report.best = NoState, ~ (report.limit >= MaxLimit)
  PROVE  S = {} \/ S \cap Failing # {}
<1> DEFINE Found == {[best |-> s, limit |-> 0] : s \in {t \in S : Improves(t, h)}}
           GivenUp == {[best |-> NoState, limit |-> l] :
                          l \in MaxLimit .. MaxLimit + EvaluationSize - 1}
<1>1. \A l \in MaxLimit .. MaxLimit + EvaluationSize - 1 : l >= MaxLimit
  BY LimitAssumption
<1>2. report \notin GivenUp
  BY <1>1
<1>3. report \notin Found
  BY SearchAssumption
<1>4. \/ report \in Found
      \/ report \in GivenUp
      \/ S = {} \/ S \cap Failing # {}
  BY DEF Results
<1> QED
  BY <1>2, <1>3, <1>4

\* The sequences of a finite set of states are sequences of states.
LEMMA OrderOfStates ==
  ASSUME NEW S \in SUBSET States, IsFiniteSet(S), NEW order \in SetToSeqs(S)
  PROVE  order \in Seq(States) /\ Range(order) \subseteq S
<1>1. Cardinality(S) \in Nat
  BY FS_CardinalityType
<1> QED
  BY <1>1 DEF SetToSeqs, Range

\* What is removed from the front of a list, and what is appended to it.
LEMMA OpenedFrom ==
  ASSUME NEW s \in Seq(States), s # <<>>, NEW t \in Seq(States)
  PROVE  /\ Range(Tail(s)) \subseteq Range(s)
         /\ Range(Tail(s) \o t) \subseteq Range(s) \cup Range(t)
<1>1. /\ Tail(s) \in Seq(States) /\ Len(Tail(s)) = Len(s) - 1
      /\ \A k \in 1 .. Len(Tail(s)) : Tail(s)[k] = s[k + 1]
  BY HeadTailProperties
<1>2. DOMAIN s = 1 .. Len(s) /\ Len(s) \in Nat /\ DOMAIN Tail(s) = 1 .. Len(Tail(s))
  BY <1>1, LenProperties
<1>3. \A k \in DOMAIN Tail(s) : k + 1 \in DOMAIN s /\ Tail(s)[k] = s[k + 1]
  BY <1>1, <1>2
<1>4. Range(Tail(s)) \subseteq Range(s)
  BY <1>3 DEF Range
<1>5. Range(Tail(s) \o t) = Range(Tail(s)) \cup Range(t)
  BY <1>1, RangeConcatenation
<1> QED
  BY <1>4, <1>5

\* An evaluation that opens states and lets the search go on has met one that
\* throws.
LEMMA EvaluationBreadth ==
  ASSUME Inv, NEW s \in Range(open), EvaluateNeighbours(s), phase' = "search", Opened # {}
  PROVE  FilterGoalRemovingState(s) \cap Failing # {}
<1> DEFINE Filtered == FilterGoalRemovingState(s)
<1>1. /\ open \in Seq(States) /\ open # <<>> /\ s \in States
      /\ bestHValue \in Nat /\ limit = 0
  <2>1. open \in Seq(States) /\ DOMAIN open = 1 .. Len(open) /\ Len(open) \in Nat
    BY DEF Inv, TypeOK
  <2>2. open # <<>> /\ s \in States
    BY <2>1 DEF Range
  <2> QED
    BY <2>1, <2>2, SearchAssumption DEF Inv, TypeOK, bestHValue
<1>2. Filtered \in SUBSET States /\ IsFiniteSet(Filtered)
  BY <1>1, SearchAssumption, FS_Subset DEF FilterGoalRemovingState
<1>3. PICK report \in Results(Filtered, bestHValue, 0) :
          \/ bestState' = report.best /\ open' = <<report.best>>
          \/ /\ report.best = NoState
             /\ \E order \in SetToSeqs(Filtered) : open' = Tail(open) \o order
             /\ GiveUpAtLimit(report.limit)
  BY <1>1 DEF EvaluateNeighbours
<1>4. ~ (bestState' = report.best /\ open' = <<report.best>>)
  BY DEF Opened, Range
<1>5. PICK order \in SetToSeqs(Filtered) : open' = Tail(open) \o order
  BY <1>3, <1>4
<1>6. Filtered = {} \/ Filtered \cap Failing # {}
  BY <1>1, <1>2, <1>3, <1>4, NoneBelowLimit DEF GiveUpAtLimit
<1>7. Range(open') \subseteq Range(open) \cup Filtered
  BY <1>1, <1>2, <1>5, OrderOfStates, OpenedFrom
<1> QED
  BY <1>6, <1>7 DEF Opened

\* States other than the best one are opened only at a turn whose evaluation
\* of neighbours threw: one that fails any other way exhausts LIMIT and ends
\* the search.
THEOREM BreadthIsExceptional == Spec => BreadthOnlyAfterException
<1> DEFINE Excused == phase' = "search" /\ Opened # {} =>
                        FilterGoalRemovingState(Head(open)) \cap Failing # {}
<1>1. ASSUME Inv, [Next]_vars PROVE Excused
  <2> SUFFICES ASSUME phase' = "search", Opened # {}
               PROVE  FilterGoalRemovingState(Head(open)) \cap Failing # {}
    OBVIOUS
  <2>1. CASE StartIsGoal \/ OpenStart \/ OpenExhausted \/ UNCHANGED vars
    <3>1. phase = "begin" => bestState = start
      BY <1>1 DEF Inv
    <3> QED
      BY <2>1, <3>1 DEF StartIsGoal, OpenStart, OpenExhausted, vars, Opened, Range
  <2>2. CASE \E s \in Range(open) : Turn(s)
    <3> PICK s \in Range(open) : Turn(s)
      BY <2>2
    <3>1. EvaluateNeighbours(s)
      BY DEF Turn, Raise, LookAheadReachesGoal, LookAheadImproves, Opened, Range
    <3>2. s = Head(open)
      BY <3>1 DEF EvaluateNeighbours, Continuing
    <3> QED
      BY <1>1, <3>1, <3>2, EvaluationBreadth
  <2> QED
    BY <1>1, <2>1, <2>2 DEF Next
<1>2. Inv /\ [Next]_vars => [Excused]_vars
  BY <1>1
<1> QED
  BY <1>2, Invariance, PTL DEF Spec, BreadthOnlyAfterException

=============================================================================
