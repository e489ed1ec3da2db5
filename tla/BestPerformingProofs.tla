------------------------- MODULE BestPerformingProofs -------------------------
(***************************************************************************)
(* Proofs about BestPerforming and the Identidem searches it starts, for   *)
(* every state space and every setting of the search's numbers.  What each *)
(* phase knows of the start of its search makes the outcomes comparable    *)
(* with the initial state.                                                 *)
(***************************************************************************)
EXTENDS BestPerforming, FiniteSetTheorems, TLAPS

\* Where the search of the present phase was started, and how good that is.
PhaseInv ==
    /\ searching => phase \in {"identidem", "again"} /\ iteration < Iterations
                    /\ outcome = NoState /\ localMin \in States
    /\ phase = "identidem" => from = goalState /\ goalState \notin Goals
    /\ phase = "again" => from = initial
    /\ phase # "returned" => result = NoState

\* A search has found only what improves on its own start.
OutcomeInv ==
    ~ searching /\ outcome # NoState => outcome \in Goals \/ H[outcome] < H[from]

Inv ==
    /\ TypeOK
    /\ PhaseInv
    /\ OutcomeInv
    /\ GoalNeverLost
    /\ NeverWorseThanInitial

\* A step goes to a state.
LEMMA StepOutcomeIsState ==
  ASSUME TypeOK, localMin \in States, NEW s \in StepOutcomes
  PROVE  s \in States
<1>1. \A sample \in Samples : sample \in SUBSET States
  BY IdentidemAssumption DEF Samples, TypeOK, IdentidemTypeOK
<1>2. LookAhead[localMin] \in States
  BY IdentidemAssumption
<1> QED
  BY <1>1, <1>2 DEF StepOutcomes, Outcomes

\* The numbers of the search, one by one.
LEMMA Numbers ==
  /\ Iterations \in Nat \ {0} /\ Probes \in Nat \ {0}
  /\ 0 \in 0 .. Iterations /\ 0 \in 0 .. Probes - 1 /\ MaxBias \in MaxBias .. Probes
  BY IdentidemAssumption DEF MaxBias

\* The initial states satisfy the invariant.
LEMMA InitInv == Init => Inv
<1> SUFFICES ASSUME Init PROVE Inv
  OBVIOUS
<1>1. IdentidemTypeOK
  BY Numbers, IdentidemAssumption DEF Init, IdentidemInit, IdentidemTypeOK
<1>2. initial \in States /\ H[initial] \in Nat
  BY IdentidemAssumption, BestPerformingAssumption DEF Init
<1>3. /\ ~ searching /\ outcome = NoState /\ timedOut \in BOOLEAN
      /\ phase = "walk" /\ goalState = initial /\ result = NoState
  BY DEF Init, IdentidemInit
<1> QED
  BY <1>1, <1>2, <1>3
     DEF Inv, TypeOK, PhaseInv, OutcomeInv, GoalNeverLost, NeverWorseThanInitial

\* Starting a search keeps the types of its fields.
LEMMA BeginSearchType ==
  ASSUME TypeOK, NEW s \in States, BeginSearch(s)
  PROVE  IdentidemTypeOK'
  BY IdentidemAssumption
     DEF BeginSearch, TypeOK, IdentidemTypeOK, MaxBias, statics

\* A step of a running search.
LEMMA RunSearchInv == ASSUME Inv, RunSearch PROVE Inv'
<1>0. /\ searching /\ localMin \in States /\ iteration < Iterations /\ outcome = NoState
      /\ phase \in {"identidem", "again"} /\ UNCHANGED driverVars /\ from' = from
      /\ iteration \in Nat /\ probe \in 0 .. Probes - 1 /\ step \in Nat
      /\ Iterations \in Nat /\ Probes \in Nat \ {0}
  BY IdentidemAssumption
     DEF RunSearch, Search, StepFound, StepOn, Restart, NextProbe, NextIteration,
         Inv, PhaseInv, TypeOK, IdentidemTypeOK
<1>1. CASE StepFound
  <2> PICK s \in StepOutcomes : Better(s) /\ outcome' = s /\ localMin' = s
    BY <1>1 DEF StepFound
  <2>1. s \in States
    BY <1>0, StepOutcomeIsState DEF Inv
  <2>2. TypeOK' /\ PhaseInv'
    BY <1>0, <1>1, <2>1
       DEF StepFound, Inv, TypeOK, IdentidemTypeOK, PhaseInv, statics, driverVars
  <2>3. OutcomeInv'
    BY <1>0 DEF Better, OutcomeInv
  <2> QED
    BY <1>0, <2>2, <2>3 DEF Inv, GoalNeverLost, NeverWorseThanInitial, driverVars
<1>2. CASE StepOn
  <2> PICK s \in StepOutcomes : localMin' = s
    BY <1>2 DEF StepOn
  <2>1. s \in States
    BY <1>0, StepOutcomeIsState DEF Inv
  <2>2. TypeOK' /\ PhaseInv'
    BY <1>0, <1>2, <2>1
       DEF StepOn, Inv, TypeOK, IdentidemTypeOK, PhaseInv, statics, driverVars
  <2> QED
    BY <1>0, <1>2, <2>2
       DEF StepOn, Inv, OutcomeInv, GoalNeverLost, NeverWorseThanInitial, driverVars
<1>3. CASE Restart
  <2>1. /\ UNCHANGED <<localMin, filter, iteration, probe, step, bias>>
        /\ failCount' \in Nat /\ restarts' \in Nat /\ maxFailCount' \in Nat
        /\ outcome' = NoState /\ searching' = FALSE
    BY <1>3 DEF Restart, Inv, TypeOK, IdentidemTypeOK
  <2>2. TypeOK' /\ PhaseInv'
    BY <1>0, <2>1 DEF Inv, TypeOK, IdentidemTypeOK, PhaseInv, driverVars
  <2> QED
    BY <1>0, <2>1, <2>2
       DEF Inv, OutcomeInv, GoalNeverLost, NeverWorseThanInitial, driverVars
<1>4. CASE NextProbe
  <2>1. TypeOK' /\ PhaseInv'
    BY <1>0, <1>4
       DEF NextProbe, Inv, TypeOK, IdentidemTypeOK, PhaseInv, driverVars, MaxBias
  <2> QED
    BY <1>0, <1>4, <2>1
       DEF NextProbe, Inv, OutcomeInv, GoalNeverLost, NeverWorseThanInitial, driverVars
<1>5. CASE NextIteration
  <2>1. /\ iteration' \in 0 .. Iterations /\ searching' \in BOOLEAN
        /\ searching' => iteration' < Iterations
        /\ filter' \in {"null", "helpful"} /\ failCount' \in Nat
        /\ probe' = 0 /\ step' = 0 /\ bias' = MaxBias
        /\ UNCHANGED <<localMin, outcome, maxFailCount, restarts>>
    <3>1. \/ iteration' < Iterations /\ UNCHANGED searching
          \/ searching' = FALSE
      BY <1>5 DEF NextIteration
    <3>2. /\ iteration' = iteration + 1 /\ failCount' \in Nat
          /\ filter' \in {"null", "helpful"}
          /\ probe' = 0 /\ step' = 0 /\ bias' = MaxBias
          /\ UNCHANGED <<localMin, outcome, maxFailCount, restarts>>
      BY <1>5 DEF NextIteration, Inv, TypeOK, IdentidemTypeOK
    <3>3. iteration' \in 0 .. Iterations
      BY <1>0, <3>2
    <3> QED
      BY <1>0, <3>1, <3>2, <3>3 DEF Inv, TypeOK, IdentidemTypeOK
  <2>2. /\ probe' \in 0 .. Probes - 1 /\ step' \in Nat /\ bias' \in MaxBias .. Probes
        /\ from' \in States \cup {NoState} /\ localMin' \in States \cup {NoState}
        /\ outcome' \in States \cup {NoState}
        /\ maxFailCount' \in Nat /\ restarts' \in Nat
    <3>1. probe' \in 0 .. Probes - 1 /\ step' \in Nat /\ bias' \in MaxBias .. Probes
      BY <2>1, Numbers
    <3> QED
      BY <1>0, <2>1, <3>1 DEF Inv, TypeOK, IdentidemTypeOK
  <2>3. TypeOK'
    <3>1. IdentidemTypeOK'
      BY <2>1, <2>2 DEF IdentidemTypeOK
    <3> QED
      BY <1>0, <3>1 DEF Inv, TypeOK, driverVars
  <2>4. PhaseInv'
    BY <1>0, <2>1 DEF Inv, PhaseInv, driverVars
  <2> QED
    BY <1>0, <2>1, <2>3, <2>4
       DEF Inv, OutcomeInv, GoalNeverLost, NeverWorseThanInitial, driverVars
<1> QED
  BY <1>1, <1>2, <1>3, <1>4, <1>5 DEF RunSearch, Search

\* The end of a turn takes the outcome of the last search, or starts over.
LEMMA EndOfTurnInv == ASSUME Inv, EndOfTurn PROVE Inv'
<1>0. /\ ~ searching /\ UNCHANGED <<identidemVars, initial, timedOut>>
      /\ goalState' = IF outcome = NoState THEN initial ELSE outcome
      /\ phase \in {"identidem", "again"}
      /\ initial \in States /\ goalState \in States /\ H \in [States -> Nat]
      /\ outcome \in States \cup {NoState} /\ NoState \notin States /\ Goals \subseteq States
  BY IdentidemAssumption DEF EndOfTurn, Inv, TypeOK, IdentidemTypeOK
<1>1. goalState' \in States
  BY <1>0
<1>2. NeverWorseThanInitial'
  <2>1. CASE outcome = NoState
    BY <1>0, <2>1 DEF NeverWorseThanInitial
  <2>2. CASE outcome # NoState
    <3>1. outcome \in Goals \/ H[outcome] < H[from]
      BY <1>0, <2>2 DEF Inv, OutcomeInv
    <3>2. from \in States /\ H[from] <= H[initial]
      BY <1>0 DEF Inv, PhaseInv, NeverWorseThanInitial
    <3> QED
      BY <1>0, <2>2, <3>1, <3>2 DEF NeverWorseThanInitial
  <2> QED
    BY <2>1, <2>2
<1>3. /\ OutcomeInv' /\ IdentidemTypeOK'
      /\ searching' = searching /\ outcome' = outcome
  BY <1>0 DEF Inv, TypeOK, OutcomeInv, IdentidemTypeOK, identidemVars, statics
<1>4. \/ phase' = "returned" /\ result' = goalState' /\ goalState' \in Goals
      \/ phase' = "returned" /\ result' = NoState /\ goalState' \notin Goals
      \/ phase' = "walk" /\ result' = result /\ goalState' \notin Goals
  BY DEF EndOfTurn, Return
<1>5. TypeOK'
  BY <1>0, <1>1, <1>3, <1>4 DEF Inv, TypeOK
<1>6. result = NoState
  BY <1>0 DEF Inv, TypeOK, PhaseInv
<1>7. PhaseInv'
  BY <1>0, <1>3, <1>4, <1>6 DEF PhaseInv
<1>8. GoalNeverLost'
  BY <1>0, <1>3, <1>4 DEF GoalNeverLost
<1> QED
  BY <1>2, <1>3, <1>5, <1>7, <1>8 DEF Inv

\* Whatever leaves the running search alone leaves its part of the invariant.
LEMMA SearchUnchanged ==
  ASSUME Inv, UNCHANGED identidemVars
  PROVE  /\ IdentidemTypeOK' /\ OutcomeInv'
         /\ searching' = searching /\ outcome' = outcome /\ from' = from
  BY DEF Inv, TypeOK, OutcomeInv, IdentidemTypeOK, identidemVars, statics

\* The initial state, or the walk, ends in a goal.
LEMMA FoundInv == ASSUME Inv, GoalAlready \/ WalkToGoal PROVE Inv'
<1>1. /\ UNCHANGED identidemVars /\ UNCHANGED <<initial, timedOut>>
      /\ phase = "walk" /\ phase' = "returned"
      /\ goalState' \in Goals /\ result' = goalState'
  BY DEF GoalAlready, WalkToGoal, Return
<1>2. /\ IdentidemTypeOK' /\ OutcomeInv'
      /\ searching' = searching
  BY <1>1, SearchUnchanged
<1>3. ~ searching /\ Goals \subseteq States /\ NoState \notin States
  BY <1>1, IdentidemAssumption DEF Inv, PhaseInv
<1>4. TypeOK' /\ PhaseInv'
  BY <1>1, <1>2, <1>3 DEF Inv, TypeOK, PhaseInv
<1> QED
  BY <1>1, <1>2, <1>3, <1>4 DEF Inv, GoalNeverLost, NeverWorseThanInitial

\* The walk ends no worse than it began, and Identidem is started there.
LEMMA WalkThenSearchInv == ASSUME Inv, WalkThenSearch PROVE Inv'
<1>1. /\ BeginSearch(goalState') /\ UNCHANGED <<initial, timedOut, result>>
      /\ goalState' \in Walk[goalState] \ Goals /\ goalState \notin Goals
      /\ phase = "walk" /\ phase' = "identidem"
      /\ goalState \in States /\ initial \in States /\ H[goalState] <= H[initial]
      /\ result = NoState
  BY DEF WalkThenSearch, Inv, TypeOK, PhaseInv, NeverWorseThanInitial
<1>2. /\ goalState' \in States /\ Iterations \in Nat \ {0}
      /\ H[goalState'] \in Nat /\ H[goalState] \in Nat /\ H[initial] \in Nat
      /\ goalState' = goalState \/ H[goalState'] < H[goalState]
  BY <1>1, BestPerformingAssumption, IdentidemAssumption
<1>3. H[goalState'] <= H[initial]
  BY <1>1, <1>2
<1>4. IdentidemTypeOK'
  BY <1>1, <1>2, BeginSearchType DEF Inv
<1>5. /\ searching' /\ from' = goalState' /\ localMin' = goalState'
      /\ iteration' = 0 /\ outcome' = NoState
  BY <1>1 DEF BeginSearch
<1>6. TypeOK'
  BY <1>1, <1>2, <1>4 DEF Inv, TypeOK
<1>7. PhaseInv'
  BY <1>1, <1>2, <1>5 DEF PhaseInv
<1> QED
  BY <1>1, <1>3, <1>5, <1>6, <1>7
     DEF Inv, OutcomeInv, GoalNeverLost, NeverWorseThanInitial

\* The second search of a turn starts from the initial state.
LEMMA SearchAgainInv == ASSUME Inv, SearchAgain PROVE Inv'
<1>1. /\ BeginSearch(initial) /\ UNCHANGED <<initial, goalState, timedOut, result>>
      /\ phase = "identidem" /\ phase' = "again"
      /\ initial \in States /\ Iterations \in Nat \ {0} /\ result = NoState
  BY IdentidemAssumption DEF SearchAgain, Inv, TypeOK, PhaseInv
<1>2. IdentidemTypeOK'
  BY <1>1, BeginSearchType DEF Inv
<1>3. /\ searching' /\ from' = initial /\ localMin' = initial
      /\ iteration' = 0 /\ outcome' = NoState
  BY <1>1 DEF BeginSearch
<1>4. TypeOK'
  BY <1>1, <1>2 DEF Inv, TypeOK
<1>5. PhaseInv'
  BY <1>1, <1>3 DEF PhaseInv
<1> QED
  BY <1>1, <1>3, <1>4, <1>5
     DEF Inv, OutcomeInv, GoalNeverLost, NeverWorseThanInitial

\* The passing of time, and a step that changes nothing.
LEMMA IdleInv == ASSUME Inv, TimePasses \/ UNCHANGED vars PROVE Inv'
<1>1. /\ UNCHANGED identidemVars /\ UNCHANGED <<initial, goalState, phase, result>>
      /\ timedOut' \in BOOLEAN
  BY DEF TimePasses, vars, driverVars, Inv, TypeOK
<1>2. UNCHANGED <<searching, outcome, from, localMin, iteration>>
  BY <1>1 DEF identidemVars
<1>3. IdentidemTypeOK' /\ OutcomeInv'
  BY <1>1, SearchUnchanged
<1> QED
  BY <1>1, <1>2, <1>3
     DEF Inv, TypeOK, PhaseInv, GoalNeverLost, NeverWorseThanInitial

\* Every step keeps the invariant.
LEMMA Invariance == Spec => []Inv
<1>1. Inv /\ [Next]_vars => Inv'
  BY FoundInv, WalkThenSearchInv, RunSearchInv, SearchAgainInv, EndOfTurnInv, IdleInv
     DEF Next, Driver
<1> QED
  BY InitInv, <1>1, PTL DEF Spec

\* The driver and the searches it starts have fields of their types, however
\* many searches are started.
THEOREM DriverTypeCorrect == Spec => []TypeOK
<1>1. Inv => TypeOK
  BY DEF Inv
<1> QED
  BY Invariance, <1>1, PTL

\* While the search from where the walk stopped succeeds, the driver moves to
\* goals and strictly better states only, through any number of turns, probes
\* and restarts.
THEOREM DriverImproves == Spec => DriverOnlyImproves
<1> DEFINE Moves == phase # "again" =>
                      goalState' \in Goals \cup {goalState} \/ H[goalState'] < H[goalState]
<1>1. ASSUME Inv, [Next]_vars PROVE Moves
  <2> SUFFICES ASSUME phase # "again", goalState' # goalState
               PROVE  goalState' \in Goals \/ H[goalState'] < H[goalState]
    OBVIOUS
  <2>1. WalkToGoal \/ WalkThenSearch \/ EndOfTurn
    BY <1>1 DEF Next, Driver, GoalAlready, RunSearch, SearchAgain, TimePasses, vars, driverVars
  <2>2. CASE WalkToGoal
    BY <2>2 DEF WalkToGoal
  <2>3. CASE WalkThenSearch
    <3>1. goalState \in States
      BY <1>1 DEF Inv, TypeOK
    <3> QED
      BY <2>3, <3>1, BestPerformingAssumption DEF WalkThenSearch
  <2>4. CASE EndOfTurn
    <3>1. phase = "identidem" /\ ~ searching /\ outcome # NoState /\ goalState' = outcome
      BY <2>4 DEF EndOfTurn
    <3>2. from = goalState
      BY <1>1, <3>1 DEF Inv, PhaseInv
    <3> QED
      BY <1>1, <3>1, <3>2 DEF Inv, OutcomeInv
  <2> QED
    BY <2>1, <2>2, <2>3, <2>4
<1>2. Inv /\ [Next]_vars => [Moves]_vars
  BY <1>1
<1> QED
  BY <1>2, Invariance, PTL DEF Spec, DriverOnlyImproves

\* BestPerforming returns nothing only when no search found a goal in the last
\* turn.
THEOREM GoalsReturned == Spec => []GoalNeverLost
<1>1. Inv => GoalNeverLost
  BY DEF Inv
<1> QED
  BY Invariance, <1>1, PTL

\* No walk of BestPerforming starts from a state worse than the initial one.
THEOREM NeverWorse == Spec => []NeverWorseThanInitial
<1>1. Inv => NeverWorseThanInitial
  BY DEF Inv
<1> QED
  BY Invariance, <1>1, PTL

-----------------------------------------------------------------------------
(***************************************************************************)
(* The static counters.  The power in FailCountsAgree is counted as the    *)
(* subsets of an interval, of which one element more makes twice as many.  *)
(***************************************************************************)
LEMMA Doubling ==
  ASSUME NEW n \in Nat
  PROVE  2 ^ n \in Nat \ {0} /\ 2 ^ (n + 1) = 2 * 2 ^ n
<1> DEFINE Old == SUBSET (1 .. n)
           New == {t \cup {n + 1} : t \in Old}
           f == [t \in Old |-> t \cup {n + 1}]
<1>1. /\ IsFiniteSet(1 .. n) /\ Cardinality(1 .. n) = n
      /\ IsFiniteSet(1 .. n + 1) /\ Cardinality(1 .. n + 1) = n + 1
  BY FS_Interval
<1>2. /\ IsFiniteSet(Old) /\ Cardinality(Old) = 2 ^ n
      /\ Cardinality(SUBSET (1 .. n + 1)) = 2 ^ (n + 1)
  BY <1>1, FS_SUBSET
<1>3. Cardinality(Old) \in Nat /\ Cardinality(Old) # 0
  <2>1. {} \in Old
    OBVIOUS
  <2> QED
    BY <1>2, <2>1, FS_CardinalityType, FS_EmptySet
<1>4. 1 .. n + 1 = (1 .. n) \cup {n + 1} /\ n + 1 \notin 1 .. n
  OBVIOUS
<1>5. SUBSET (1 .. n + 1) = Old \cup New
  <2>1. ASSUME NEW t \in SUBSET (1 .. n + 1)
        PROVE  t \in Old \cup New
    <3>1. t \ {n + 1} \in Old
      BY <1>4
    <3>2. n + 1 \in t => t = (t \ {n + 1}) \cup {n + 1}
      OBVIOUS
    <3> QED
      BY <3>1, <3>2, <1>4
  <2>2. Old \cup New \subseteq SUBSET (1 .. n + 1)
    BY <1>4
  <2> QED
    BY <2>1, <2>2
<1>6. Old \cap New = {}
  BY <1>4
<1>7. ExistsBijection(Old, New)
  <2>1. f \in [Old -> New]
    OBVIOUS
  <2>2. \A s, t \in Old : f[s] = f[t] => s = t
    <3> SUFFICES ASSUME NEW s \in Old, NEW t \in Old, f[s] = f[t]
                 PROVE  s = t
      OBVIOUS
    <3>1. s = f[s] \ {n + 1} /\ t = f[t] \ {n + 1}
      BY <1>4
    <3> QED
      BY <3>1
  <2>3. \A u \in New : \E t \in Old : f[t] = u
    OBVIOUS
  <2>4. f \in Bijection(Old, New)
    BY <2>1, <2>2, <2>3, Zenon DEF Bijection, Injection, Surjection, IsInjective
  <2> QED
    BY <2>4 DEF ExistsBijection
<1>8. IsFiniteSet(New) /\ Cardinality(New) = Cardinality(Old)
  BY <1>2, <1>7, FS_Bijection
<1> HIDE DEF Old, New
<1>9. Cardinality(Old \cup New) = Cardinality(Old) + Cardinality(New)
  <2>1. /\ Cardinality(Old \cup New)
             = Cardinality(Old) + Cardinality(New) - Cardinality(Old \cap New)
    BY <1>2, <1>8, FS_Union
  <2>2. Cardinality(Old \cap New) = 0
    BY <1>6, FS_EmptySet
  <2> QED
    BY <1>3, <1>8, <2>1, <2>2
<1>10. 2 ^ (n + 1) = Cardinality(Old) + Cardinality(Old)
  BY <1>2, <1>5, <1>8, <1>9
<1>11. Cardinality(Old) = 2 ^ n
  BY <1>2
<1> QED
  BY <1>3, <1>10, <1>11

\* The limit of failed probes is positive, and twice as high for three
\* restarts more.
LEMMA LimitOfFailures ==
  ASSUME NEW r \in Nat
  PROVE  /\ InitialMaxFailCount * 2 ^ (r \div 3) \in Nat \ {0}
         /\ InitialMaxFailCount * 2 ^ ((r + 1) \div 3) =
              IF (r + 1) % 3 = 0
              THEN (InitialMaxFailCount * 2 ^ (r \div 3)) * 2
              ELSE InitialMaxFailCount * 2 ^ (r \div 3)
<1>1. /\ r \div 3 \in Nat
      /\ (r + 1) \div 3 = IF (r + 1) % 3 = 0 THEN r \div 3 + 1 ELSE r \div 3
  OBVIOUS
<1>2. InitialMaxFailCount \in Nat \ {0}
  BY IdentidemAssumption
<1> DEFINE Power == 2 ^ (r \div 3)
<1>3. Power \in Nat \ {0} /\ 2 ^ (r \div 3 + 1) = 2 * Power
  BY <1>1, Doubling
<1> HIDE DEF Power
<1>4. /\ InitialMaxFailCount * Power \in Nat \ {0}
      /\ InitialMaxFailCount * (2 * Power) = (InitialMaxFailCount * Power) * 2
  BY <1>2, <1>3
<1> QED
  BY <1>1, <1>3, <1>4 DEF Power

\* Only the ends of probes touch the static counters.
LEMMA CountersKept ==
  ASSUME TypeOK, FailCountsAgree, [Next]_vars
  PROVE  FailCountsAgree'
<1>1. failCount \in Nat /\ maxFailCount \in Nat /\ restarts \in Nat
  BY DEF TypeOK, IdentidemTypeOK
<1>2. CASE Restart
  <2>1. /\ failCount' = 0 /\ restarts' = restarts + 1
        /\ maxFailCount' = IF (restarts + 1) % 3 = 0 THEN maxFailCount * 2
                                                      ELSE maxFailCount
    BY <1>2 DEF Restart
  <2>2. maxFailCount' = InitialMaxFailCount * 2 ^ ((restarts + 1) \div 3)
    BY <1>1, <2>1, LimitOfFailures DEF FailCountsAgree
  <2>3. InitialMaxFailCount * 2 ^ ((restarts + 1) \div 3) \in Nat \ {0}
    BY <1>1, LimitOfFailures
  <2> QED
    BY <2>1, <2>2, <2>3 DEF FailCountsAgree
<1>3. CASE NextProbe \/ NextIteration
  <2>1. /\ failCount' = failCount + 1 /\ failCount + 1 < maxFailCount
        /\ maxFailCount' = maxFailCount /\ restarts' = restarts
    BY <1>1, <1>3 DEF NextProbe, NextIteration, Restarting
  <2> QED
    BY <2>1 DEF FailCountsAgree
<1>4. CASE UNCHANGED statics
  BY <1>4 DEF FailCountsAgree, statics
<1>5. Restart \/ NextProbe \/ NextIteration \/ UNCHANGED statics
  BY DEF Next, Driver, GoalAlready, WalkToGoal, WalkThenSearch, RunSearch, SearchAgain,
         EndOfTurn, TimePasses, Search, StepFound, StepOn, BeginSearch, vars, identidemVars
<1> QED
  BY <1>2, <1>3, <1>4, <1>5

\* The static counters the searches share agree however many searches follow
\* each other: a probe more may fail before the limit, which is the initial
\* one doubled for every three restarts.
THEOREM CountersAgree == Spec => []FailCountsAgree
<1>1. Init => FailCountsAgree
  <2>1. InitialMaxFailCount \in Nat \ {0} /\ 0 \div 3 = 0
    BY IdentidemAssumption
  <2>2. InitialMaxFailCount * 2 ^ (0 \div 3) = InitialMaxFailCount
    BY <2>1
  <2> QED
    BY <2>1, <2>2 DEF Init, IdentidemInit, FailCountsAgree
<1>2. TypeOK /\ FailCountsAgree /\ [Next]_vars => FailCountsAgree'
  BY CountersKept
<1> QED
  BY <1>1, <1>2, DriverTypeCorrect, PTL DEF Spec

=============================================================================
