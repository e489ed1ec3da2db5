------------------------- MODULE TemporalStateProofs -------------------------
(***************************************************************************)
(* Proofs about TemporalState, for every problem and every way of choosing *)
(* the next action.  The argument for InvariantsHold: an action may delete *)
(* a listed proposition only if it is the sole holder of that proposition, *)
(* because the list counts every holder (EveryHolderCounted), and only a   *)
(* running action can be ended (FactsTellWhatRuns).                        *)
(***************************************************************************)
EXTENDS TemporalState, FiniteSetTheorems, TLAPS

\* Whatever the guide, an action taken is applicable.
LEMMA CandidatesApplicable ==
    ASSUME NEW a \in Candidates
    PROVE  IsApplicable(a)
  BY DEF Candidates, NullFilter, HelpfulFilter, LookAhead

-----------------------------------------------------------------------------

\* The state keeps its type: facts, running actions, the list of invariants,
\* the offered actions and the plan stay what TemporalMetricState declares.
THEOREM TypeCorrect == Spec => []TypeOK
<1>1. Init => TypeOK
  BY DefAssumption DEF Init, TypeOK, Fact, Action
<1>2. ASSUME TypeOK, NEW n \in Instants, ApplyInstant(n)
      PROVE  TypeOK'
  <2>1. Instant(n) \in Action /\ Adds(Instant(n)) \subseteq Fact
    BY DefAssumption DEF Action, Adds, Instant, Parts, Fact
  <2>2. QED
    BY <1>2, <2>1 DEF TypeOK, ApplyInstant, ApplyEffects
<1>3. ASSUME TypeOK, NEW d \in Duratives, ApplyStart(d)
      PROVE  TypeOK'
  <2>1. Start(d) \in Action /\ End(d) \in Action
    BY DEF Action
  <2>2. Adds(Start(d)) \subseteq Fact
    BY DefAssumption DEF Adds, Start, Parts, Fact
  <2>3. QED
    BY <1>3, <2>1, <2>2 DEF TypeOK, ApplyStart, ApplyEffects, ListedFor
<1>4. ASSUME TypeOK, NEW d \in Duratives, ApplyEnd(d)
      PROVE  TypeOK'
  <2>1. Start(d) \in Action /\ End(d) \in Action
    BY DEF Action
  <2>2. Adds(End(d)) \subseteq Fact
    BY DefAssumption DEF Adds, End, Parts, Fact
  <2>3. facts' \subseteq Fact /\ open' \subseteq Duratives
    BY <1>4, <2>2 DEF TypeOK, ApplyEnd, ApplyEffects
  <2>4. invariants' \in [Props -> Nat]
    BY <1>4 DEF TypeOK, ApplyEnd, UnlistedFor
  <2>5. actions' \subseteq Action /\ plan' \in Seq(Action) /\ guide' \in Guides
    BY <1>4, <2>1 DEF TypeOK, ApplyEnd, ApplyEffects
  <2>6. QED
    BY <2>3, <2>4, <2>5 DEF TypeOK
<1>5. TypeOK /\ UNCHANGED vars => TypeOK'
  BY DEF TypeOK, vars
<1>6. TypeOK /\ [Next]_vars => TypeOK'
  BY <1>2, <1>3, <1>4, <1>5 DEF Next
<1>7. QED
  BY <1>1, <1>6, PTL DEF Spec

-----------------------------------------------------------------------------

LEMMA InstantParts ==
    ASSUME NEW n \in Instants
    PROVE  /\ Adds(Instant(n)) \subseteq Props
           /\ Deletes(Instant(n)) \subseteq Props
           /\ OwnInvariant(Instant(n)) = {}
BY DefAssumption DEF Adds, Deletes, OwnInvariant, Instant, Parts

LEMMA StartParts ==
    ASSUME NEW d \in Duratives
    PROVE  /\ Condition(Start(d)) = StartDef[d].cond \cup (Invariant[d] \ StartDef[d].add)
           /\ Adds(Start(d)) = StartDef[d].add \cup {Join(d)}
           /\ Deletes(Start(d)) = StartDef[d].del \cup {Done(d)}
           /\ OwnInvariant(Start(d)) = Invariant[d]
           /\ StartDef[d].add \subseteq Props
           /\ StartDef[d].del \subseteq Props
           /\ Invariant[d] \subseteq Props
BY DefAssumption
   DEF Condition, StartCondition, Adds, Deletes, OwnInvariant, Start, Parts

LEMMA EndParts ==
    ASSUME NEW d \in Duratives
    PROVE  /\ Join(d) \in Condition(End(d))
           /\ Adds(End(d)) = EndDef[d].add \cup {Done(d)}
           /\ Deletes(End(d)) = EndDef[d].del \cup {Join(d)}
           /\ OwnInvariant(End(d)) = Invariant[d]
           /\ EndDef[d].add \subseteq Props
           /\ EndDef[d].del \subseteq Props
           /\ Invariant[d] \subseteq Props
BY DefAssumption
   DEF Condition, EndCondition, Adds, Deletes, OwnInvariant, End, Parts

LEMMA DummiesDistinct ==
    ASSUME NEW d \in Duratives, NEW e \in Duratives
    PROVE  /\ Join(d) \notin Props
           /\ Done(d) \notin Props
           /\ Join(d) # Done(e)
           /\ Join(d) = Join(e) => d = e
           /\ Done(d) = Done(e) => d = e
BY DummiesAreFresh DEF Join, Done

-----------------------------------------------------------------------------

\* The facts of a state determine which of its durative actions run, so
\* that comparing states by their facts compares them whole.
THEOREM FactsDetermineRunning == Spec => []FactsTellWhatRuns
<1>1. Init => FactsTellWhatRuns
  BY DefAssumption, DummiesDistinct DEF Init, FactsTellWhatRuns
<1>2. ASSUME FactsTellWhatRuns, NEW n \in Instants, ApplyInstant(n)
      PROVE  FactsTellWhatRuns'
  <2>1. facts' = (facts \ Deletes(Instant(n))) \cup Adds(Instant(n))
    BY <1>2 DEF ApplyInstant, ApplyEffects
  <2>2. open' = open
    BY <1>2 DEF ApplyInstant
  <2>3. QED
    BY <1>2, <2>1, <2>2, InstantParts, DummiesDistinct DEF FactsTellWhatRuns
<1>3. ASSUME FactsTellWhatRuns, NEW d \in Duratives, ApplyStart(d)
      PROVE  FactsTellWhatRuns'
  <2>1. facts' = (facts \ (StartDef[d].del \cup {Done(d)}))
                   \cup (StartDef[d].add \cup {Join(d)})
    BY <1>3, StartParts DEF ApplyStart, ApplyEffects
  <2>2. StartDef[d].add \subseteq Props /\ StartDef[d].del \subseteq Props
    BY StartParts
  <2>3. open' = open \cup {d}
    BY <1>3 DEF ApplyStart
  <2>4. QED
    BY <1>3, <2>1, <2>2, <2>3, DummiesDistinct DEF FactsTellWhatRuns
<1>4. ASSUME FactsTellWhatRuns, NEW d \in Duratives, ApplyEnd(d)
      PROVE  FactsTellWhatRuns'
  <2>1. facts' = (facts \ (EndDef[d].del \cup {Join(d)}))
                   \cup (EndDef[d].add \cup {Done(d)})
    BY <1>4, EndParts DEF ApplyEnd, ApplyEffects
  <2>2. EndDef[d].add \subseteq Props /\ EndDef[d].del \subseteq Props
    BY EndParts
  <2>3. open' = open \ {d}
    BY <1>4 DEF ApplyEnd
  <2>4. QED
    BY <1>4, <2>1, <2>2, <2>3, DummiesDistinct DEF FactsTellWhatRuns
<1>5. FactsTellWhatRuns /\ UNCHANGED vars => FactsTellWhatRuns'
  BY DEF FactsTellWhatRuns, vars
<1>6. FactsTellWhatRuns /\ [Next]_vars => FactsTellWhatRuns'
  BY <1>2, <1>3, <1>4, <1>5 DEF Next
<1>7. QED
  BY <1>1, <1>6, PTL DEF Spec

\* A state offers the end of each running action and the start of each other
\* one: applySplit keeps the offered actions in step with openActions.
THEOREM OffersInStep == Spec => []OffersEndIffRunning
<1> USE DEF Start, End, Instant
<1>1. Init => OffersEndIffRunning
  BY DEF Init, OffersEndIffRunning
<1>2. ASSUME OffersEndIffRunning, NEW n \in Instants, ApplyInstant(n)
      PROVE  OffersEndIffRunning'
  BY <1>2 DEF OffersEndIffRunning, ApplyInstant
<1>3. ASSUME OffersEndIffRunning, NEW d \in Duratives, ApplyStart(d)
      PROVE  OffersEndIffRunning'
  BY <1>3 DEF OffersEndIffRunning, ApplyStart
<1>4. ASSUME OffersEndIffRunning, NEW d \in Duratives, ApplyEnd(d)
      PROVE  OffersEndIffRunning'
  BY <1>4 DEF OffersEndIffRunning, ApplyEnd
<1>5. OffersEndIffRunning /\ UNCHANGED vars => OffersEndIffRunning'
  BY DEF OffersEndIffRunning, vars
<1>6. OffersEndIffRunning /\ [Next]_vars => OffersEndIffRunning'
  BY <1>2, <1>3, <1>4, <1>5 DEF Next
<1>7. QED
  BY <1>1, <1>6, PTL DEF Spec

-----------------------------------------------------------------------------
(***************************************************************************)
(* Running actions keep what they need.                                    *)
(***************************************************************************)
IInv == TypeOK /\ FactsTellWhatRuns /\ InvariantsHold /\ EveryHolderCounted

LEMMA HoldersFinite ==
    ASSUME TypeOK, NEW p
    PROVE  IsFiniteSet(Holders(p)) /\ Cardinality(Holders(p)) \in Nat
<1>1. Holders(p) \in SUBSET Duratives
  BY DEF TypeOK, Holders
<1>2. QED
  BY <1>1, FiniteAssumption, FS_Subset, FS_CardinalityType

\* A running action's conditions are on the list.
LEMMA HolderIsListed ==
    ASSUME IInv, NEW d \in open, NEW p \in Invariant[d], p \in Props
    PROVE  invariants[p] \in Nat /\ invariants[p] >= 1
<1>1. d \in Holders(p)
  BY DEF Holders
<1>2. Cardinality(Holders(p)) \in Nat /\ Cardinality(Holders(p)) # 0
  BY <1>1, HoldersFinite, FS_EmptySet DEF IInv
<1>3. invariants[p] \in Nat /\ invariants[p] >= Cardinality(Holders(p))
  BY DEF IInv, TypeOK, EveryHolderCounted
<1>4. QED
  BY <1>2, <1>3

\* A condition two running actions share is on the list twice.
LEMMA SharedIsListedTwice ==
    ASSUME IInv, NEW d \in open, NEW e \in open, d # e,
           NEW p \in Invariant[d], p \in Invariant[e], p \in Props
    PROVE  invariants[p] \in Nat /\ invariants[p] >= 2
<1>1. d \in Holders(p) /\ e \in Holders(p) \ {d}
  BY DEF Holders
<1>2. IsFiniteSet(Holders(p)) /\ Cardinality(Holders(p)) \in Nat
  BY HoldersFinite DEF IInv
<1>3. /\ IsFiniteSet(Holders(p) \ {d})
      /\ Cardinality(Holders(p) \ {d}) = Cardinality(Holders(p)) - 1
  BY <1>1, <1>2, FS_RemoveElement
<1>4. Cardinality(Holders(p) \ {d}) \in Nat /\ Cardinality(Holders(p) \ {d}) # 0
  BY <1>1, <1>3, FS_EmptySet, FS_CardinalityType
<1>5. invariants[p] \in Nat /\ invariants[p] >= Cardinality(Holders(p))
  BY DEF IInv, TypeOK, EveryHolderCounted
<1>6. QED
  BY <1>2, <1>3, <1>4, <1>5

LEMMA InstantKeepsInvariants ==
    ASSUME IInv, NEW n \in Instants, ApplyInstant(n)
    PROVE  InvariantsHold' /\ EveryHolderCounted'
<1>1. /\ IsApplicable(Instant(n))
      /\ facts' = (facts \ Deletes(Instant(n))) \cup Adds(Instant(n))
      /\ open' = open /\ invariants' = invariants
  BY CandidatesApplicable DEF ApplyInstant, ApplyEffects
<1>2. ASSUME NEW d \in open, NEW p \in Invariant[d]
      PROVE  p \in facts'
  <2>1. p \in Props /\ p \in facts
    BY DefAssumption DEF IInv, TypeOK, InvariantsHold
  <2>2. invariants[p] # 0
    BY <2>1, HolderIsListed
  <2>3. p \notin Deletes(Instant(n))
    BY <1>1, <2>1, <2>2, InstantParts DEF IsApplicable, CheckAvailability
  <2>4. QED
    BY <1>1, <2>1, <2>3
<1>3. InvariantsHold'
  BY <1>1, <1>2 DEF InvariantsHold
<1>4. EveryHolderCounted'
  BY <1>1 DEF IInv, EveryHolderCounted, Holders
<1>5. QED
  BY <1>3, <1>4

LEMMA StartKeepsInvariants ==
    ASSUME IInv, NEW d \in Duratives, ApplyStart(d)
    PROVE  InvariantsHold' /\ EveryHolderCounted'
<1>1. /\ IsApplicable(Start(d))
      /\ facts' = (facts \ (StartDef[d].del \cup {Done(d)}))
                     \cup (StartDef[d].add \cup {Join(d)})
      /\ open' = open \cup {d}
      /\ invariants' = [p \in Props |->
            IF p \in Invariant[d] THEN invariants[p] + 1 ELSE invariants[p]]
  BY CandidatesApplicable, StartParts DEF ApplyStart, ApplyEffects, ListedFor
<1>2. ASSUME NEW p \in Invariant[d]
      PROVE  p \in facts'
  <2>1. p \in Props /\ p # Done(d)
    BY StartParts, DummiesDistinct
  <2>2. p \in StartDef[d].del => p \in StartDef[d].add
    BY StartsKeepTheirInvariant
  <2>3. p \notin StartDef[d].add => p \in facts
    BY <1>1, StartParts DEF IsApplicable
  <2>4. QED
    BY <1>1, <2>1, <2>2, <2>3
<1>3. ASSUME NEW e \in open, NEW p \in Invariant[e]
      PROVE  p \in facts'
  <2>1. p \in Props /\ p \in facts /\ p # Done(d)
    BY DefAssumption, DummiesDistinct DEF IInv, TypeOK, InvariantsHold
  <2>2. invariants[p] # 0
    BY <2>1, HolderIsListed
  <2>3. p \in StartDef[d].del => p \in Invariant[d]
    BY <1>1, <2>1, <2>2, StartParts DEF IsApplicable, CheckAvailability
  <2>4. QED
    BY <1>1, <1>2, <2>1, <2>3
<1>4. InvariantsHold'
  BY <1>1, <1>2, <1>3 DEF InvariantsHold
<1>5. ASSUME NEW p \in Props
      PROVE  invariants'[p] >= Cardinality(Holders(p)')
  <2>1. /\ IsFiniteSet(Holders(p)) /\ Cardinality(Holders(p)) \in Nat
        /\ invariants[p] \in Nat /\ invariants[p] >= Cardinality(Holders(p))
    BY HoldersFinite DEF IInv, TypeOK, EveryHolderCounted
  <2>2. CASE p \in Invariant[d]
    <3>1. Holders(p)' = Holders(p) \cup {d}
      BY <1>1, <2>2 DEF Holders
    <3>2. Cardinality(Holders(p) \cup {d}) =
            IF d \in Holders(p) THEN Cardinality(Holders(p))
                               ELSE Cardinality(Holders(p)) + 1
      BY <2>1, FS_AddElement
    <3>3. invariants'[p] = invariants[p] + 1
      BY <1>1, <2>2
    <3>4. invariants'[p] >= Cardinality(Holders(p) \cup {d})
      BY <2>1, <3>2, <3>3
    <3>5. QED
      BY <3>1, <3>4
  <2>3. CASE p \notin Invariant[d]
    <3>1. Holders(p)' = Holders(p)
      BY <1>1, <2>3 DEF Holders
    <3>2. QED
      BY <1>1, <2>1, <2>3, <3>1
  <2>4. QED
    BY <2>2, <2>3
<1>6. EveryHolderCounted'
  BY <1>5 DEF EveryHolderCounted
<1>7. QED
  BY <1>4, <1>6

LEMMA EndKeepsInvariants ==
    ASSUME IInv, NEW d \in Duratives, ApplyEnd(d)
    PROVE  InvariantsHold' /\ EveryHolderCounted'
<1>1. /\ IsApplicable(End(d))
      /\ facts' = (facts \ (EndDef[d].del \cup {Join(d)}))
                     \cup (EndDef[d].add \cup {Done(d)})
      /\ open' = open \ {d}
      /\ invariants' = [p \in Props |->
            IF p \in Invariant[d] /\ invariants[p] > 0
            THEN invariants[p] - 1 ELSE invariants[p]]
  BY CandidatesApplicable, EndParts DEF ApplyEnd, ApplyEffects, UnlistedFor
<1>2. d \in open
  BY <1>1, EndParts DEF IsApplicable, IInv, FactsTellWhatRuns
<1>3. ASSUME NEW e \in open \ {d}, NEW p \in Invariant[e]
      PROVE  p \in facts'
  <2>1. p \in Props /\ p \in facts /\ p # Join(d)
    BY DefAssumption, DummiesDistinct DEF IInv, TypeOK, InvariantsHold
  <2>2. invariants[p] # 0
    BY <2>1, HolderIsListed
  <2>3. p \in Invariant[d] => invariants[p] # 1
    BY <1>2, <2>1, SharedIsListedTwice
  <2>4. p \notin EndDef[d].del
    BY <1>1, <2>1, <2>2, <2>3, EndParts DEF IsApplicable, CheckAvailability
  <2>5. QED
    BY <1>1, <2>1, <2>4
<1>4. InvariantsHold'
  BY <1>1, <1>3 DEF InvariantsHold
<1>5. ASSUME NEW p \in Props
      PROVE  invariants'[p] >= Cardinality(Holders(p)')
  <2>1. /\ IsFiniteSet(Holders(p)) /\ Cardinality(Holders(p)) \in Nat
        /\ invariants[p] \in Nat /\ invariants[p] >= Cardinality(Holders(p))
    BY HoldersFinite DEF IInv, TypeOK, EveryHolderCounted
  <2>2. CASE p \in Invariant[d]
    <3>1. Holders(p)' = Holders(p) \ {d} /\ d \in Holders(p)
      BY <1>1, <1>2, <2>2 DEF Holders
    <3>2. Cardinality(Holders(p)') = Cardinality(Holders(p)) - 1
      BY <2>1, <3>1, FS_RemoveElement
    <3>3. invariants[p] > 0
      BY <1>2, <2>2, HolderIsListed
    <3>4. invariants'[p] = invariants[p] - 1
      BY <1>1, <2>2, <3>3
    <3>5. QED
      BY <2>1, <3>2, <3>4
  <2>3. CASE p \notin Invariant[d]
    <3>1. Holders(p)' = Holders(p)
      BY <1>1, <2>3 DEF Holders
    <3>2. QED
      BY <1>1, <2>1, <2>3, <3>1
  <2>4. QED
    BY <2>2, <2>3
<1>6. EveryHolderCounted'
  BY <1>5 DEF EveryHolderCounted
<1>7. QED
  BY <1>4, <1>6

\* No action the planner applies takes away a condition a running durative
\* action needs: checkAvailability protects the invariants of every running
\* action, also when several share one and when one of them ends.
THEOREM RunningActionsProtected == Spec => [](InvariantsHold /\ EveryHolderCounted)
<1> DEFINE Protected == InvariantsHold /\ EveryHolderCounted
<1>1. Init => Protected
  <2> SUFFICES ASSUME Init PROVE Protected
    OBVIOUS
  <2>1. \A p : Holders(p) = {}
    BY DEF Init, Holders
  <2>2. QED
    BY <2>1, FS_EmptySet DEF Init, InvariantsHold, EveryHolderCounted
<1>2. TypeOK /\ FactsTellWhatRuns /\ Protected /\ [Next]_vars => Protected'
  <2> SUFFICES ASSUME IInv, [Next]_vars PROVE Protected'
    BY DEF IInv
  <2>1. CASE \E n \in Instants : ApplyInstant(n)
    BY <2>1, InstantKeepsInvariants
  <2>2. CASE \E d \in Duratives : ApplyStart(d)
    BY <2>2, StartKeepsInvariants
  <2>3. CASE \E d \in Duratives : ApplyEnd(d)
    BY <2>3, EndKeepsInvariants
  <2>4. CASE UNCHANGED vars
    BY <2>4 DEF IInv, InvariantsHold, EveryHolderCounted, Holders, vars
  <2>5. QED
    BY <2>1, <2>2, <2>3, <2>4 DEF Next
<1>3. QED
  BY <1>1, <1>2, TypeCorrect, FactsDetermineRunning, PTL DEF Spec

-----------------------------------------------------------------------------
(***************************************************************************)
(* Along actions of the null filter nothing stays listed.  The filter      *)
(* takes from the state's own action set, so that a start is applied only  *)
(* to an action that does not run (OffersInStep), and one occurrence then  *)
(* stands for one holder.                                                  *)
(***************************************************************************)
NInv == TypeOK /\ OffersEndIffRunning /\ NoStaleProtection

\* A start the null filter offers adds one holder and one occurrence.
LEMMA StartCountsHolder ==
    ASSUME NInv, NEW d \in Duratives, ApplyStart(d)
    PROVE  NoStaleProtection'
<1> SUFFICES ASSUME guide = "null", NEW p \in Props
             PROVE  invariants'[p] = Cardinality(Holders(p)')
  BY DEF NoStaleProtection, ApplyStart, ApplyEffects
<1>1. /\ Start(d) \in actions
      /\ open' = open \cup {d}
      /\ invariants' = [q \in Props |->
            IF q \in Invariant[d] THEN invariants[q] + 1 ELSE invariants[q]]
  BY DEF ApplyStart, ApplyEffects, Candidates, NullFilter, ListedFor
<1>2. d \notin open
  BY <1>1 DEF NInv, OffersEndIffRunning
<1>3. /\ IsFiniteSet(Holders(p)) /\ Cardinality(Holders(p)) \in Nat
      /\ invariants[p] = Cardinality(Holders(p))
  BY HoldersFinite DEF NInv, NoStaleProtection
<1>4. CASE p \in Invariant[d]
  <2>1. Holders(p)' = Holders(p) \cup {d} /\ d \notin Holders(p)
    BY <1>1, <1>2, <1>4 DEF Holders
  <2>2. Cardinality(Holders(p) \cup {d}) = Cardinality(Holders(p)) + 1
    BY <1>3, <2>1, FS_AddElement
  <2>3. QED
    BY <1>1, <1>3, <1>4, <2>1, <2>2
<1>5. CASE p \notin Invariant[d]
  <2>1. Holders(p)' = Holders(p)
    BY <1>1, <1>5 DEF Holders
  <2>2. QED
    BY <1>1, <1>3, <1>5, <2>1
<1>6. QED
  BY <1>4, <1>5

\* An end takes one holder and one occurrence away.
LEMMA EndCountsHolder ==
    ASSUME NInv, NEW d \in Duratives, ApplyEnd(d)
    PROVE  NoStaleProtection'
<1> SUFFICES ASSUME guide = "null", NEW p \in Props
             PROVE  invariants'[p] = Cardinality(Holders(p)')
  BY DEF NoStaleProtection, ApplyEnd, ApplyEffects
<1>1. /\ End(d) \in actions
      /\ open' = open \ {d}
      /\ invariants' = [q \in Props |->
            IF q \in Invariant[d] /\ invariants[q] > 0
            THEN invariants[q] - 1 ELSE invariants[q]]
  BY DEF ApplyEnd, ApplyEffects, Candidates, NullFilter, UnlistedFor
<1>2. d \in open
  BY <1>1 DEF NInv, OffersEndIffRunning
<1>3. /\ IsFiniteSet(Holders(p)) /\ Cardinality(Holders(p)) \in Nat
      /\ invariants[p] = Cardinality(Holders(p))
  BY HoldersFinite DEF NInv, NoStaleProtection
<1>4. CASE p \in Invariant[d]
  <2>1. Holders(p)' = Holders(p) \ {d} /\ d \in Holders(p)
    BY <1>1, <1>2, <1>4 DEF Holders
  <2>2. /\ Cardinality(Holders(p) \ {d}) = Cardinality(Holders(p)) - 1
        /\ Cardinality(Holders(p)) # 0
    BY <1>3, <2>1, FS_RemoveElement, FS_EmptySet
  <2>3. QED
    BY <1>1, <1>3, <1>4, <2>1, <2>2
<1>5. CASE p \notin Invariant[d]
  <2>1. Holders(p)' = Holders(p)
    BY <1>1, <1>5 DEF Holders
  <2>2. QED
    BY <1>1, <1>3, <1>5, <2>1
<1>6. QED
  BY <1>4, <1>5

\* Guided by the null filter, a state protects each proposition once for each
\* running action that needs it and no longer: every end lifts what its start
\* put on the list.
THEOREM NoProtectionLeft == Spec => []NoStaleProtection
<1>1. Init => NoStaleProtection
  <2> SUFFICES ASSUME Init PROVE NoStaleProtection
    OBVIOUS
  <2>1. \A p : Holders(p) = {}
    BY DEF Init, Holders
  <2>2. QED
    BY <2>1, FS_EmptySet DEF Init, NoStaleProtection
<1>2. TypeOK /\ OffersEndIffRunning /\ NoStaleProtection /\ [Next]_vars
        => NoStaleProtection'
  <2> SUFFICES ASSUME NInv, [Next]_vars PROVE NoStaleProtection'
    BY DEF NInv
  <2>1. CASE \E n \in Instants : ApplyInstant(n)
    BY <2>1 DEF NInv, NoStaleProtection, Holders, ApplyInstant, ApplyEffects
  <2>2. CASE \E d \in Duratives : ApplyStart(d)
    BY <2>2, StartCountsHolder
  <2>3. CASE \E d \in Duratives : ApplyEnd(d)
    BY <2>3, EndCountsHolder
  <2>4. CASE UNCHANGED vars
    BY <2>4 DEF NInv, NoStaleProtection, Holders, vars
  <2>5. QED
    BY <2>1, <2>2, <2>3, <2>4 DEF Next
<1>3. QED
  BY <1>1, <1>2, TypeCorrect, OffersInStep, PTL DEF Spec

-----------------------------------------------------------------------------
(***************************************************************************)
(* The plan of a path guided by the null filter.  Between two actions, as  *)
(* many starts of d have been taken as ends, and one more while d runs     *)
(* (Balance): what turns the offers of a state into the shape of its plan. *)
(***************************************************************************)
Before(a, i) == {j \in Occurrences(a) : j < i}

Balance ==
    guide = "null" => \A d \in Duratives :
        Cardinality(Occurrences(Start(d))) =
            IF d \in open THEN Cardinality(Occurrences(End(d))) + 1
                          ELSE Cardinality(Occurrences(End(d)))

Alternate ==
    guide = "null" => \A d \in Duratives :
        /\ \A i \in Occurrences(Start(d)) :
               Cardinality(Before(Start(d), i)) = Cardinality(Before(End(d), i))
        /\ \A i \in Occurrences(End(d)) :
               Cardinality(Before(Start(d), i)) = Cardinality(Before(End(d), i)) + 1

PInv == TypeOK /\ OffersEndIffRunning /\ Balance /\ Alternate

LEMMA OccurrencesFinite ==
    ASSUME TypeOK, NEW a
    PROVE  /\ IsFiniteSet(Occurrences(a)) /\ Cardinality(Occurrences(a)) \in Nat
           /\ Len(plan) \in Nat /\ Len(plan) + 1 \notin Occurrences(a)
<1>1. Len(plan) \in Nat /\ DOMAIN plan = 1..Len(plan)
  BY DEF TypeOK
<1>2. Occurrences(a) \in SUBSET (1..Len(plan))
  BY <1>1 DEF Occurrences
<1>3. IsFiniteSet(1..Len(plan))
  BY <1>1, FS_Interval
<1>4. QED
  BY <1>1, <1>2, <1>3, FS_Subset, FS_CardinalityType

\* An action applied is the last of the new plan; what came before an earlier
\* position still does, and before the new one comes the whole old plan.
LEMMA PlanGrows ==
    ASSUME TypeOK, NEW a \in Action, plan' = Append(plan, a), NEW b
    PROVE  /\ Occurrences(b)' =
                IF a = b THEN Occurrences(b) \cup {Len(plan) + 1}
                         ELSE Occurrences(b)
           /\ \A i \in DOMAIN plan : Before(b, i)' = Before(b, i)
           /\ \A n : n = Len(plan) + 1 => Before(b, n)' = Occurrences(b)
<1>1. /\ Len(plan) \in Nat /\ DOMAIN plan = 1..Len(plan)
      /\ DOMAIN plan' = 1..(Len(plan) + 1)
      /\ \A i \in DOMAIN plan : plan'[i] = plan[i]
      /\ plan'[Len(plan) + 1] = a
  BY DEF TypeOK
<1>2. \A i : i \in DOMAIN plan' <=> i \in DOMAIN plan \/ i = Len(plan) + 1
  BY <1>1
<1>3. Occurrences(b)' =
        IF a = b THEN Occurrences(b) \cup {Len(plan) + 1} ELSE Occurrences(b)
  BY <1>1, <1>2 DEF Occurrences
<1>4. \A j \in Occurrences(b) : j \in 1..Len(plan)
  BY <1>1 DEF Occurrences
<1>5. \A i \in DOMAIN plan : Before(b, i)' = Before(b, i)
  BY <1>1, <1>3, <1>4 DEF Before
<1>6. \A n : n = Len(plan) + 1 => Before(b, n)' = Occurrences(b)
  BY <1>1, <1>3, <1>4 DEF Before
<1>7. QED
  BY <1>3, <1>5, <1>6

\* An action that is neither the start nor the end of e leaves e's part of the
\* plan as it is.
LEMMA OthersUnmoved ==
    ASSUME TypeOK, Alternate, Balance, guide = "null", NEW e \in Duratives,
           NEW a \in Action, plan' = Append(plan, a), a # Start(e), a # End(e)
    PROVE  /\ Occurrences(Start(e))' = Occurrences(Start(e))
           /\ Occurrences(End(e))' = Occurrences(End(e))
           /\ \A i \in Occurrences(Start(e))' :
                Cardinality(Before(Start(e), i)') = Cardinality(Before(End(e), i)')
           /\ \A i \in Occurrences(End(e))' :
                Cardinality(Before(Start(e), i)') = Cardinality(Before(End(e), i)') + 1
<1>1. /\ Occurrences(Start(e))' = Occurrences(Start(e))
      /\ Occurrences(End(e))' = Occurrences(End(e))
  BY PlanGrows
<1>2. /\ \A i \in DOMAIN plan : Before(Start(e), i)' = Before(Start(e), i)
      /\ \A i \in DOMAIN plan : Before(End(e), i)' = Before(End(e), i)
  BY PlanGrows
<1>3. Occurrences(Start(e)) \subseteq DOMAIN plan /\ Occurrences(End(e)) \subseteq DOMAIN plan
  BY DEF Occurrences
<1>4. QED
  BY <1>1, <1>2, <1>3 DEF Alternate

LEMMA StartKeepsPlan ==
    ASSUME PInv, NEW d \in Duratives, ApplyStart(d)
    PROVE  Balance' /\ Alternate'
<1> SUFFICES ASSUME guide = "null", NEW e \in Duratives
             PROVE  /\ Cardinality(Occurrences(Start(e))') =
                         IF e \in open' THEN Cardinality(Occurrences(End(e))') + 1
                                        ELSE Cardinality(Occurrences(End(e))')
                    /\ \A i \in Occurrences(Start(e))' :
                         Cardinality(Before(Start(e), i)') = Cardinality(Before(End(e), i)')
                    /\ \A i \in Occurrences(End(e))' :
                         Cardinality(Before(Start(e), i)')
                           = Cardinality(Before(End(e), i)') + 1
  BY DEF Balance, Alternate, ApplyStart, ApplyEffects
<1>1. /\ Start(d) \in actions /\ Start(d) \in Action
      /\ open' = open \cup {d} /\ plan' = Append(plan, Start(d))
  BY DEF ApplyStart, ApplyEffects, Candidates, NullFilter, Action
<1>2. TypeOK /\ Alternate /\ Balance /\ d \notin open
  BY <1>1 DEF PInv, OffersEndIffRunning
<1>3. CASE e # d
  <2>1. Start(d) # Start(e) /\ Start(d) # End(e)
    BY <1>3 DEF Start, End
  <2>2. QED
    BY <1>1, <1>2, <1>3, <2>1, OthersUnmoved DEF Balance
<1>4. CASE e = d
  <2>1. Start(d) # End(d)
    BY DEF Start, End
  <2>2. /\ Occurrences(Start(d))' = Occurrences(Start(d)) \cup {Len(plan) + 1}
        /\ \A i \in DOMAIN plan : Before(Start(d), i)' = Before(Start(d), i)
        /\ \A n : n = Len(plan) + 1 => Before(Start(d), n)' = Occurrences(Start(d))
    BY <1>1, <1>2, PlanGrows
  <2>3. /\ Occurrences(End(d))' = Occurrences(End(d))
        /\ \A i \in DOMAIN plan : Before(End(d), i)' = Before(End(d), i)
        /\ \A n : n = Len(plan) + 1 => Before(End(d), n)' = Occurrences(End(d))
    BY <1>1, <1>2, <2>1, PlanGrows
  <2>4. Cardinality(Occurrences(Start(d))) = Cardinality(Occurrences(End(d)))
    BY <1>2 DEF Balance
  <2>5. Cardinality(Occurrences(Start(d)) \cup {Len(plan) + 1})
          = Cardinality(Occurrences(Start(d))) + 1
    BY <1>2, OccurrencesFinite, FS_AddElement
  <2>6. Occurrences(Start(d)) \subseteq DOMAIN plan /\ Occurrences(End(d)) \subseteq DOMAIN plan
    BY DEF Occurrences
  <2>7. Cardinality(Occurrences(Start(d))') = Cardinality(Occurrences(End(d))') + 1
    BY <2>2, <2>3, <2>4, <2>5
  <2>8. /\ \A i \in Occurrences(Start(d)) :
             Cardinality(Before(Start(d), i)) = Cardinality(Before(End(d), i))
        /\ \A i \in Occurrences(End(d)) :
             Cardinality(Before(Start(d), i)) = Cardinality(Before(End(d), i)) + 1
    BY <1>2 DEF Alternate
  <2>9. \A i \in Occurrences(Start(d))' :
          Cardinality(Before(Start(d), i)') = Cardinality(Before(End(d), i)')
    BY <2>2, <2>3, <2>4, <2>6, <2>8
  <2>10. \A i \in Occurrences(End(d))' :
          Cardinality(Before(Start(d), i)') = Cardinality(Before(End(d), i)') + 1
    BY <2>2, <2>3, <2>6, <2>8
  <2>11. QED
    BY <1>1, <1>4, <2>7, <2>9, <2>10
<1>5. QED
  BY <1>3, <1>4

LEMMA EndKeepsPlan ==
    ASSUME PInv, NEW d \in Duratives, ApplyEnd(d)
    PROVE  Balance' /\ Alternate'
<1> SUFFICES ASSUME guide = "null", NEW e \in Duratives
             PROVE  /\ Cardinality(Occurrences(Start(e))') =
                         IF e \in open' THEN Cardinality(Occurrences(End(e))') + 1
                                        ELSE Cardinality(Occurrences(End(e))')
                    /\ \A i \in Occurrences(Start(e))' :
                         Cardinality(Before(Start(e), i)') = Cardinality(Before(End(e), i)')
                    /\ \A i \in Occurrences(End(e))' :
                         Cardinality(Before(Start(e), i)')
                           = Cardinality(Before(End(e), i)') + 1
  BY DEF Balance, Alternate, ApplyEnd, ApplyEffects
<1>1. /\ End(d) \in actions /\ End(d) \in Action
      /\ open' = open \ {d} /\ plan' = Append(plan, End(d))
  BY DEF ApplyEnd, ApplyEffects, Candidates, NullFilter, Action
<1>2. TypeOK /\ Alternate /\ Balance /\ d \in open
  BY <1>1 DEF PInv, OffersEndIffRunning
<1>3. CASE e # d
  <2>1. End(d) # Start(e) /\ End(d) # End(e)
    BY <1>3 DEF Start, End
  <2>2. QED
    BY <1>1, <1>2, <1>3, <2>1, OthersUnmoved DEF Balance
<1>4. CASE e = d
  <2>1. Start(d) # End(d)
    BY DEF Start, End
  <2>2. /\ Occurrences(Start(d))' = Occurrences(Start(d))
        /\ \A i \in DOMAIN plan : Before(Start(d), i)' = Before(Start(d), i)
        /\ \A n : n = Len(plan) + 1 => Before(Start(d), n)' = Occurrences(Start(d))
    BY <1>1, <1>2, <2>1, PlanGrows
  <2>3. /\ Occurrences(End(d))' = Occurrences(End(d)) \cup {Len(plan) + 1}
        /\ \A i \in DOMAIN plan : Before(End(d), i)' = Before(End(d), i)
        /\ \A n : n = Len(plan) + 1 => Before(End(d), n)' = Occurrences(End(d))
    BY <1>1, <1>2, PlanGrows
  <2>4. Cardinality(Occurrences(Start(d))) = Cardinality(Occurrences(End(d))) + 1
    BY <1>2 DEF Balance
  <2>5. Cardinality(Occurrences(End(d)) \cup {Len(plan) + 1})
          = Cardinality(Occurrences(End(d))) + 1
    BY <1>2, OccurrencesFinite, FS_AddElement
  <2>6. Occurrences(Start(d)) \subseteq DOMAIN plan /\ Occurrences(End(d)) \subseteq DOMAIN plan
    BY DEF Occurrences
  <2>7. Cardinality(Occurrences(Start(d))') = Cardinality(Occurrences(End(d))')
    BY <2>2, <2>3, <2>4, <2>5
  <2>8. /\ \A i \in Occurrences(Start(d)) :
             Cardinality(Before(Start(d), i)) = Cardinality(Before(End(d), i))
        /\ \A i \in Occurrences(End(d)) :
             Cardinality(Before(Start(d), i)) = Cardinality(Before(End(d), i)) + 1
    BY <1>2 DEF Alternate
  <2>9. \A i \in Occurrences(Start(d))' :
          Cardinality(Before(Start(d), i)') = Cardinality(Before(End(d), i)')
    BY <2>2, <2>3, <2>6, <2>8
  <2>10. \A i \in Occurrences(End(d))' :
          Cardinality(Before(Start(d), i)') = Cardinality(Before(End(d), i)') + 1
    BY <2>2, <2>3, <2>4, <2>6, <2>8
  <2>11. QED
    BY <1>1, <1>4, <2>7, <2>9, <2>10
<1>5. QED
  BY <1>3, <1>4

\* A plan made of the null filter's actions starts a durative action only when
\* it does not run and ends it only when it does, and a goal state's plan has
\* an end for every start: applySplit, the filter and goalReached together
\* make every plan found one that can be executed.
THEOREM PlansCanBeExecuted == Spec => []StartsAndEndsAlternate
<1>1. Init => Balance /\ Alternate
  <2> SUFFICES ASSUME Init PROVE Balance /\ Alternate
    OBVIOUS
  <2>1. \A a : Occurrences(a) = {}
    BY DEF Init, Occurrences
  <2>2. QED
    BY <2>1 DEF Init, Balance, Alternate
<1>2. TypeOK /\ OffersEndIffRunning /\ (Balance /\ Alternate) /\ [Next]_vars
        => (Balance /\ Alternate)'
  <2> SUFFICES ASSUME PInv, [Next]_vars PROVE Balance' /\ Alternate'
    BY DEF PInv
  <2>1. ASSUME NEW n \in Instants, ApplyInstant(n)
        PROVE  Balance' /\ Alternate'
    <3>1. /\ Instant(n) \in Action /\ plan' = Append(plan, Instant(n))
          /\ open' = open /\ guide' = guide
      BY <2>1 DEF ApplyInstant, ApplyEffects, Action
    <3>2. \A e : Instant(n) # Start(e) /\ Instant(n) # End(e)
      BY DEF Instant, Start, End
    <3>3. QED
      BY <3>1, <3>2, OthersUnmoved DEF PInv, Balance, Alternate
  <2>2. CASE \E d \in Duratives : ApplyStart(d)
    BY <2>2, StartKeepsPlan
  <2>3. CASE \E d \in Duratives : ApplyEnd(d)
    BY <2>3, EndKeepsPlan
  <2>4. CASE UNCHANGED vars
    BY <2>4 DEF PInv, Balance, Alternate, Occurrences, Before, vars
  <2>5. QED
    BY <2>1, <2>2, <2>3, <2>4 DEF Next
<1>3. Balance /\ Alternate => StartsAndEndsAlternate
  BY DEF Balance, Alternate, StartsAndEndsAlternate, GoalReached, Before
<1>4. QED
  BY <1>1, <1>2, <1>3, TypeCorrect, OffersInStep, PTL DEF Spec
=============================================================================
