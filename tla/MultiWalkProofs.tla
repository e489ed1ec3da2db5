--------------------------- MODULE MultiWalkProofs ---------------------------
(***************************************************************************)
(* Proofs about MultiWalk, for any number of threads and candidates and    *)
(* every way the threads interleave.  The best state is a bound on the     *)
(* goals combined so far, whatever their order; and what was ever a        *)
(* candidate is one still, was searched, or is a result that has not been  *)
(* combined yet.                                                           *)
(***************************************************************************)
EXTENDS MultiWalk, TLAPS

Gathering == phase \in {"combining", "ended", "returned"}

\* What the phases know of the threads.
PhaseInv ==
    /\ running \subseteq 1 .. started
    /\ Gathering => running = {} /\ combined \subseteq 1 .. started
    /\ phase \in {"starting", "joining"} => best = 0
    /\ phase \in {"ended", "returned"} => combined = 1 .. started
    /\ \A i \in running \cup (Threads \ 1 .. started) : goalState[i] = NoState
    /\ \A i \in 1 .. started : starts[i] \in States

\* The best state is a combined goal, and none combined has a shorter plan.
BestInv ==
    /\ best # 0 => best \in combined /\ goalState[best] \in Goals
    /\ Gathering =>
         \A i \in combined :
            goalState[i] \in Goals => best # 0 /\ planLength[best] <= planLength[i]
    /\ phase = "returned" /\ best # 0 => result = goalState[best]

\* The results of the round that are no candidates yet.
Awaiting ==
    {goalState[i] : i \in (1 .. started) \ IF Gathering THEN combined ELSE {}} \ {NoState}

Accounted ==
    /\ initial \cup found \subseteq candidates \cup searched \cup Awaiting
    /\ RoundStarts \subseteq searched
    /\ Gathering =>
         \A i \in combined : goalState[i] = NoState \/ goalState[i] \in candidates
    /\ phase \in {"ended", "returned"} /\ best = 0 /\ ~ timedOut =>
         candidates = {} /\ (phase = "returned" => result = NoState)

Inv == TypeOK /\ PhaseInv /\ BestInv /\ Accounted

\* The initial states satisfy the invariant.
LEMMA InitInv == Init => Inv
<1> SUFFICES ASSUME Init PROVE Inv
  OBVIOUS
<1>1. /\ candidates \in SUBSET States /\ initial = candidates
      /\ phase \in {"starting", "ended"} /\ (phase = "ended" => candidates = {})
      /\ started = 0 /\ running = {} /\ combined = {} /\ best = 0
      /\ result = NoState /\ searched = {} /\ found = {} /\ ~ timedOut
      /\ starts = [i \in Threads |-> NoState] /\ late = [i \in Threads |-> FALSE]
      /\ goalState = [i \in Threads |-> NoState] /\ planLength = [i \in Threads |-> 0]
  BY MultiWalkAssumption DEF Init
<1>2. 1 .. started = {} /\ started \in 0 .. MaxSearchThreads
  BY <1>1, MultiWalkAssumption
<1>3. TypeOK
  <2>1. timedOut \in BOOLEAN
    BY DEF Init
  <2> QED
    BY <1>1, <1>2, <2>1 DEF TypeOK
<1>4. PhaseInv
  BY <1>1, <1>2 DEF PhaseInv, Gathering, Threads
<1>5. BestInv
  BY <1>1 DEF BestInv
<1>6. Accounted
  BY <1>1, <1>2 DEF Accounted, RoundStarts
<1> QED
  BY <1>3, <1>4, <1>5, <1>6 DEF Inv

\* Numbers of threads.
LEMMA ThreadNumbers ==
  ASSUME TypeOK
  PROVE  /\ started \in Nat /\ MaxSearchThreads \in Nat
         /\ 1 .. started \subseteq Threads
         /\ started < MaxSearchThreads =>
              /\ started + 1 \in Threads /\ started + 1 \in 0 .. MaxSearchThreads
              /\ started + 1 \notin 1 .. started
              /\ 1 .. (started + 1) = (1 .. started) \cup {started + 1}
  BY MultiWalkAssumption DEF TypeOK, Threads

\* The next candidate is given to a thread.
LEMMA StartThreadInv ==
  ASSUME Inv, NEW c \in States, StartThread(c)
  PROVE  Inv'
<1> DEFINE n == started + 1
<1>1. /\ phase = "starting" /\ started < MaxSearchThreads /\ c \in candidates
      /\ started' = n /\ starts' = [starts EXCEPT ![n] = c]
      /\ late' = [late EXCEPT ![n] = timedOut]
      /\ running' = running \cup {n} /\ searched' = searched \cup {c}
      /\ UNCHANGED <<phase, candidates, combined, best, result, goalState, planLength,
                     timedOut, initial, found>>
  BY DEF StartThread
<1>2. /\ started \in Nat /\ n \in Threads /\ n \in 0 .. MaxSearchThreads
      /\ n \notin 1 .. started /\ 1 .. n = (1 .. started) \cup {n}
      /\ 1 .. started \subseteq Threads
  BY <1>1, ThreadNumbers DEF Inv
<1>3. TypeOK'
  BY <1>1, <1>2 DEF Inv, TypeOK
<1>4. ~ Gathering /\ ~ Gathering'
  BY <1>1 DEF Gathering
<1>5. \A i \in 1 .. started : starts'[i] = starts[i]
  BY <1>1, <1>2 DEF Inv, TypeOK
<1>6. starts'[n] = c
  BY <1>1, <1>2 DEF Inv, TypeOK
<1>7. PhaseInv'
  <2>1. running' \subseteq 1 .. started'
    BY <1>1, <1>2 DEF Inv, PhaseInv
  <2>2. \A i \in running' \cup (Threads \ 1 .. started') : goalState'[i] = NoState
    BY <1>1, <1>2 DEF Inv, PhaseInv
  <2>3. \A i \in 1 .. started' : starts'[i] \in States
    BY <1>1, <1>2, <1>5, <1>6 DEF Inv, PhaseInv
  <2> QED
    BY <1>1, <1>4, <2>1, <2>2, <2>3 DEF Inv, PhaseInv
<1>8. BestInv'
  BY <1>1, <1>4 DEF Inv, BestInv
<1>9. Accounted'
  <2>1. Awaiting \subseteq Awaiting'
    BY <1>1, <1>2, <1>4 DEF Awaiting
  <2>2. RoundStarts' \subseteq searched'
    BY <1>1, <1>2, <1>5, <1>6 DEF Inv, Accounted, RoundStarts
  <2> QED
    BY <1>1, <1>4, <2>1, <2>2 DEF Inv, Accounted
<1> QED
  BY <1>3, <1>7, <1>8, <1>9 DEF Inv

\* Every candidate, or as many as there may be, has a thread.
LEMMA AllStartedInv ==
  ASSUME Inv, AllStarted
  PROVE  Inv'
<1>1. /\ phase = "starting" /\ phase' = "joining"
      /\ candidates' = candidates \ RoundStarts
      /\ UNCHANGED <<combined, best, result, round, timedOut, history>>
  BY DEF AllStarted
<1>2. ~ Gathering /\ ~ Gathering'
  BY <1>1 DEF Gathering
<1>3. TypeOK'
  BY <1>1 DEF Inv, TypeOK, round, history
<1>4. PhaseInv'
  BY <1>1, <1>2 DEF Inv, PhaseInv, round
<1>5. BestInv'
  BY <1>1, <1>2 DEF Inv, BestInv, round
<1>6. Accounted'
  <2>1. Awaiting' = Awaiting /\ RoundStarts' = RoundStarts
    BY <1>1, <1>2 DEF Awaiting, RoundStarts, round
  <2> QED
    BY <1>1, <1>2, <2>1 DEF Inv, Accounted, round, history
<1> QED
  BY <1>3, <1>4, <1>5, <1>6 DEF Inv

\* A search returns a state, which no other result is lost to.
LEMMA SearchReturnsInv ==
  ASSUME Inv, NEW i \in Threads, SearchReturns(i)
  PROVE  Inv'
<1>1. /\ i \in running /\ running' = running \ {i}
      /\ UNCHANGED <<manager, started, starts, late, timedOut, initial, searched>>
  BY DEF SearchReturns
<1>2. PICK s \in Walks[starts[i]] :
        /\ goalState' = [goalState EXCEPT ![i] = s]
        /\ found' = found \cup {s}
        /\ \E n \in IF s \in Goals THEN Lengths ELSE {0} :
               planLength' = [planLength EXCEPT ![i] = n]
  BY DEF SearchReturns
<1>3. i \in 1 .. started /\ goalState[i] = NoState /\ ~ Gathering /\ ~ Gathering'
  BY <1>1 DEF Inv, PhaseInv, Gathering, manager
<1>4. s \in States /\ s # NoState
  BY <1>3, MultiWalkAssumption DEF Inv, PhaseInv
<1>5. PICK n \in Nat : planLength' = [planLength EXCEPT ![i] = n]
  BY <1>2, MultiWalkAssumption
<1>6. TypeOK'
  BY <1>1, <1>2, <1>4, <1>5 DEF Inv, TypeOK, manager
<1>7. \A j \in Threads : j # i => goalState'[j] = goalState[j]
  BY <1>2 DEF Inv, TypeOK
<1>8. goalState'[i] = s
  BY <1>2 DEF Inv, TypeOK
<1>9. PhaseInv'
  <2>1. \A j \in running' \cup (Threads \ 1 .. started') : goalState'[j] = NoState
    BY <1>1, <1>3, <1>7 DEF Inv, TypeOK, PhaseInv
  <2> QED
    BY <1>1, <1>3, <2>1 DEF Inv, PhaseInv, manager
<1>10. BestInv'
  <2>1. best = 0 /\ phase \notin {"ended", "returned"}
    BY <1>3 DEF Inv, TypeOK, PhaseInv, Gathering
  <2> QED
    BY <1>1, <1>3, <2>1 DEF BestInv, manager
<1>11. Accounted'
  <2>1. 1 .. started \subseteq Threads
    BY ThreadNumbers DEF Inv
  <2>2. Awaiting \cup {s} \subseteq Awaiting'
    BY <1>1, <1>3, <1>4, <1>7, <1>8, <2>1 DEF Awaiting
  <2>3. RoundStarts' = RoundStarts
    BY <1>1 DEF RoundStarts
  <2> QED
    BY <1>1, <1>2, <1>3, <2>2, <2>3 DEF Inv, Accounted, Gathering, manager
<1> QED
  BY <1>6, <1>9, <1>10, <1>11 DEF Inv

\* A search ends without a result.
LEMMA SearchFailsInv ==
  ASSUME Inv, NEW i \in Threads, SearchFails(i)
  PROVE  Inv'
<1>1. /\ i \in running /\ running' = running \ {i}
      /\ UNCHANGED <<manager, started, starts, late, goalState, planLength, timedOut, history>>
  BY DEF SearchFails
<1>2. TypeOK'
  BY <1>1 DEF Inv, TypeOK, manager, history
<1>3. PhaseInv'
  BY <1>1 DEF Inv, PhaseInv, Gathering, manager
<1>4. BestInv'
  BY <1>1 DEF Inv, BestInv, Gathering, manager
<1>5. Accounted'
  BY <1>1 DEF Inv, Accounted, Awaiting, RoundStarts, Gathering, manager, history
<1> QED
  BY <1>2, <1>3, <1>4, <1>5 DEF Inv

\* The threads have ended.
LEMMA JoinInv ==
  ASSUME Inv, Join
  PROVE  Inv'
<1>1. /\ phase = "joining" /\ phase' = "combining" /\ running = {} /\ combined' = {}
      /\ UNCHANGED <<candidates, best, result, round, timedOut, history>>
  BY DEF Join
<1>2. best = 0 /\ ~ Gathering /\ Gathering'
  BY <1>1 DEF Inv, PhaseInv, Gathering
<1>3. TypeOK'
  BY <1>1 DEF Inv, TypeOK, round, history
<1>4. PhaseInv'
  BY <1>1, <1>2 DEF Inv, PhaseInv, round
<1>5. BestInv'
  BY <1>1, <1>2 DEF BestInv
<1>6. Accounted'
  <2>1. Awaiting' = Awaiting /\ RoundStarts' = RoundStarts
    BY <1>1, <1>2 DEF Awaiting, RoundStarts, round
  <2> QED
    BY <1>1, <1>2, <2>1 DEF Inv, Accounted, round, history
<1> QED
  BY <1>3, <1>4, <1>5, <1>6 DEF Inv

\* One thread more is combined: the best stays the best of those combined.
LEMMA CombineInv ==
  ASSUME Inv, NEW i \in Threads, Combine(i)
  PROVE  Inv'
<1>1. /\ phase = "combining" /\ i \in (1 .. started) \ combined
      /\ combined' = combined \cup {i} /\ best' = BestAfter(i)
      /\ candidates' = candidates \cup ({goalState[i]} \ {NoState})
      /\ UNCHANGED <<phase, result, round, timedOut, history>>
  BY DEF Combine
<1>2. Gathering /\ Gathering' /\ goalState' = goalState /\ planLength' = planLength
      /\ started' = started /\ phase' = phase
  BY <1>1 DEF Gathering, round
<1>3. best' \in {best, i}
  BY <1>1 DEF BestAfter
<1>4. TypeOK'
  BY <1>1, <1>3 DEF Inv, TypeOK, round, history
<1>5. PhaseInv'
  BY <1>1, <1>2 DEF Inv, PhaseInv, round
<1>6. BestInv'
  <2>1. /\ best # 0 => best \in combined /\ goalState[best] \in Goals
        /\ \A j \in combined :
             goalState[j] \in Goals => best # 0 /\ planLength[best] <= planLength[j]
    BY <1>2 DEF Inv, BestInv
  <2>2. i # 0 /\ (best # 0 => best \in Threads)
    BY DEF Inv, TypeOK, Threads
  <2>3. \A j \in Threads : planLength[j] \in Nat
    BY DEF Inv, TypeOK
  <2>4. combined \subseteq Threads
    BY DEF Inv, TypeOK
  <2>5. CASE goalState[i] \in Goals /\ (best = 0 \/ planLength[i] < planLength[best])
    <3>1. best' = i
      BY <1>1, <2>5 DEF BestAfter
    <3>2. \A j \in combined : goalState[j] \in Goals => planLength[i] <= planLength[j]
      BY <2>1, <2>2, <2>3, <2>4, <2>5
    <3> QED
      BY <1>1, <1>2, <2>2, <2>3, <2>5, <3>1, <3>2 DEF BestInv
  <2>6. CASE ~ (goalState[i] \in Goals /\ (best = 0 \/ planLength[i] < planLength[best]))
    <3>1. best' = best
      BY <1>1, <2>6 DEF BestAfter
    <3>2. goalState[i] \in Goals => best # 0 /\ planLength[best] <= planLength[i]
      BY <2>2, <2>3, <2>6
    <3> QED
      BY <1>1, <1>2, <2>1, <3>1, <3>2 DEF BestInv
  <2> QED
    BY <2>5, <2>6
<1>7. Accounted'
  <2>1. Awaiting \subseteq Awaiting' \cup ({goalState[i]} \ {NoState})
    BY <1>1, <1>2 DEF Awaiting
  <2>2. RoundStarts' = RoundStarts
    BY <1>1 DEF RoundStarts, round
  <2> QED
    BY <1>1, <1>2, <2>1, <2>2 DEF Inv, Accounted, round, history
<1> QED
  BY <1>4, <1>5, <1>6, <1>7 DEF Inv

\* The rounds end.
LEMMA EndRoundsInv ==
  ASSUME Inv, EndRounds
  PROVE  Inv'
<1>1. /\ phase = "combining" /\ combined = 1 .. started /\ phase' = "ended"
      /\ best # 0 \/ timedOut \/ candidates = {}
      /\ UNCHANGED <<candidates, combined, best, result, round, timedOut, history>>
  BY DEF EndRounds, AllCombined
<1>2. Gathering /\ Gathering'
  BY <1>1 DEF Gathering
<1>3. TypeOK'
  BY <1>1 DEF Inv, TypeOK, round, history
<1>4. PhaseInv'
  BY <1>1, <1>2 DEF Inv, PhaseInv, round
<1>5. BestInv'
  BY <1>1, <1>2 DEF Inv, BestInv, round
<1>6. Accounted'
  <2>1. Awaiting' = Awaiting /\ RoundStarts' = RoundStarts
    BY <1>1, <1>2 DEF Awaiting, RoundStarts, round
  <2> QED
    BY <1>1, <1>2, <2>1 DEF Inv, Accounted, round, history
<1> QED
  BY <1>3, <1>4, <1>5, <1>6 DEF Inv

\* All results are candidates when the next round begins.
LEMMA NextRoundInv ==
  ASSUME Inv, NextRound
  PROVE  Inv'
<1>1. /\ phase = "combining" /\ combined = 1 .. started /\ phase' = "starting"
      /\ best = 0 /\ started' = 0 /\ running' = {}
      /\ starts' = [i \in Threads |-> NoState] /\ late' = [i \in Threads |-> FALSE]
      /\ goalState' = [i \in Threads |-> NoState]
      /\ planLength' = [i \in Threads |-> 0]
      /\ UNCHANGED <<candidates, combined, best, result, timedOut, history>>
  BY DEF NextRound, AllCombined, NewRound
<1>2. Gathering /\ ~ Gathering' /\ 1 .. started' = {} /\ started' \in 0 .. MaxSearchThreads
  BY <1>1, MultiWalkAssumption DEF Gathering
<1>3. TypeOK'
  BY <1>1, <1>2 DEF Inv, TypeOK, history
<1>4. PhaseInv'
  BY <1>1, <1>2 DEF PhaseInv
<1>5. BestInv'
  BY <1>1, <1>2 DEF BestInv
<1>6. Accounted'
  <2>1. Awaiting = {} /\ RoundStarts' = {}
    BY <1>1, <1>2 DEF Awaiting, RoundStarts
  <2> QED
    BY <1>1, <1>2, <2>1 DEF Inv, Accounted, history
<1> QED
  BY <1>3, <1>4, <1>5, <1>6 DEF Inv

\* Without a best state and in time there is no result to choose from.
LEMMA GetBestInv ==
  ASSUME Inv, GetBest
  PROVE  Inv'
<1>1. /\ phase = "ended" /\ phase' = "returned"
      /\ UNCHANGED <<candidates, combined, best, round, timedOut, history>>
  BY DEF GetBest
<1>2. \/ best # 0 /\ result' = goalState[best]
      \/ best = 0 /\ LastResults = {} /\ result' = NoState
      \/ best = 0 /\ result' \in LastResults
  BY DEF GetBest
<1>3. Gathering /\ Gathering' /\ combined = 1 .. started
  BY <1>1 DEF Inv, PhaseInv, Gathering
<1>4. LastResults \subseteq States
  <2>1. 1 .. started \subseteq Threads
    BY ThreadNumbers DEF Inv
  <2> QED
    BY <2>1 DEF Inv, TypeOK, LastResults
<1>5. TypeOK'
  <2>1. result' \in States \cup {NoState}
    BY <1>2, <1>4 DEF Inv, TypeOK
  <2> QED
    BY <1>1, <2>1 DEF Inv, TypeOK, round, history
<1>6. PhaseInv'
  BY <1>1, <1>3 DEF Inv, PhaseInv, round
<1>7. BestInv'
  BY <1>1, <1>2, <1>3 DEF Inv, BestInv, round
<1>8. Accounted'
  <2>1. Awaiting' = Awaiting /\ RoundStarts' = RoundStarts
    BY <1>1, <1>3 DEF Awaiting, RoundStarts, round
  <2>2. best = 0 /\ ~ timedOut => candidates = {}
    BY <1>1 DEF Inv, Accounted
  <2>3. best = 0 /\ ~ timedOut => LastResults = {}
    BY <1>3, <2>2 DEF Inv, Accounted, LastResults
  <2> QED
    BY <1>1, <1>2, <1>3, <2>1, <2>2, <2>3 DEF Inv, Accounted, round, history
<1> QED
  BY <1>5, <1>6, <1>7, <1>8 DEF Inv

\* Steps that change nothing but the clock.
LEMMA ClockInv ==
  ASSUME Inv, TimePasses \/ UNCHANGED vars
  PROVE  Inv'
<1>1. UNCHANGED <<manager, round, history>> /\ (timedOut' = TRUE \/ timedOut' = timedOut)
  BY DEF TimePasses, vars
<1>2. TypeOK'
  BY <1>1 DEF Inv, TypeOK, manager, round, history
<1>3. PhaseInv'
  BY <1>1 DEF Inv, PhaseInv, Gathering, manager, round
<1>4. BestInv'
  BY <1>1 DEF Inv, BestInv, Gathering, manager, round
<1>5. Accounted'
  BY <1>1 DEF Inv, Accounted, Awaiting, RoundStarts, Gathering, manager, round, history
<1> QED
  BY <1>2, <1>3, <1>4, <1>5 DEF Inv

\* The invariant holds at every moment.
LEMMA Invariance == Spec => []Inv
<1>1. Inv /\ [Next]_vars => Inv'
  <2> SUFFICES ASSUME Inv, [Next]_vars PROVE Inv'
    OBVIOUS
  <2>1. CASE Manager
    BY <2>1, StartThreadInv, AllStartedInv, JoinInv, CombineInv, EndRoundsInv,
       NextRoundInv, GetBestInv DEF Manager
  <2>2. CASE \E i \in Threads : Thread(i)
    BY <2>2, SearchReturnsInv, SearchFailsInv DEF Thread
  <2>3. CASE TimePasses \/ UNCHANGED vars
    BY <2>3, ClockInv
  <2> QED
    BY <2>1, <2>2, <2>3 DEF Next
<1> QED
  BY <1>1, InitInv, PTL DEF Spec

(***************************************************************************)
(* The manager and its threads keep their types: no round has a thread too *)
(* many (MultiThreadSearchManager.start).                                  *)
(***************************************************************************)
THEOREM ManagerTypeCorrect == Spec => []TypeOK
<1>1. Inv => TypeOK
  BY DEF Inv
<1> QED
  BY <1>1, Invariance, PTL

(***************************************************************************)
(* The goal of the shortest plan of the round is returned, in whatever     *)
(* order threads end and combineResults looks at them.                     *)
(***************************************************************************)
THEOREM ShortestGoal == Spec => []ShortestGoalReturned
<1>1. Inv => ShortestGoalReturned
  BY DEF Inv, PhaseInv, BestInv, Gathering, ShortestGoalReturned
<1> QED
  BY <1>1, Invariance, PTL

(***************************************************************************)
(* In time and without a goal, the manager gives up only when a search was *)
(* started from every candidate it was given and every state one returned. *)
(***************************************************************************)
THEOREM GivesUp == Spec => []GivesUpExhausted
<1>1. Inv => GivesUpExhausted
  <2> SUFFICES ASSUME Inv, phase = "returned", best = 0, ~ timedOut
               PROVE  initial \cup found \subseteq searched /\ result = NoState
    BY DEF GivesUpExhausted
  <2>1. combined = 1 .. started /\ Gathering
    BY DEF Inv, PhaseInv, Gathering
  <2>2. Awaiting = {}
    BY <2>1 DEF Awaiting
  <2> QED
    BY <2>2 DEF Inv, Accounted
<1> QED
  BY <1>1, Invariance, PTL
=============================================================================
