-------------------------- MODULE StateManagerProofs --------------------------
(***************************************************************************)
(* Proofs about the manager of threads and its two clients, in three parts.*)
(* The first says what holds of a manager and its threads whoever starts   *)
(* the batches, provided a batch is started only after the one before has  *)
(* been joined: one lemma per kind of step.  The second is the evaluator of*)
(* hill climbing: its report is right because a joined state that did not  *)
(* throw carries its own value, and it is one the abstract evaluation      *)
(* allows.  The third is the step of an Identidem probe, whose searching   *)
(* thread evaluates while the threads run, so that exclusiveness needs its *)
(* own state kept on the original graph.                                   *)
(***************************************************************************)
EXTENDS EHCEvaluator, IdentidemRound, FiniteSetTheorems, TLAPS

\* start() has not reached a state that runs, and takes note of goals only.
BatchInv ==
    /\ waiting \cap Running = {}
    /\ goalReached \in batch \cup {NoState}
    /\ goalReached = NoState =>
         \A s \in batch \ waiting : s \notin Goals /\ thread[s] # "none"

\* Each running thread has a graph of this round to itself; a look-ahead
\* state stays on the original, and one at a time is evaluated.
GraphInv ==
    /\ \A s \in Running \cap States :
         rpg[s][1] = round /\ rpg[s][2] \in 1 .. nextGraph - 1
    /\ \A s, t \in Running \cap States : s # t => rpg[s] # rpg[t]
    /\ \A a \in LookAheads : rpg[a] = Original
    /\ \A a, b \in Running \ States : a = b
    /\ torn = {}

\* What a thread has left behind in its state, by the phase it has reached.
ObjectInv ==
    \A s \in Objects :
        /\ calculated[s] => value[s] = H[s] /\ s \notin Failing
        /\ thread[s] = "planning" => ~ calculated[s]
        /\ thread[s] \in {"reset", "done"} => calculated[s]
        /\ thread[s] \in {"none", "done"} => rpg[s] = Original
        /\ s \in Goals \cap States => thread[s] = "none"
        /\ thread[s] = "failed" => s \in Failing
        /\ planOf[s] = s

ManagerInv == ManagerTypeOK /\ BatchInv /\ GraphInv /\ ObjectInv

\* The initial manager satisfies the invariant.
LEMMA ManagerInitInv == ManagerInit => ManagerInv
  BY StatesAssumption
     DEF ManagerInit, ManagerInv, ManagerTypeOK, BatchInv, GraphInv, ObjectInv,
         Running, Objects, Original, ThreadPhase

\* The invariant forbids two evaluations on one graph.
LEMMA ManagerInvExcludes == ManagerInv => ExclusiveGraphs
<1> SUFFICES ASSUME ManagerInv, NEW s \in Planning, NEW t \in Planning, s # t
             PROVE  rpg[s] # rpg[t]
  BY DEF ExclusiveGraphs
<1>1. s \in Running /\ t \in Running /\ s \in Objects /\ t \in Objects
  BY DEF Planning, Running
<1>2. CASE s \in States /\ t \in States
  BY <1>1, <1>2 DEF ManagerInv, GraphInv
<1>3. CASE s \notin States \/ t \notin States
  <2>1. CASE s \notin States /\ t \notin States
    BY <1>1, <2>1 DEF ManagerInv, GraphInv
  <2>2. CASE s \in States \/ t \in States
    <3>1. \A u \in {s, t} : u \in States => rpg[u][2] # 0
      BY <1>1 DEF ManagerInv, GraphInv, ManagerTypeOK
    <3> QED
      BY <1>1, <1>3, <2>2, <3>1 DEF ManagerInv, GraphInv, Original, Objects
  <2> QED
    BY <2>1, <2>2
<1> QED
  BY <1>1, <1>2, <1>3 DEF Objects

\* The invariant settles the states of a joined batch.
LEMMA ManagerInvSettles == ManagerInv => SettledWhenJoined
  BY DEF ManagerInv, ObjectInv, SettledWhenJoined, ManagerTypeOK, Objects

\* A new batch, when no thread runs.
LEMMA NewBatchInv ==
  ASSUME ManagerInv, NEW states \in SUBSET States, NewBatch(states),
         Running \cap States = {}, UNCHANGED objectVars
  PROVE  ManagerInv'
<1>0. thread' = thread /\ rpg' = rpg /\ value' = value /\ calculated' = calculated
      /\ planOf' = planOf /\ torn' = torn /\ Running' = Running
  BY DEF objectVars, Running
<1>1. ManagerTypeOK'
  BY <1>0 DEF ManagerInv, ManagerTypeOK, NewBatch
<1>2. BatchInv'
  BY <1>0 DEF ManagerInv, BatchInv, NewBatch
<1>3. GraphInv'
  BY <1>0 DEF ManagerInv, GraphInv
<1>4. ObjectInv'
  BY <1>0 DEF ManagerInv, ObjectInv
<1> QED
  BY <1>1, <1>2, <1>3, <1>4 DEF ManagerInv

\* start() meets a goal.
LEMMA MeetGoalInv ==
  ASSUME ManagerInv, NEW s \in States, MeetGoal(s)
  PROVE  ManagerInv'
<1>0. thread' = thread /\ rpg' = rpg /\ value' = value /\ calculated' = calculated
      /\ planOf' = planOf /\ torn' = torn /\ Running' = Running
      /\ round' = round /\ nextGraph' = nextGraph /\ batch' = batch
  BY DEF MeetGoal, objectVars, Running
<1>1. ManagerTypeOK'
  BY <1>0 DEF ManagerInv, ManagerTypeOK, MeetGoal
<1>2. BatchInv'
  BY <1>0, StatesAssumption DEF ManagerInv, ManagerTypeOK, BatchInv, MeetGoal, Objects
<1>3. GraphInv'
  BY <1>0 DEF ManagerInv, GraphInv
<1>4. ObjectInv'
  BY <1>0 DEF ManagerInv, ObjectInv
<1> QED
  BY <1>1, <1>2, <1>3, <1>4 DEF ManagerInv

\* start() gives a state its graph and its thread.
LEMMA StartThreadInv ==
  ASSUME ManagerInv, NEW s \in States, StartThread(s)
  PROVE  ManagerInv'
<1>0. /\ rpg' = [rpg EXCEPT ![s] = <<round, nextGraph>>]
      /\ thread' = [thread EXCEPT ![s] = "lookup"]
      /\ nextGraph' = nextGraph + 1
      /\ waiting' = waiting \ {s}
      /\ s \in waiting /\ s \notin Goals /\ s \notin Running
      /\ UNCHANGED <<batch, round, goalReached, value, calculated, planOf, torn>>
  BY DEF StartThread, ManagerInv, BatchInv
<1>1. ManagerTypeOK'
  BY <1>0 DEF ManagerInv, ManagerTypeOK, ThreadPhase, Objects
<1>2. Running' = Running \cup {s}
  BY <1>0 DEF ManagerInv, ManagerTypeOK, Running, Objects
<1>3. BatchInv'
  BY <1>0, <1>2 DEF ManagerInv, ManagerTypeOK, BatchInv, Objects
<1>4. GraphInv'
  <2>1. rpg'[s][1] = round /\ rpg'[s][2] = nextGraph
    BY <1>0 DEF ManagerInv, ManagerTypeOK, Objects
  <2>2. \A t \in Objects \ {s} : rpg'[t] = rpg[t]
    BY <1>0 DEF ManagerInv, ManagerTypeOK
  <2>3. nextGraph \in Nat \ {0}
    BY DEF ManagerInv, ManagerTypeOK
  <2>4. \A t \in Running' \cap States :
          rpg'[t][1] = round' /\ rpg'[t][2] \in 1 .. nextGraph' - 1
    <3> SUFFICES ASSUME NEW t \in Running' \cap States
                 PROVE  rpg'[t][1] = round /\ rpg'[t][2] \in 1 .. nextGraph
      BY <1>0, <2>3
    <3>1. CASE t = s
      BY <3>1, <2>1, <2>3
    <3>2. CASE t # s
      <4>1. rpg[t][1] = round /\ rpg[t][2] \in 1 .. nextGraph - 1
        BY <3>2, <1>2 DEF ManagerInv, GraphInv
      <4>2. rpg'[t] = rpg[t]
        BY <2>2, <3>2 DEF Objects
      <4> QED
        BY <4>1, <4>2, <2>3
    <3> QED
      BY <3>1, <3>2
  <2>5. \A t \in Running \cap States : rpg[t][2] # nextGraph
    BY <2>3 DEF ManagerInv, GraphInv
  <2>6. \A t, u \in Running' \cap States : t # u => rpg'[t] # rpg'[u]
    BY <1>2, <2>1, <2>2, <2>5 DEF ManagerInv, GraphInv, Objects
  <2>7. (\A a \in LookAheads : rpg'[a] = Original) /\ torn' = {}
    BY <1>0, StatesAssumption DEF ManagerInv, ManagerTypeOK, GraphInv, Objects
  <2>8. \A a, b \in Running' \ States : a = b
    BY <1>2 DEF ManagerInv, GraphInv
  <2> QED
    BY <2>4, <2>6, <2>7, <2>8 DEF GraphInv
<1>5. ObjectInv'
  BY <1>0 DEF ManagerInv, ManagerTypeOK, ObjectInv, Objects
<1> QED
  BY <1>1, <1>3, <1>4, <1>5 DEF ManagerInv

\* Either turn of the loop of start().
LEMMA ManagerStepInv == ManagerInv /\ ManagerStep => ManagerInv'
  BY MeetGoalInv, StartThreadInv DEF ManagerStep

\* A step that leaves the manager and the objects alone.
LEMMA ManagerStutterInv ==
  ManagerInv /\ UNCHANGED <<managerVars, objectVars>> => ManagerInv'
  BY DEF ManagerInv, ManagerTypeOK, BatchInv, GraphInv, ObjectInv, Running,
         managerVars, objectVars

\* A thread looks its state up in the history: an entry may differ from the
\* state in its value if the state has still to be evaluated.
LEMMA LookUpInv ==
  ASSUME ManagerInv, NEW s \in States, LookUp(s),
         calculated[s] /\ HistoryEntry[s] = s => HistoryValue[s] = H[s]
  PROVE  ManagerInv'
<1>0. /\ thread[s] = "lookup"
      /\ thread' = [thread EXCEPT ![s] = "evaluate"]
      /\ \/ /\ value' = [value EXCEPT ![s] = HistoryValue[s]]
            /\ planOf' = [planOf EXCEPT ![s] = s]
            /\ calculated[s] => HistoryValue[s] = H[s]
         \/ UNCHANGED <<value, planOf>>
      /\ UNCHANGED <<managerVars, rpg, calculated, torn>>
  BY DEF LookUp
<1>1. ManagerTypeOK'
  BY <1>0, StatesAssumption DEF ManagerInv, ManagerTypeOK, ThreadPhase, Objects, managerVars
<1>2. Running' = Running
  BY <1>0 DEF ManagerInv, ManagerTypeOK, Running, Objects
<1>3. BatchInv'
  BY <1>0, <1>2 DEF ManagerInv, ManagerTypeOK, BatchInv, Objects, managerVars
<1>4. GraphInv'
  BY <1>0, <1>2 DEF ManagerInv, GraphInv, managerVars
<1>5. ObjectInv'
  BY <1>0 DEF ManagerInv, ManagerTypeOK, ObjectInv, Objects
<1> QED
  BY <1>1, <1>3, <1>4, <1>5 DEF ManagerInv

\* A thread finds the value of its state calculated.
LEMMA CachedInv ==
  ASSUME ManagerInv, NEW s \in Objects, Cached(s)
  PROVE  ManagerInv'
<1>0. /\ thread[s] = "evaluate" /\ calculated[s]
      /\ thread' = [thread EXCEPT ![s] = "reset"]
      /\ UNCHANGED <<managerVars, rpg, value, calculated, planOf, torn>>
  BY DEF Cached
<1>1. ManagerTypeOK'
  BY <1>0 DEF ManagerInv, ManagerTypeOK, ThreadPhase, managerVars
<1>2. Running' = Running
  BY <1>0 DEF ManagerInv, ManagerTypeOK, Running
<1>3. BatchInv'
  BY <1>0, <1>2 DEF ManagerInv, ManagerTypeOK, BatchInv, Objects, managerVars
<1>4. GraphInv'
  BY <1>0, <1>2 DEF ManagerInv, GraphInv, managerVars
<1>5. ObjectInv'
  BY <1>0 DEF ManagerInv, ManagerTypeOK, ObjectInv
<1> QED
  BY <1>1, <1>3, <1>4, <1>5 DEF ManagerInv

\* A thread begins to plan: no other plans on its graph.
LEMMA BeginPlanInv ==
  ASSUME ManagerInv, NEW s \in Objects, BeginPlan(s)
  PROVE  ManagerInv'
<1>0. /\ thread[s] = "evaluate" /\ ~ calculated[s]
      /\ thread' = [thread EXCEPT ![s] = "planning"]
      /\ UNCHANGED <<managerVars, rpg, value, calculated, planOf>>
  BY DEF BeginPlan
<1>1. Running' = Running /\ s \in Running
  BY <1>0 DEF ManagerInv, ManagerTypeOK, Running
<1>2. \A t \in Planning : rpg[t] # rpg[s]
  <2> SUFFICES ASSUME NEW t \in Planning, rpg[t] = rpg[s] PROVE FALSE
    OBVIOUS
  <2>1. t \in Running /\ t \in Objects /\ t # s
    BY <1>0 DEF Planning, Running
  <2>2. CASE s \in States /\ t \in States
    BY <1>1, <2>1, <2>2 DEF ManagerInv, GraphInv
  <2>3. CASE s \notin States /\ t \notin States
    BY <1>1, <2>1, <2>3 DEF ManagerInv, GraphInv
  <2>4. \A u \in {s, t} : u \in States => rpg[u][2] # 0
    BY <1>1, <2>1 DEF ManagerInv, GraphInv, ManagerTypeOK
  <2>5. \A u \in {s, t} : u \notin States => rpg[u] = Original
    BY <2>1 DEF ManagerInv, GraphInv, Objects
  <2> QED
    BY <2>2, <2>3, <2>4, <2>5 DEF Original
<1>3. torn' = {}
  BY <1>2 DEF BeginPlan, ManagerInv, GraphInv
<1>4. ManagerTypeOK'
  BY <1>0, <1>3 DEF ManagerInv, ManagerTypeOK, ThreadPhase, managerVars
<1>5. BatchInv'
  BY <1>0, <1>1 DEF ManagerInv, ManagerTypeOK, BatchInv, Objects, managerVars
<1>6. GraphInv'
  BY <1>0, <1>1, <1>3 DEF ManagerInv, GraphInv, managerVars
<1>7. ObjectInv'
  BY <1>0 DEF ManagerInv, ManagerTypeOK, ObjectInv
<1> QED
  BY <1>4, <1>5, <1>6, <1>7 DEF ManagerInv

\* A thread ends its planning with the right value.
LEMMA EndPlanInv ==
  ASSUME ManagerInv, NEW s \in Objects, EndPlan(s)
  PROVE  ManagerInv'
<1>0. /\ thread[s] = "planning" /\ s \notin Failing
      /\ value' = [value EXCEPT ![s] = H[s]]
      /\ calculated' = [calculated EXCEPT ![s] = TRUE]
      /\ thread' = [thread EXCEPT ![s] = "reset"]
      /\ torn' = {}
      /\ UNCHANGED <<managerVars, rpg, planOf>>
  BY DEF EndPlan, ManagerInv, GraphInv
<1>1. ManagerTypeOK'
  BY <1>0, StatesAssumption DEF ManagerInv, ManagerTypeOK, ThreadPhase, managerVars
<1>2. Running' = Running
  BY <1>0 DEF ManagerInv, ManagerTypeOK, Running
<1>3. BatchInv'
  BY <1>0, <1>2 DEF ManagerInv, ManagerTypeOK, BatchInv, Objects, managerVars
<1>4. GraphInv'
  BY <1>0, <1>2 DEF ManagerInv, GraphInv, managerVars
<1>5. ObjectInv'
  BY <1>0 DEF ManagerInv, ManagerTypeOK, ObjectInv
<1> QED
  BY <1>1, <1>3, <1>4, <1>5 DEF ManagerInv

\* A thread throws, or puts the original graph back.
LEMMA LeaveInv ==
  ASSUME ManagerInv, NEW s \in Objects, Throw(s) \/ PutBack(s)
  PROVE  ManagerInv'
<1>0. /\ \/ thread[s] = "planning" /\ s \in Failing /\ rpg' = rpg
            /\ thread' = [thread EXCEPT ![s] = "failed"]
         \/ thread[s] = "reset" /\ rpg' = [rpg EXCEPT ![s] = Original]
            /\ thread' = [thread EXCEPT ![s] = "done"]
      /\ torn' = {}
      /\ UNCHANGED <<managerVars, value, calculated, planOf>>
  BY DEF Throw, PutBack, ManagerInv, GraphInv
<1>1. ManagerTypeOK'
  <2>1. Original \in Nat \X Nat
    BY DEF Original
  <2>2. rpg \in [Objects -> Nat \X Nat] /\ thread \in [Objects -> ThreadPhase]
    BY DEF ManagerInv, ManagerTypeOK
  <2>3. rpg' \in [Objects -> Nat \X Nat]
    BY <1>0, <2>1, <2>2
  <2>4. thread' \in [Objects -> ThreadPhase]
    BY <1>0, <2>2 DEF ThreadPhase
  <2> QED
    BY <1>0, <2>3, <2>4 DEF ManagerInv, ManagerTypeOK, managerVars
<1>2. Running' = Running \ {s} /\ \A t \in Running' : rpg'[t] = rpg[t]
  BY <1>0 DEF ManagerInv, ManagerTypeOK, Running
<1>3. BatchInv'
  BY <1>0, <1>2 DEF ManagerInv, ManagerTypeOK, BatchInv, Objects, managerVars
<1>4. GraphInv'
  <2>1. \A a \in LookAheads : rpg'[a] = Original
    BY <1>0 DEF ManagerInv, ManagerTypeOK, GraphInv, Objects
  <2> QED
    BY <1>0, <1>2, <2>1 DEF ManagerInv, GraphInv, managerVars
<1>5. ObjectInv'
  BY <1>0 DEF ManagerInv, ManagerTypeOK, ObjectInv
<1> QED
  BY <1>1, <1>3, <1>4, <1>5 DEF ManagerInv

\* Any step of a thread; the client's own evaluation never looks up.
LEMMA ThreadStepInv ==
  ASSUME ManagerInv, NEW s \in Objects, s \notin States => thread[s] # "lookup",
         s \in States /\ thread[s] = "lookup" /\ calculated[s] /\ HistoryEntry[s] = s =>
           HistoryValue[s] = H[s],
         ThreadStep(s)
  PROVE  ManagerInv'
<1>1. CASE LookUp(s)
  BY <1>1, LookUpInv DEF LookUp
<1>2. CASE Cached(s)
  BY <1>2, CachedInv
<1>3. CASE BeginPlan(s)
  BY <1>3, BeginPlanInv
<1>4. CASE EndPlan(s)
  BY <1>4, EndPlanInv
<1>5. CASE Throw(s) \/ PutBack(s)
  BY <1>5, LeaveInv
<1> QED
  BY <1>1, <1>2, <1>3, <1>4, <1>5 DEF ThreadStep

-----------------------------------------------------------------------------
(***************************************************************************)
(* The evaluator of hill climbing (EHCEvaluator).                          *)
(***************************************************************************)

\* Where run() is, against its threads and its batch.
PhaseInv ==
    /\ phase # "started" => Running = {}
    /\ phase = "started" => batch = first
    /\ phase # "finished" => ehcBest = NoState
    /\ \A a \in LookAheads : thread[a] = "none"

Inv == TypeOK /\ ManagerInv /\ PhaseInv /\ ReportIsRight

\* The iterator yields some of the neighbours.
LEMMA FirstOfStates ==
  ASSUME NEW f \in Promise!FirstOf(States)
  PROVE  f \in SUBSET States
  BY DEF Promise!FirstOf

\* The initial states satisfy the invariant.
LEMMA InitInv == Init => Inv
<1> SUFFICES ASSUME Init PROVE Inv
  OBVIOUS
<1>1. ManagerInv
  BY ManagerInitInv DEF Init
<1>2. first \in SUBSET States
  BY FirstOfStates DEF Init
<1>3. TypeOK
  BY <1>1, <1>2 DEF Init, TypeOK, ManagerInv
<1>4. PhaseInv
  BY DEF Init, ManagerInit, PhaseInv, Running, Objects
<1>5. ReportIsRight
  <2>1. ASSUME phase = "finished" PROVE first = {}
    BY <1>2, <2>1 DEF Init
  <2> QED
    BY <2>1 DEF ReportIsRight, Init
<1> QED
  BY <1>1, <1>3, <1>4, <1>5 DEF Inv

\* Once joined, nothing runs, and a state of the batch that did not throw
\* has been evaluated.
LEMMA JoinedStates ==
  ASSUME Inv, phase = "started", Joined
  PROVE  /\ Running = {}
         /\ goalReached = NoState =>
              \A s \in first \ Failing : value[s] = H[s] /\ s \notin Goals
<1>1. Running = {}
  BY DEF Inv, PhaseInv, Joined, Running, Objects
<1>2. ASSUME goalReached = NoState, NEW s \in first \ Failing
      PROVE  value[s] = H[s] /\ s \notin Goals
  <2>1. s \in batch \ waiting /\ s \in States /\ s \in Objects
    BY DEF Inv, PhaseInv, TypeOK, Joined, Started, Objects
  <2>2. s \notin Goals /\ thread[s] # "none"
    BY <1>2, <2>1 DEF Inv, ManagerInv, BatchInv
  <2>3. thread[s] = "done"
    BY <2>1, <2>2 DEF Inv, ManagerInv, ObjectInv, Joined
  <2> QED
    BY <2>1, <2>2, <2>3 DEF Inv, ManagerInv, ObjectInv
<1> QED
  BY <1>1, <1>2

\* The steps of run() that end a round.
LEMMA ReportInv ==
  ASSUME Inv,
         TakeGoal \/ (\E s \in States : TakeBetter(s)) \/ Interrupted \/ NoneBetter
  PROVE  Inv'
<1>0. /\ phase = "started" /\ Joined
      /\ UNCHANGED <<managerVars, objectVars, first>>
      /\ Running' = Running
  BY DEF TakeGoal, TakeBetter, Interrupted, NoneBetter, Running, objectVars
<1>1. ManagerInv'
  BY <1>0, ManagerStutterInv DEF Inv
<1>2. Running = {} /\ batch = first
  BY <1>0, JoinedStates DEF Inv, PhaseInv
<1>3. CASE TakeGoal
  <2>1. goalReached \in first /\ goalReached \in Goals /\ goalReached \in States
    BY <1>2, <1>3 DEF TakeGoal, Inv, ManagerInv, ManagerTypeOK, BatchInv, TypeOK
  <2>2. goalReached # NoState
    BY <1>3 DEF TakeGoal
  <2>3. PhaseInv' /\ TypeOK'
    BY <1>0, <1>1, <1>2, <1>3, <2>1
       DEF TakeGoal, Inv, PhaseInv, TypeOK, ManagerInv, objectVars
  <2>4. ReportIsRight'
    BY <1>0, <1>3, <2>1, <2>2 DEF TakeGoal, ReportIsRight, Promise!Improves
  <2> QED
    BY <1>1, <2>3, <2>4 DEF Inv
<1>4. CASE \E s \in States : TakeBetter(s)
  <2> PICK s \in States : TakeBetter(s)
    BY <1>4
  <2>1. value[s] = H[s] /\ s \in first /\ H[s] < InitialH
    BY <1>0, JoinedStates DEF TakeBetter
  <2>2. s # NoState
    BY StatesAssumption DEF Objects
  <2>3. PhaseInv' /\ TypeOK'
    BY <1>0, <1>1, <1>2
       DEF TakeBetter, Inv, PhaseInv, TypeOK, ManagerInv, objectVars
  <2>4. ReportIsRight'
    BY <1>0, <2>1, <2>2 DEF TakeBetter, ReportIsRight, Promise!Improves
  <2> QED
    BY <1>1, <2>3, <2>4 DEF Inv
<1>5. CASE Interrupted
  <2>1. PhaseInv' /\ TypeOK'
    BY <1>0, <1>1, <1>2, <1>5
       DEF Interrupted, Inv, PhaseInv, TypeOK, ManagerInv, objectVars
  <2>2. ehcBest = NoState
    BY <1>0 DEF Inv, PhaseInv
  <2>3. ReportIsRight'
    BY <1>0, <1>5, <2>2 DEF Interrupted, ReportIsRight
  <2> QED
    BY <1>1, <2>1, <2>3 DEF Inv
<1>6. CASE NoneBetter
  <2>1. ehcBest = NoState
    BY <1>0 DEF Inv, PhaseInv
  <2>2. PhaseInv'
    BY <1>0, <1>2, <1>6, <2>1 DEF NoneBetter, Inv, PhaseInv, objectVars
  <2>3. TypeOK'
    BY <1>0, <1>1, <1>6, EvaluatorAssumption
       DEF NoneBetter, Inv, TypeOK, ManagerInv
  <2>4. ASSUME NEW s \in first PROVE ~ Promise!Improves(s, InitialH)
    <3>1. s \in first \ Failing /\ value[s] >= InitialH /\ goalReached = NoState
      BY <1>6 DEF NoneBetter
    <3>2. value[s] = H[s] /\ s \notin Goals
      BY <1>0, <3>1, JoinedStates
    <3>3. H[s] \in Nat /\ InitialH \in Nat
      BY StatesAssumption, EvaluatorAssumption DEF Inv, TypeOK, Objects
    <3> QED
      BY <3>1, <3>2, <3>3 DEF Promise!Improves
  <2>5. ReportIsRight'
    BY <1>0, <1>6, <2>1, <2>4 DEF NoneBetter, ReportIsRight, Promise!Improves
  <2> QED
    BY <1>1, <2>2, <2>3, <2>5 DEF Inv
<1> QED
  BY <1>3, <1>4, <1>5, <1>6

\* Every step keeps the invariant.
LEMMA NextInv == Inv /\ [Next]_vars => Inv'
<1> SUFFICES ASSUME Inv, [Next]_vars PROVE Inv'
  OBVIOUS
<1>1. CASE ChooseSubset
  <2>1. Running = {} /\ first \in SUBSET States /\ Running' = Running
    BY <1>1 DEF ChooseSubset, Inv, PhaseInv, TypeOK, objectVars, Running
  <2>2. ManagerInv'
    BY <1>1, <2>1, NewBatchInv DEF ChooseSubset, Inv
  <2>3. TypeOK' /\ PhaseInv' /\ ReportIsRight'
    BY <1>1, <2>1, <2>2
       DEF ChooseSubset, NewBatch, Inv, TypeOK, ManagerInv, PhaseInv,
           ReportIsRight, objectVars
  <2> QED
    BY <2>2, <2>3 DEF Inv
<1>2. CASE StartThreads
  <2>1. ManagerInv'
    BY <1>2, ManagerStepInv DEF StartThreads, Inv
  <2>2. (\A a \in LookAheads : thread'[a] = "none") /\ batch' = batch
    BY <1>2, StatesAssumption
       DEF StartThreads, ManagerStep, MeetGoal, StartThread, objectVars,
           Inv, PhaseInv, ManagerInv, ManagerTypeOK, Objects
  <2>3. TypeOK' /\ PhaseInv' /\ ReportIsRight'
    BY <1>2, <2>1, <2>2
       DEF StartThreads, evaluatorVars, Inv, TypeOK, ManagerInv, PhaseInv, ReportIsRight
  <2> QED
    BY <2>1, <2>3 DEF Inv
<1>3. CASE \E s \in States : RunThread(s)
  <2> PICK s \in States : RunThread(s)
    BY <1>3
  <2>1. ManagerInv'
    BY ThreadStepInv, HistoryAgrees DEF RunThread, Inv, Objects
  <2>2. (\A a \in LookAheads : thread'[a] = "none") /\ batch' = batch
    BY StatesAssumption
       DEF RunThread, ThreadStep, LookUp, Cached, BeginPlan, EndPlan, Throw, PutBack,
           managerVars, Inv, PhaseInv, ManagerInv, ManagerTypeOK, Objects
  <2>3. s \in Running
    BY DEF RunThread, ThreadStep, LookUp, Cached, BeginPlan, EndPlan, Throw, PutBack,
           Running, Objects
  <2>4. phase = "started" /\ phase' = phase /\ first' = first
    BY <2>3 DEF Inv, PhaseInv, RunThread, evaluatorVars
  <2>5. TypeOK' /\ PhaseInv' /\ ReportIsRight'
    BY <2>1, <2>2, <2>4
       DEF RunThread, evaluatorVars, Inv, TypeOK, ManagerInv, PhaseInv, ReportIsRight
  <2> QED
    BY <2>1, <2>5 DEF Inv
<1>4. CASE TakeGoal \/ (\E s \in States : TakeBetter(s)) \/ Interrupted \/ NoneBetter
  BY <1>4, ReportInv
<1>5. CASE UNCHANGED vars
  <2>1. ManagerInv'
    BY <1>5, ManagerStutterInv DEF Inv, vars
  <2> QED
    BY <1>5, <2>1 DEF Inv, vars, TypeOK, ManagerInv, PhaseInv, ReportIsRight,
                      evaluatorVars, objectVars, managerVars, Running
<1> QED
  BY <1>1, <1>2, <1>3, <1>4, <1>5 DEF Next, Evaluator

\* The strengthened invariant holds throughout.
LEMMA Invariance == Spec => []Inv
  BY InitInv, NextInv, PTL DEF Spec

-----------------------------------------------------------------------------

\* The evaluator, its manager and its threads keep the types of their fields.
THEOREM EvaluatorTypeCorrect == Spec => []TypeOK
<1>1. Inv => TypeOK
  BY DEF Inv
<1> QED
  BY <1>1, Invariance, PTL

\* However many neighbours there are and however their threads interleave, no
\* two of them ever plan on one relaxed planning graph.
THEOREM GraphsExclusive == Spec => []ExclusiveGraphs
<1>1. Inv => ExclusiveGraphs
  BY ManagerInvExcludes DEF Inv
<1> QED
  BY <1>1, Invariance, PTL

\* After each join of start()'s threads the states that were evaluated have
\* their own values, plans and the graph they share.
THEOREM BatchSettled == Spec => []SettledWhenJoined
<1>1. Inv => SettledWhenJoined
  BY ManagerInvSettles DEF Inv
<1> QED
  BY <1>1, Invariance, PTL

\* getEHCBest is a goal or strictly better than initialH, and null only if
\* none of the states tried was, or one of them threw.
THEOREM ReportCorrect == Spec => []ReportIsRight
<1>1. Inv => ReportIsRight
  BY DEF Inv
<1> QED
  BY <1>1, Invariance, PTL

-----------------------------------------------------------------------------

\* LIMIT stays below MAX_LIMIT until run() gives up, and is increased only
\* when no state tried is better and none throws, which is so for good.
LimitInv ==
    /\ first \in Promise!FirstOf(States)
    /\ phase # "finished" => States # {} /\ limit < MaxLimit
    /\ phase # "finished" /\ limit > 0 =>
         \A s \in first : s \notin Failing /\ ~ Promise!Improves(s, InitialH)

\* LIMIT and the states tried keep this relation.
LEMMA LimitKept == Spec => []LimitInv
<1>1. Init => LimitInv
  BY EvaluatorAssumption DEF Init, LimitInv
<1>2. ASSUME Inv, LimitInv, [Next]_vars PROVE LimitInv'
  <2>1. CASE NoneBetter
    <3>1. \A s \in first : s \notin Failing /\ ~ Promise!Improves(s, InitialH)
      <4> SUFFICES ASSUME NEW s \in first
                   PROVE  s \notin Failing /\ ~ Promise!Improves(s, InitialH)
        OBVIOUS
      <4>1. s \notin Failing /\ value[s] >= InitialH /\ goalReached = NoState
        BY <2>1 DEF NoneBetter
      <4>2. value[s] = H[s] /\ s \notin Goals
        BY <1>2, <2>1, <4>1, JoinedStates DEF NoneBetter
      <4>3. H[s] \in Nat /\ InitialH \in Nat
        BY <1>2, StatesAssumption, EvaluatorAssumption DEF Inv, TypeOK, Objects
      <4> QED
        BY <4>1, <4>2, <4>3 DEF Promise!Improves
    <3> QED
      BY <1>2, <2>1, <3>1, EvaluatorAssumption
         DEF LimitInv, NoneBetter, Inv, TypeOK, Promise!Improves
  <2>2. CASE ChooseSubset
    BY <1>2, <2>2 DEF LimitInv, ChooseSubset, Inv, PhaseInv, Promise!Improves
  <2>3. CASE UNCHANGED evaluatorVars
    BY <1>2, <2>3 DEF LimitInv, evaluatorVars, Promise!Improves
  <2> QED
    BY <1>2, <2>1, <2>2, <2>3
       DEF Next, Evaluator, StartThreads, RunThread, TakeGoal, TakeBetter, Interrupted,
           vars, LimitInv, Promise!Improves
<1> QED
  BY <1>1, <1>2, Invariance, PTL DEF Spec

\* The instances' cardinalities are the library's.
LEMMA SameCardinality ==
  \A S : Promise!Cardinality(S) = Cardinality(S) /\ Abstract!Cardinality(S) = Cardinality(S)
  BY DEF Cardinality, Promise!Cardinality, Abstract!Cardinality

\* Of several states the iterator yields at least one.
LEMMA FirstNotEmpty ==
  ASSUME NEW f \in Promise!FirstOf(States), States # {}
  PROVE  f # {}
<1>1. Cardinality({}) = 0
  BY FS_EmptySet
<1> QED
  BY <1>1, SameCardinality, EvaluatorAssumption DEF Promise!FirstOf

\* The step that ends run() is a Finish of the abstract evaluation.
LEMMA ReportAllowed ==
  ASSUME Inv, LimitInv,
         TakeGoal \/ (\E s \in States : TakeBetter(s)) \/ Interrupted \/ NoneBetter,
         phase' = "finished"
  PROVE  Abstract!Finish
<1> DEFINE Report(s, l) == [best |-> s, limit |-> l]
<1>0. /\ phase = "started" /\ Joined /\ batch = first
      /\ limit \in Nat /\ ehcBest = NoState /\ first \in SUBSET States
      /\ \A s \in Objects : H[s] \in Nat
  BY StatesAssumption
     DEF TakeGoal, TakeBetter, Interrupted, NoneBetter, Inv, PhaseInv, TypeOK
<1>1. SUFFICES Report(ehcBest', limit') \in Abstract!Results(States, InitialH, 0)
  BY <1>0 DEF Abstract!Finish
<1>2. ASSUME NEW s \in first, s \in Failing \/ Promise!Improves(s, InitialH)
      PROVE  limit = 0
  BY <1>0, <1>2 DEF LimitInv
<1>3. ASSUME NEW s \in first, Promise!Improves(s, InitialH)
      PROVE  Report(s, limit) \in Abstract!Results(States, InitialH, 0)
  BY <1>0, <1>2, <1>3 DEF Abstract!Results, Abstract!Improves, Promise!Improves
<1>4. CASE TakeGoal
  <2>1. goalReached \in first /\ goalReached \in Goals
    BY <1>0, <1>4 DEF TakeGoal, Inv, ManagerInv, ManagerTypeOK, BatchInv
  <2> QED
    BY <1>3, <1>4, <2>1 DEF TakeGoal, Promise!Improves
<1>5. CASE \E s \in States : TakeBetter(s)
  <2> PICK s \in States : TakeBetter(s)
    BY <1>5
  <2>1. value[s] = H[s] /\ s \in first /\ H[s] < InitialH
    BY <1>0, JoinedStates DEF TakeBetter
  <2> QED
    BY <1>3, <2>1 DEF TakeBetter, Promise!Improves
<1>6. CASE Interrupted
  <2>1. limit = 0 /\ States \cap Failing # {}
    BY <1>0, <1>2, <1>6 DEF Interrupted
  <2> QED
    BY <1>0, <1>6, <2>1 DEF Interrupted, Abstract!Results
<1>7. CASE NoneBetter
  <2>1. limit' \in MaxLimit .. MaxLimit + EvaluationSize - 1 /\ ehcBest' = NoState
    BY <1>0, <1>7, EvaluatorAssumption DEF NoneBetter, LimitInv
  <2>2. first # {} /\ first \in Abstract!FirstOf(States)
    BY <1>0, FirstNotEmpty, SameCardinality DEF LimitInv, Abstract!FirstOf, Promise!FirstOf
  <2>3. \A s \in first : ~ Abstract!Improves(s, InitialH) /\ s \notin Failing
    <3> SUFFICES ASSUME NEW s \in first
                 PROVE  ~ Abstract!Improves(s, InitialH) /\ s \notin Failing
      OBVIOUS
    <3>1. s \notin Failing /\ value[s] >= InitialH /\ goalReached = NoState
      BY <1>7 DEF NoneBetter
    <3>2. value[s] = H[s] /\ s \notin Goals
      BY <1>0, <3>1, JoinedStates
    <3> QED
      BY <1>0, <3>1, <3>2, EvaluatorAssumption DEF Abstract!Improves, Objects
  <2> QED
    BY <2>1, <2>2, <2>3 DEF Abstract!Results
<1> QED
  BY <1>4, <1>5, <1>6, <1>7

\* Seen from outside, with LIMIT read after the join, every evaluation starts
\* as the abstract one does and each of its steps is a Finish with one of the
\* reports hill climbing relies on, or changes nothing.
THEOREM EvaluationRefined ==
  Spec => Abstract!Init /\ [][Abstract!Finish]_(Abstract!vars)
<1>1. Init => Abstract!Init
  BY DEF Init, Abstract!Init
<1>2. ASSUME Inv, LimitInv, [Next]_vars
      PROVE  Abstract!Finish \/ UNCHANGED Abstract!vars
  <2>1. CASE TakeGoal \/ (\E s \in States : TakeBetter(s)) \/ Interrupted \/ NoneBetter
    <3>1. CASE phase' = "finished"
      BY <1>2, <2>1, <3>1, ReportAllowed
    <3>2. CASE phase' # "finished"
      BY <2>1, <3>2 DEF TakeGoal, TakeBetter, Interrupted, NoneBetter, Abstract!vars
    <3> QED
      BY <3>1, <3>2
  <2>2. CASE ChooseSubset
    BY <2>2 DEF ChooseSubset, Abstract!vars
  <2>3. CASE UNCHANGED evaluatorVars
    BY <2>3 DEF evaluatorVars, Abstract!vars
  <2> QED
    BY <1>2, <2>1, <2>2, <2>3 DEF Next, Evaluator, StartThreads, RunThread, vars
<1> QED
  BY <1>1, <1>2, Invariance, LimitKept, PTL DEF Spec

-----------------------------------------------------------------------------
(***************************************************************************)
(* The step of an Identidem probe (IdentidemRound).                        *)
(***************************************************************************)

\* Where the searching thread is, against its threads and its own evaluation.
SearcherInv ==
    /\ searcherAt = "sample" => \A s \in Objects : thread[s] = "none"
    /\ searcherAt \in {"sample", "start"} => thread[rpgState] = "none"
    /\ \A a \in LookAheads : thread[a] # "lookup" /\ (a # rpgState => thread[a] = "none")
    /\ \A s \in waiting : thread[s] = "none"
    /\ \A s \in Objects : thread[s] \in {"none", "lookup"} => ~ calculated[s]

RoundInv == RoundTypeOK /\ ManagerInv /\ SearcherInv /\ ChosenIsReady /\ ChoosesWell

\* The initial state satisfies the invariant.
LEMMA RoundInitInv == RoundInit => RoundInv
<1> SUFFICES ASSUME RoundInit PROVE RoundInv
  OBVIOUS
<1>1. ManagerInv
  BY ManagerInitInv DEF RoundInit
<1>2. rpgState \in LookAheads /\ rpgState \in Objects
  BY DEF RoundInit, Objects
<1>3. RoundTypeOK
  BY <1>1, <1>2 DEF RoundInit, RoundTypeOK, ManagerInv
<1>4. SearcherInv
  BY <1>2 DEF RoundInit, ManagerInit, SearcherInv, Objects
<1> QED
  BY <1>1, <1>3, <1>4 DEF RoundInv, RoundInit, ChosenIsReady, ChoosesWell

\* A graph is given, and threads are started, in the first two phases only.
LEMMA SampleInv == ASSUME RoundInv, Sample \/ StartSample PROVE RoundInv'
<1>0. /\ rpgState' = rpgState /\ rpgState \in LookAheads /\ rpgState \notin States
      /\ searcherAt \in {"sample", "start"} /\ searcherAt' = "start"
      /\ chosen' = chosen /\ chosen \in Objects \cup {NoState}
  BY StatesAssumption DEF Sample, StartSample, searcherVars, RoundInv, RoundTypeOK
<1>1. ManagerInv' /\ SearcherInv'
  <2>1. CASE Sample
    <3> PICK sample \in Samples : NewBatch(sample)
      BY <2>1 DEF Sample
    <3>1. sample \in SUBSET States /\ UNCHANGED objectVars
      BY <2>1 DEF Sample, Samples
    <3>2. \A s \in Objects : thread[s] = "none"
      BY <2>1 DEF Sample, RoundInv, SearcherInv
    <3>3. Running \cap States = {}
      BY <3>2 DEF Running
    <3>4. ManagerInv'
      BY <3>1, <3>3, NewBatchInv DEF RoundInv
    <3>5. waiting' \subseteq Objects /\ thread' = thread /\ calculated' = calculated
      BY <3>1 DEF NewBatch, Objects, objectVars
    <3>6. SearcherInv'
      BY <1>0, <3>2, <3>5 DEF RoundInv, SearcherInv
    <3> QED
      BY <3>4, <3>6
  <2>2. CASE StartSample
    <3>1. ManagerInv'
      BY <2>2, ManagerStepInv DEF StartSample, RoundInv
    <3>2. PICK s \in States : MeetGoal(s) \/ StartThread(s)
      BY <2>2 DEF StartSample, ManagerStep
    <3>3. /\ waiting' \subseteq waiting /\ waiting \subseteq States /\ calculated' = calculated
          /\ thread \in [Objects -> ThreadPhase]
          /\ \/ thread' = thread
             \/ /\ thread' = [thread EXCEPT ![s] = "lookup"]
                /\ s \in waiting /\ waiting' = waiting \ {s}
      BY <3>2 DEF MeetGoal, StartThread, objectVars, RoundInv, ManagerInv, ManagerTypeOK
    <3>4. \A t \in Objects : t # s => thread'[t] = thread[t]
      BY <3>3
    <3>5. thread'[s] \in {thread[s], "lookup"} /\ (thread'[s] # thread[s] => s \in waiting)
      BY <3>3
    <3>6. \A a \in LookAheads : a # s /\ a \in Objects
      BY StatesAssumption DEF Objects
    <3>7. \A t \in waiting' : thread'[t] = "none"
      BY <3>3, <3>4 DEF RoundInv, SearcherInv, Objects
    <3>8. \A t \in Objects : thread'[t] \in {"none", "lookup"} => ~ calculated'[t]
      BY <3>3, <3>4, <3>5 DEF RoundInv, SearcherInv
    <3>9. SearcherInv'
      BY <1>0, <3>4, <3>6, <3>7, <3>8 DEF RoundInv, SearcherInv
    <3> QED
      BY <3>1, <3>9
  <2> QED
    BY <2>1, <2>2
<1>2. RoundTypeOK'
  BY <1>0, <1>1 DEF RoundTypeOK, ManagerInv
<1> QED
  BY <1>0, <1>1, <1>2 DEF RoundInv, ChosenIsReady, ChoosesWell

\* The call of getHValue enters the evaluation of the look-ahead state.
LEMMA EvaluateLookAheadInv == ASSUME RoundInv, EvaluateLookAhead PROVE RoundInv'
<1>0. /\ rpgState \in LookAheads /\ rpgState \in Objects /\ rpgState \notin States
      /\ thread[rpgState] = "none"
      /\ thread' = [thread EXCEPT ![rpgState] = "evaluate"]
      /\ thread \in [Objects -> ThreadPhase]
      /\ UNCHANGED <<managerVars, rpg, value, calculated, planOf, torn, rpgState, chosen>>
      /\ searcherAt' = "join"
  BY StatesAssumption
     DEF EvaluateLookAhead, RoundInv, RoundTypeOK, ManagerInv, ManagerTypeOK, SearcherInv, Objects
<1>1. ManagerTypeOK'
  BY <1>0 DEF RoundInv, ManagerInv, ManagerTypeOK, ThreadPhase, managerVars
<1>2. thread'[rpgState] = "evaluate" /\ \A t \in Objects \ {rpgState} : thread'[t] = thread[t]
  BY <1>0
<1>3. Running' \cap States = Running \cap States
  BY <1>0, <1>2 DEF Running
<1>4. BatchInv'
  BY <1>0, <1>3 DEF RoundInv, ManagerInv, ManagerTypeOK, BatchInv, managerVars, Objects
<1>5. \A a \in LookAheads : a # rpgState => thread'[a] = "none"
  BY <1>0, <1>2 DEF RoundInv, SearcherInv, Objects
<1>6. \A a, b \in Running' \ States : a = b
  BY <1>5 DEF Running, Objects
<1>7. GraphInv'
  BY <1>0, <1>3, <1>6 DEF RoundInv, ManagerInv, GraphInv, managerVars
<1>8. ObjectInv'
  BY <1>0, <1>2 DEF RoundInv, ManagerInv, ObjectInv
<1>9. SearcherInv'
  <2>1. \A s \in waiting' : thread'[s] = "none"
    BY <1>0, <1>2 DEF RoundInv, ManagerInv, ManagerTypeOK, SearcherInv, managerVars, Objects
  <2>2. \A s \in Objects : thread'[s] \in {"none", "lookup"} => ~ calculated'[s]
    BY <1>0, <1>2 DEF RoundInv, SearcherInv
  <2> QED
    BY <1>0, <1>2, <1>5, <2>1, <2>2 DEF SearcherInv
<1>10. RoundTypeOK'
  BY <1>0, <1>1 DEF RoundInv, RoundTypeOK
<1> QED
  BY <1>0, <1>1, <1>4, <1>7, <1>8, <1>9, <1>10
     DEF RoundInv, ManagerInv, ChosenIsReady, ChoosesWell

\* A step of a thread or of the searching thread's own evaluation.
LEMMA RunThreadInv == ASSUME RoundInv, NEW s \in Objects, RunRoundThread(s) PROVE RoundInv'
<1>1. (s \notin States => thread[s] # "lookup") /\ (thread[s] = "lookup" => ~ calculated[s])
  BY DEF RoundInv, SearcherInv, Objects
<1>2. ManagerInv'
  BY <1>1, ThreadStepInv DEF RunRoundThread, RoundInv
<1>3. /\ thread[s] \in {"lookup", "evaluate", "planning", "reset"}
      /\ thread' \in [Objects -> ThreadPhase]
      /\ thread'[s] \notin {"none", "lookup"}
      /\ \A t \in Objects \ {s} : thread'[t] = thread[t] /\ calculated'[t] = calculated[t]
      /\ waiting' = waiting
  BY <1>2 DEF RunRoundThread, ThreadStep, LookUp, Cached, BeginPlan, EndPlan, Throw, PutBack,
         RoundInv, ManagerInv, ManagerTypeOK, managerVars
<1>4. s \in Running
  BY <1>3 DEF Running
<1>5. /\ searcherAt' = searcherAt /\ searcherAt \notin {"sample", "chosen"}
      /\ chosen' = chosen /\ rpgState' = rpgState
  BY <1>3, <1>4 DEF RunRoundThread, searcherVars, RoundInv, SearcherInv, ChosenIsReady
<1>6. s = rpgState => searcherAt # "start"
  BY <1>3 DEF RoundInv, SearcherInv
<1>7. s \in LookAheads => s = rpgState
  BY <1>3 DEF RoundInv, SearcherInv
<1>8. rpgState \in Objects /\ LookAheads \subseteq Objects /\ waiting \subseteq Objects
  BY DEF RoundInv, RoundTypeOK, ManagerInv, ManagerTypeOK, Objects
<1>9. s \notin waiting
  BY <1>3 DEF RoundInv, SearcherInv
<1>10. SearcherInv'
  BY <1>3, <1>5, <1>6, <1>7, <1>8, <1>9 DEF RoundInv, SearcherInv
<1> QED
  BY <1>2, <1>5, <1>10 DEF RoundInv, RoundTypeOK, ManagerInv, ChosenIsReady, ChoosesWell

\* The steps of the searching thread after the join.
LEMMA EndInv ==
  ASSUME RoundInv, Raise \/ GoOnWithGoal \/ (\E s \in Objects : Choose(s)) PROVE RoundInv'
<1>0. /\ UNCHANGED <<managerVars, objectVars, rpgState>>
      /\ Running' = Running /\ searcherAt = "join"
      /\ rpgState \in LookAheads /\ rpgState \in Objects
  BY DEF RoundInv, RoundTypeOK, Objects, Raise, GoOnWithGoal, Choose, objectVars, Running
<1>1. ManagerInv'
  BY <1>0, ManagerStutterInv DEF RoundInv
<1>6. searcherAt' \in {"chosen", "raised"} => SearcherInv'
  <2>1. thread' = thread /\ waiting' = waiting /\ calculated' = calculated
    BY <1>0 DEF managerVars, objectVars
  <2> QED
    BY <1>0, <2>1 DEF RoundInv, SearcherInv
<1>2. CASE Raise
  BY <1>0, <1>1, <1>2, <1>6
     DEF Raise, RoundInv, RoundTypeOK, ManagerInv, ChosenIsReady, ChoosesWell
<1>3. ASSUME thread[rpgState] = "done", Joined PROVE Running = {}
  BY <1>0, <1>3 DEF Joined, Running, Objects, RoundInv, SearcherInv
<1>4. CASE GoOnWithGoal
  <2>1. goalReached \in Goals /\ goalReached \in batch /\ goalReached \in States
    BY <1>4 DEF GoOnWithGoal, RoundInv, ManagerInv, ManagerTypeOK, BatchInv
  <2>2. Running = {}
    BY <1>3, <1>4 DEF GoOnWithGoal
  <2>3. rpg[goalReached] = Original
    BY <2>1 DEF RoundInv, ManagerInv, ObjectInv, Objects
  <2>4. ChoosesWell'
    BY <1>0, <1>4, <2>1 DEF GoOnWithGoal, ChoosesWell, Outcomes, managerVars
  <2> QED
    BY <1>0, <1>1, <1>4, <1>6, <2>1, <2>2, <2>3, <2>4
       DEF GoOnWithGoal, RoundInv, RoundTypeOK, ManagerInv, ChosenIsReady, objectVars, Objects
<1>5. CASE \E s \in Objects : Choose(s)
  <2> PICK s \in Objects : Choose(s)
    BY <1>5
  <2>1. thread[s] = "done"
    <3>1. CASE s = rpgState
      BY <3>1 DEF Choose
    <3>2. CASE s # rpgState
      <4>1. /\ s \in batch \ waiting /\ s \in States /\ goalReached = NoState
            /\ s \notin Failing /\ Joined
        BY <3>2 DEF Choose, Joined, Started, RoundInv, ManagerInv, ManagerTypeOK
      <4> QED
        BY <4>1 DEF Joined, RoundInv, ManagerInv, BatchInv, ObjectInv
    <3> QED
      BY <3>1, <3>2
  <2>2. rpg[s] = Original /\ calculated[s] /\ value[s] = H[s]
    BY <2>1 DEF RoundInv, ManagerInv, ObjectInv
  <2>3. Running = {}
    BY <1>3 DEF Choose
  <2>4. batch \cap Goals = {}
    BY DEF Choose, Joined, Started, RoundInv, ManagerInv, BatchInv
  <2>5. ChoosesWell'
    BY <1>0, <2>4 DEF Choose, ChoosesWell, Outcomes, managerVars
  <2>6. chosen' = s /\ searcherAt' = "chosen"
    BY DEF Choose
  <2>7. RoundTypeOK'
    BY <1>0, <1>1, <2>6 DEF RoundTypeOK, ManagerInv
  <2>8. ChosenIsReady'
    BY <1>0, <2>2, <2>3, <2>6 DEF ChosenIsReady, objectVars
  <2> QED
    BY <1>1, <1>6, <2>5, <2>6, <2>7, <2>8 DEF RoundInv
<1> QED
  BY <1>2, <1>4, <1>5

\* Every step keeps the invariant.
LEMMA RoundNextInv == RoundInv /\ [RoundNext]_roundVars => RoundInv'
<1>1. ASSUME RoundInv, UNCHANGED roundVars PROVE RoundInv'
  <2>1. ManagerInv'
    BY <1>1, ManagerStutterInv DEF RoundInv, roundVars
  <2> QED
    BY <1>1, <2>1 DEF RoundInv, roundVars, RoundTypeOK, ManagerInv, SearcherInv, ChosenIsReady, ChoosesWell,
                      searcherVars, objectVars, managerVars, Running
<1> QED
  BY <1>1, SampleInv, EvaluateLookAheadInv, RunThreadInv, EndInv DEF RoundNext, Searcher

\* The strengthened invariant holds throughout.
LEMMA RoundInvariance == RoundSpec => []RoundInv
  BY RoundInitInv, RoundNextInv, PTL DEF RoundSpec

-----------------------------------------------------------------------------

\* The manager, its threads and the searching thread keep their types.
THEOREM RoundTypeCorrect == RoundSpec => []RoundTypeOK
<1>1. RoundInv => RoundTypeOK
  BY DEF RoundInv
<1> QED
  BY <1>1, RoundInvariance, PTL

\* The searching thread and its threads never plan on one graph.
THEOREM GraphsExclusiveBesideClient == RoundSpec => []ExclusiveGraphs
<1>1. RoundInv => ExclusiveGraphs
  BY ManagerInvExcludes DEF RoundInv
<1> QED
  BY <1>1, RoundInvariance, PTL

\* The state a probe goes on with is joined, rightly evaluated and on the
\* graph all states share.
THEOREM ChosenReady == RoundSpec => []ChosenIsReady
<1>1. RoundInv => ChosenIsReady
  BY DEF RoundInv
<1> QED
  BY <1>1, RoundInvariance, PTL

\* No step of a probe passes over a goal, wherever start() stopped and however
\* the selector draws.
THEOREM GoalsNotMissed == RoundSpec => []ChoosesWell
<1>1. RoundInv => ChoosesWell
  BY DEF RoundInv
<1> QED
  BY <1>1, RoundInvariance, PTL

=============================================================================
