---------------------------- MODULE StateManager ----------------------------
(***************************************************************************)
(* One MultiThreadStateManager and its StateThreads.  The manager gives    *)
(* every state of a batch a relaxed planning graph (RPG) of its own from a *)
(* new array, starts a thread per state, and is joined by its client.  A   *)
(* thread looks its state up in the history of earlier searches, evaluates *)
(* it with calculateRP, and puts the original graph back.                  *)
(*                                                                         *)
(* A graph is mutable and unsynchronised: evaluations that overlap on one  *)
(* graph may yield any value.  The clients (EHCEvaluator, IdentidemRound)  *)
(* say when a batch is started and what happens after the join.            *)
(***************************************************************************)
EXTENDS Naturals, FiniteSets

CONSTANTS
    States,     \* the neighbouring states, one object each
    LookAheads, \* the states the client itself may evaluate (rpgState)
    Goals,      \* the states that reach the goal
    H,          \* the heuristic value of each state
    Failing,    \* the states whose evaluation throws
    HistoryEntry,  \* the state of Search.history under each state's hash
    HistoryValue,  \* the HValue its own search has left in that entry
    NoState,    \* null
    Null        \* an HValue not calculated yet

Objects == States \cup LookAheads

ASSUME StatesAssumption ==
    /\ LookAheads \cap States = {}
    /\ NoState \notin Objects
    /\ Goals \subseteq Objects
    /\ Failing \subseteq Objects
    /\ H \in [Objects -> Nat]
    /\ HistoryEntry \in [States -> States \cup {NoState}]
    /\ HistoryValue \in [States -> Nat]

Original == <<0, 0>>    \* the graph every state shares outside a batch

VARIABLES
    batch,       \* the states given to the manager
    waiting,     \* those of them start() has not reached
    round,       \* how many arrays of graphs have been made
    nextGraph,   \* i in start()
    goalReached, \* the goal state start() met, or NoState
    thread,      \* what is being done about each object
    rpg,         \* its RPG
    value,       \* its HValue
    calculated,  \* its RPCalculated
    planOf,      \* the state its plan leads to
    torn         \* objects whose evaluation overlapped another on one graph

managerVars == <<batch, waiting, round, nextGraph, goalReached>>
objectVars == <<thread, rpg, value, calculated, planOf, torn>>

Running == {s \in Objects : thread[s] \in {"lookup", "evaluate", "planning", "reset"}}
Planning == {s \in Objects : thread[s] = "planning"}

ManagerInit ==
    /\ batch = {}
    /\ waiting = {}
    /\ round = 0
    /\ nextGraph = 1
    /\ goalReached = NoState
    /\ thread = [s \in Objects |-> "none"]
    /\ rpg = [s \in Objects |-> Original]
    /\ value = [s \in Objects |-> Null]
    /\ calculated = [s \in Objects |-> FALSE]
    /\ planOf = [s \in Objects |-> s]
    /\ torn = {}

\* The constructor and the array of new graphs start() makes first.
NewBatch(states) ==
    /\ batch' = states
    /\ waiting' = states
    /\ round' = round + 1
    /\ nextGraph' = 1
    /\ goalReached' = NoState

(***************************************************************************)
(* One turn of the loop of start(): a goal state ends it at once, leaving  *)
(* the rest of the batch without thread; another state gets its graph and  *)
(* its thread.                                                             *)
(***************************************************************************)
MeetGoal(s) ==
    /\ s \in waiting \cap Goals
    /\ goalReached' = s
    /\ waiting' = {}
    /\ UNCHANGED <<batch, round, nextGraph, objectVars>>

\* Fault: the index into the array of graphs is not advanced.
StartThreadOnFirstGraph(s) ==
    /\ s \in waiting \ Goals
    /\ waiting' = waiting \ {s}
    /\ rpg' = [rpg EXCEPT ![s] = <<round, nextGraph>>]
    /\ thread' = [thread EXCEPT ![s] = "lookup"]
    /\ UNCHANGED <<batch, round, nextGraph, goalReached, value, calculated, planOf, torn>>

StartThread(s) ==
    /\ s \in waiting \ Goals
    /\ waiting' = waiting \ {s}
    /\ rpg' = [rpg EXCEPT ![s] = <<round, nextGraph>>]
    /\ nextGraph' = nextGraph + 1
    /\ thread' = [thread EXCEPT ![s] = "lookup"]
    /\ UNCHANGED <<batch, round, goalReached, value, calculated, planOf, torn>>

Started == waiting = {}

\* Fault: a thread is awaited for each state of the batch.
JoinedByAll == Started /\ \A s \in batch : thread[s] \in {"done", "failed"}

Joined == Started /\ \A s \in States : thread[s] \in {"none", "done", "failed"}

\* Fault: copyInto copies the mark RPCalculated with the value.
LookUpAsCalculated(s) ==
    /\ thread[s] = "lookup"
    /\ IF HistoryEntry[s] = s
       THEN /\ value' = [value EXCEPT ![s] = HistoryValue[s]]
            /\ planOf' = [planOf EXCEPT ![s] = HistoryEntry[s]]
            /\ calculated' = [calculated EXCEPT ![s] = TRUE]
       ELSE UNCHANGED <<value, planOf, calculated>>
    /\ thread' = [thread EXCEPT ![s] = "evaluate"]
    /\ UNCHANGED <<managerVars, rpg, torn>>

(***************************************************************************)
(* StateThread.run.  A history entry under the same hash is used only if   *)
(* it equals the state; copyInto then hands over its plan and its value,   *)
(* whatever the state's own was, but not the mark that the value has been  *)
(* calculated.  An entry is the start of an earlier hill climbing and has  *)
(* been evaluated by it, so that its value is a number.                    *)
(***************************************************************************)
LookUp(s) ==
    /\ thread[s] = "lookup"
    /\ IF HistoryEntry[s] = s
       THEN /\ value' = [value EXCEPT ![s] = HistoryValue[s]]
            /\ planOf' = [planOf EXCEPT ![s] = HistoryEntry[s]]
       ELSE UNCHANGED <<value, planOf>>
    /\ thread' = [thread EXCEPT ![s] = "evaluate"]
    /\ UNCHANGED <<managerVars, rpg, calculated, torn>>

\* calculateRP on a state already evaluated.
Cached(s) ==
    /\ thread[s] = "evaluate"
    /\ calculated[s]
    /\ thread' = [thread EXCEPT ![s] = "reset"]
    /\ UNCHANGED <<managerVars, rpg, value, calculated, planOf, torn>>

\* calculateRP enters RPG.getPlan.
BeginPlan(s) ==
    /\ thread[s] = "evaluate"
    /\ ~ calculated[s]
    /\ thread' = [thread EXCEPT ![s] = "planning"]
    /\ LET Others == {t \in Planning : rpg[t] = rpg[s]}
       IN  torn' = IF Others = {} THEN torn ELSE torn \cup Others \cup {s}
    /\ UNCHANGED <<managerVars, rpg, value, calculated, planOf>>

\* getPlan returns and the state is evaluated.
EndPlan(s) ==
    /\ thread[s] = "planning"
    /\ s \notin Failing
    /\ \E v \in {H[t] : t \in Objects} :
        /\ s \notin torn => v = H[s]
        /\ value' = [value EXCEPT ![s] = v]
    /\ calculated' = [calculated EXCEPT ![s] = TRUE]
    /\ thread' = [thread EXCEPT ![s] = "reset"]
    /\ torn' = torn \ {s}
    /\ UNCHANGED <<managerVars, rpg, planOf>>

\* An exception leaves run(): the state keeps the graph of its thread.
Throw(s) ==
    /\ thread[s] = "planning"
    /\ s \in Failing
    /\ thread' = [thread EXCEPT ![s] = "failed"]
    /\ torn' = torn \ {s}
    /\ UNCHANGED <<managerVars, rpg, value, calculated, planOf>>

\* Fault: the thread's graph stays with the state.
KeepGraph(s) ==
    /\ thread[s] = "reset"
    /\ thread' = [thread EXCEPT ![s] = "done"]
    /\ UNCHANGED <<managerVars, rpg, value, calculated, planOf, torn>>

\* setRPG(original), the last statement of run(); the client's own
\* evaluation has no such statement but keeps the original graph throughout.
PutBack(s) ==
    /\ thread[s] = "reset"
    /\ rpg' = [rpg EXCEPT ![s] = Original]
    /\ thread' = [thread EXCEPT ![s] = "done"]
    /\ UNCHANGED <<managerVars, value, calculated, planOf, torn>>

ThreadStep(s) ==
    LookUp(s) \/ Cached(s) \/ BeginPlan(s) \/ EndPlan(s) \/ Throw(s) \/ PutBack(s)

ManagerStep == \E s \in States : MeetGoal(s) \/ StartThread(s)

-----------------------------------------------------------------------------

ThreadPhase ==
    {"none", "lookup", "evaluate", "planning", "reset", "done", "failed"}

ManagerTypeOK ==
    /\ batch \subseteq States
    /\ waiting \subseteq batch
    /\ round \in Nat
    /\ nextGraph \in Nat \ {0}
    /\ goalReached \in Goals \cup {NoState}
    /\ thread \in [Objects -> ThreadPhase]
    /\ rpg \in [Objects -> Nat \X Nat]
    /\ value \in [Objects -> Nat \cup {Null}]
    /\ calculated \in [Objects -> BOOLEAN]
    /\ planOf \in [Objects -> Objects]
    /\ torn \subseteq Objects

(***************************************************************************)
(* No two evaluations run on one graph at the same time, the client's own  *)
(* included.                                                               *)
(***************************************************************************)
ExclusiveGraphs ==
    \A s, t \in Planning : s # t => rpg[s] # rpg[t]

(***************************************************************************)
(* Once a batch is joined, each of its states that got a thread and did    *)
(* not throw has its own heuristic value and the shared graph back, and    *)
(* every state keeps a plan that leads to it.                              *)
(***************************************************************************)
SettledWhenJoined ==
    Joined =>
        \A s \in batch :
            /\ thread[s] = "done" => value[s] = H[s] /\ rpg[s] = Original
            /\ planOf[s] = s

=============================================================================
