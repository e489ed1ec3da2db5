---------------------------- MODULE BestPerforming ----------------------------
(***************************************************************************)
(* JavaFF.BestPerforming: the walk of enforced hill climbing from the      *)
(* present state, then Identidem from where the walk stopped; should that  *)
(* fail, Identidem from the initial state; should that fail too, the       *)
(* initial state again.  Of the walk only its promise is used, that it     *)
(* returns its start, a better state or a goal.                            *)
(***************************************************************************)
EXTENDS Identidem

CONSTANTS
    Initials,     \* the initial states
    Walk,         \* the states EHCSingleWalk may return from each state
    MaxRestarts   \* bound: TIME_OUT has elapsed after so many restarts

ASSUME BestPerformingAssumption ==
    /\ Initials \subseteq States
    /\ Walk \in [States -> SUBSET States]
    /\ \A s \in States :
         /\ Walk[s] # {}
         /\ \A t \in Walk[s] : t \in Goals \cup {s} \/ H[t] < H[s]
    /\ MaxRestarts \in Nat

VARIABLES
    initial,
    goalState,
    phase,     \* the call BestPerforming is in, or "returned"
    timedOut,  \* TIME_OUT has elapsed
    result

driverVars == <<initial, goalState, phase, timedOut, result>>
vars == <<identidemVars, driverVars>>

Init ==
    /\ IdentidemInit
    /\ initial \in Initials
    /\ goalState = initial
    /\ phase = "walk"
    /\ timedOut = FALSE
    /\ result = NoState

Return(s) == phase' = "returned" /\ result' = s

\* The test of the loop, at its start.
GoalAlready ==
    /\ phase = "walk"
    /\ goalState \in Goals
    /\ Return(goalState)
    /\ UNCHANGED <<identidemVars, initial, goalState, timedOut>>

WalkToGoal ==
    /\ phase = "walk"
    /\ goalState \notin Goals
    /\ goalState' \in Walk[goalState] \cap Goals
    /\ Return(goalState')
    /\ UNCHANGED <<identidemVars, initial, timedOut>>

\* The walk ends elsewhere; Identidem is started where it did.
WalkThenSearch ==
    /\ phase = "walk"
    /\ restarts < MaxRestarts \/ timedOut
    /\ goalState \notin Goals
    /\ goalState' \in Walk[goalState] \ Goals
    /\ BeginSearch(goalState')
    /\ phase' = "identidem"
    /\ UNCHANGED <<initial, timedOut, result>>

RunSearch ==
    /\ phase \in {"identidem", "again"}
    /\ Search
    /\ UNCHANGED driverVars

\* The first search failed: a new one from the initial state.
SearchAgain ==
    /\ phase = "identidem" /\ ~ searching
    /\ outcome = NoState
    /\ BeginSearch(initial)
    /\ phase' = "again"
    /\ UNCHANGED <<initial, goalState, timedOut, result>>

\* Fault: the time is tested before the goal.
EndOfTurnTimeFirst ==
    /\ phase \in {"identidem", "again"} /\ ~ searching
    /\ phase = "identidem" => outcome # NoState
    /\ goalState' = IF outcome = NoState THEN initial ELSE outcome
    /\ \/ ~ timedOut /\ goalState' \in Goals /\ Return(goalState')
       \/ timedOut /\ Return(NoState)
       \/ goalState' \notin Goals /\ ~ timedOut /\ phase' = "walk" /\ UNCHANGED result
    /\ UNCHANGED <<identidemVars, initial, timedOut>>

\* Fault: after two failures the walk goes on from where it was.
EndOfTurnKeepingState ==
    /\ phase \in {"identidem", "again"} /\ ~ searching
    /\ phase = "identidem" => outcome # NoState
    /\ goalState' = IF outcome = NoState THEN localMin ELSE outcome
    /\ \/ goalState' \in Goals /\ Return(goalState')
       \/ goalState' \notin Goals /\ timedOut /\ Return(NoState)
       \/ goalState' \notin Goals /\ ~ timedOut /\ phase' = "walk" /\ UNCHANGED result
    /\ UNCHANGED <<identidemVars, initial, timedOut>>

EndOfTurn ==
    /\ phase \in {"identidem", "again"} /\ ~ searching
    /\ phase = "identidem" => outcome # NoState
    /\ goalState' = IF outcome = NoState THEN initial ELSE outcome
    /\ \/ goalState' \in Goals /\ Return(goalState')
       \/ goalState' \notin Goals /\ timedOut /\ Return(NoState)
       \/ goalState' \notin Goals /\ ~ timedOut /\ phase' = "walk" /\ UNCHANGED result
    /\ UNCHANGED <<identidemVars, initial, timedOut>>

TimePasses ==
    /\ ~ timedOut /\ phase # "returned"
    /\ timedOut' = TRUE
    /\ UNCHANGED <<identidemVars, initial, goalState, phase, result>>

Driver ==
    GoalAlready \/ WalkToGoal \/ WalkThenSearch \/ RunSearch \/ SearchAgain \/ EndOfTurn

Next == Driver \/ TimePasses

\* The driver is sequential code, its calls end, and time passes.
Spec == Init /\ [][Next]_vars
FairSpec == Spec /\ WF_vars(Driver) /\ WF_vars(TimePasses)

-----------------------------------------------------------------------------

\* The driver and the searches it starts have fields of their types.
TypeOK ==
    /\ IdentidemTypeOK
    /\ initial \in States /\ goalState \in States
    /\ phase \in {"walk", "identidem", "again", "returned"}
    /\ timedOut \in BOOLEAN
    /\ result \in Goals \cup {NoState}

(***************************************************************************)
(* A goal, whichever of the three searches found it and however late, is   *)
(* returned; TIME_OUT is looked at after the goal test.                    *)
(***************************************************************************)
GoalNeverLost ==
    phase = "returned" /\ result = NoState => {goalState, outcome} \cap Goals = {}

(***************************************************************************)
(* Through walks, random probes and fallbacks, what the next walk starts   *)
(* from is never worse than the initial state.                             *)
(***************************************************************************)
NeverWorseThanInitial ==
    goalState \in Goals \/ H[goalState] <= H[initial]

(***************************************************************************)
(* As long as the Identidem search from where the walk stopped succeeds,   *)
(* the driver moves to a goal or a strictly better state or not at all: the*)
(* steps of a probe may go uphill for as long as they like, and the search *)
(* must still be judged by the state the turn has come to.  Only a failed  *)
(* search may send the driver back.                                        *)
(***************************************************************************)
DriverOnlyImproves ==
    [][phase # "again" =>
         goalState' \in Goals \cup {goalState} \/ H[goalState'] < H[goalState]]_vars

(***************************************************************************)
(* The driver returns once TIME_OUT has passed, though the Identidem       *)
(* searches it starts are given no start time and never time out.          *)
(***************************************************************************)
DriverReturns == <>(phase = "returned")

=============================================================================
