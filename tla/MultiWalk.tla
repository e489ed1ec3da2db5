------------------------------ MODULE MultiWalk ------------------------------
(***************************************************************************)
(* JavaFF.MultiWalk and MultiThreadSearchManager: rounds of searches, one  *)
(* thread for each of up to MAX_SEARCH_THREADS candidates; what they give  *)
(* back are candidates again, until one finds a goal, the time is up or    *)
(* nothing is left.  Of a search, BaseEHC, only what it may return is      *)
(* used.  Threads are numbered by the order they are started in.           *)
(***************************************************************************)
EXTENDS Integers, FiniteSets

CONSTANTS
    States,
    Goals,
    Initials,         \* the sets of candidates a manager may be given
    H,                \* the heuristic value of each state
    Walks,            \* the states a search may return from each state
    Lengths,          \* the lengths of the plans of goals
    MaxSearchThreads,
    NoState

ASSUME MultiWalkAssumption ==
    /\ NoState \notin States
    /\ Goals \subseteq States
    /\ \A C \in Initials : C \subseteq States /\ IsFiniteSet(C)
    /\ H \in [States -> Nat]
    /\ Walks \in [States -> SUBSET States]
    /\ \A s \in Goals : Walks[s] = {s}
    /\ Lengths \subseteq Nat
    /\ MaxSearchThreads \in Nat \ {0}

Threads == 1 .. MaxSearchThreads

VARIABLES
    phase,       \* "starting", "joining", "combining", "ended" or "returned"
    candidates,  \* initialCandidates
    started,     \* i, the number of threads started in the round
    starts,      \* the state each thread of the round was started from
    late,        \* whether TIME_OUT had elapsed then
    running,     \* the threads whose search goes on
    goalState,   \* what the search of each thread returned
    planLength,  \* the length of its plan
    combined,    \* the threads combineResults has been through
    best,        \* the thread whose goal is the best state, 0 for null
    timedOut,
    result,      \* of getBest
    initial,     \* history: the candidates the manager was given
    searched,    \* history: the states searches were started from
    found        \* history: the states searches returned

round == <<started, starts, late, running, goalState, planLength>>
manager == <<phase, candidates, combined, best, result>>
history == <<initial, searched, found>>
vars == <<manager, round, timedOut, history>>

NewRound ==
    /\ started' = 0
    /\ starts' = [i \in Threads |-> NoState]
    /\ late' = [i \in Threads |-> FALSE]
    /\ running' = {}
    /\ goalState' = [i \in Threads |-> NoState]
    /\ planLength' = [i \in Threads |-> 0]

Init ==
    /\ candidates \in Initials
    /\ phase = IF candidates = {} THEN "ended" ELSE "starting"
    /\ started = 0
    /\ starts = [i \in Threads |-> NoState]
    /\ late = [i \in Threads |-> FALSE]
    /\ running = {}
    /\ goalState = [i \in Threads |-> NoState]
    /\ planLength = [i \in Threads |-> 0]
    /\ combined = {}
    /\ best = 0
    /\ timedOut = FALSE
    /\ result = NoState
    /\ initial = candidates /\ searched = {} /\ found = {}

RoundStarts == {starts[i] : i \in 1 .. started}

\* The iterator over the candidates yields c.
StartThread(c) ==
    /\ phase = "starting"
    /\ started < MaxSearchThreads
    /\ c \in candidates \ RoundStarts
    /\ started' = started + 1
    /\ starts' = [starts EXCEPT ![started'] = c]
    /\ late' = [late EXCEPT ![started'] = timedOut]
    /\ running' = running \cup {started'}
    /\ searched' = searched \cup {c}
    /\ UNCHANGED <<phase, candidates, combined, best, result, goalState,
                   planLength, timedOut, initial, found>>

\* Fault: the candidates that were left for the next round are dropped.
AllStartedClearing ==
    /\ phase = "starting"
    /\ started = MaxSearchThreads \/ candidates \subseteq RoundStarts
    /\ candidates' = {}
    /\ phase' = "joining"
    /\ UNCHANGED <<combined, best, result, round, timedOut, history>>

AllStarted ==
    /\ phase = "starting"
    /\ started = MaxSearchThreads \/ candidates \subseteq RoundStarts
    /\ candidates' = candidates \ RoundStarts
    /\ phase' = "joining"
    /\ UNCHANGED <<combined, best, result, round, timedOut, history>>

\* A search returns a state.  One started out of time gives up in its first
\* turn, unless it comes upon a goal.
SearchReturns(i) ==
    /\ i \in running
    /\ running' = running \ {i}
    /\ \E s \in Walks[starts[i]] :
        /\ late[i] => s \in Goals
        /\ goalState' = [goalState EXCEPT ![i] = s]
        /\ found' = found \cup {s}
        /\ \E n \in IF s \in Goals THEN Lengths ELSE {0} :
               planLength' = [planLength EXCEPT ![i] = n]
    /\ UNCHANGED <<manager, started, starts, late, timedOut, initial, searched>>

\* null, for a dead end or the time, or an exception: the thread ends without
\* a result.
SearchFails(i) ==
    /\ i \in running
    /\ starts[i] \notin Goals
    /\ running' = running \ {i}
    /\ UNCHANGED <<manager, started, starts, late, goalState, planLength, timedOut,
                   history>>

\* Fault: as many threads are waited for as there may be.
JoinMaximum ==
    /\ phase = "joining"
    /\ started = MaxSearchThreads /\ running = {}
    /\ phase' = "combining"
    /\ combined' = {}
    /\ UNCHANGED <<candidates, best, result, round, timedOut, history>>

Join ==
    /\ phase = "joining"
    /\ running = {}
    /\ phase' = "combining"
    /\ combined' = {}
    /\ UNCHANGED <<candidates, best, result, round, timedOut, history>>

\* Fault: every goal found replaces the best.
BestAfterLast(i) == IF goalState[i] \in Goals THEN i ELSE best

\* A goal becomes the best if it is the first, or its plan is shorter.
BestAfter(i) ==
    IF /\ goalState[i] \in Goals
       /\ best = 0 \/ planLength[i] < planLength[best]
    THEN i
    ELSE best

\* combineResults: one thread of its set.
Combine(i) ==
    /\ phase = "combining"
    /\ i \in (1 .. started) \ combined
    /\ combined' = combined \cup {i}
    /\ best' = BestAfter(i)
    /\ candidates' = candidates \cup ({goalState[i]} \ {NoState})
    /\ UNCHANGED <<phase, result, round, timedOut, history>>

AllCombined == phase = "combining" /\ combined = 1 .. started

\* A goal, the time, or nothing left ends start().
EndRounds ==
    /\ AllCombined
    /\ best # 0 \/ timedOut \/ candidates = {}
    /\ phase' = "ended"
    /\ UNCHANGED <<candidates, combined, best, result, round, timedOut, history>>

NextRound ==
    /\ AllCombined
    /\ best = 0 /\ ~ timedOut /\ candidates # {}
    /\ phase' = "starting"
    /\ NewRound
    /\ UNCHANGED <<candidates, combined, best, result, timedOut, history>>

\* What getBest chooses from when no goal was found.
LastResults == {goalState[i] : i \in 1 .. started} \ {NoState}

\* getBest: the goal, or one of the least value of the last round's results.
GetBest ==
    /\ phase = "ended"
    /\ phase' = "returned"
    /\ \/ best # 0 /\ result' = goalState[best]
       \/ best = 0 /\ LastResults = {} /\ result' = NoState
       \/ best = 0 /\ \E s \in LastResults :
                          /\ \A t \in LastResults : H[s] <= H[t]
                          /\ result' = s
    /\ UNCHANGED <<candidates, combined, best, round, timedOut, history>>

TimePasses ==
    /\ ~ timedOut /\ phase # "returned"
    /\ timedOut' = TRUE
    /\ UNCHANGED <<manager, round, history>>

Manager ==
    \/ \E c \in States : StartThread(c)
    \/ AllStarted \/ Join
    \/ \E i \in Threads : Combine(i)
    \/ EndRounds \/ NextRound \/ GetBest

Thread(i) == SearchReturns(i) \/ SearchFails(i)

Next == Manager \/ (\E i \in Threads : Thread(i)) \/ TimePasses

\* Threads are scheduled, every search ends and time passes.
Spec == Init /\ [][Next]_vars
FairSpec ==
    /\ Spec
    /\ WF_vars(Manager) /\ WF_vars(TimePasses)
    /\ \A i \in Threads : WF_vars(Thread(i))

-----------------------------------------------------------------------------

\* The fields of the manager and of its threads have their types.
TypeOK ==
    /\ phase \in {"starting", "joining", "combining", "ended", "returned"}
    /\ candidates \in SUBSET States
    /\ started \in 0 .. MaxSearchThreads
    /\ starts \in [Threads -> States \cup {NoState}]
    /\ late \in [Threads -> BOOLEAN]
    /\ running \in SUBSET Threads
    /\ goalState \in [Threads -> States \cup {NoState}]
    /\ planLength \in [Threads -> Nat]
    /\ combined \in SUBSET Threads
    /\ best \in Threads \cup {0}
    /\ timedOut \in BOOLEAN
    /\ result \in States \cup {NoState}
    /\ initial \in SUBSET States /\ searched \in SUBSET States
    /\ found \in SUBSET States

(***************************************************************************)
(* Whatever order the threads find their goals in and are combined in, and *)
(* whenever the time runs out, the goal of the shortest plan is returned.  *)
(***************************************************************************)
ShortestGoalReturned ==
    phase = "returned" =>
        \A i \in 1 .. started :
            goalState[i] \in Goals =>
                /\ best # 0
                /\ planLength[best] <= planLength[i]
                /\ result = goalState[best]

(***************************************************************************)
(* In time and without a goal, the manager gives up only when a search was *)
(* started from every candidate and every result.                          *)
(***************************************************************************)
GivesUpExhausted ==
    phase = "returned" /\ best = 0 /\ ~ timedOut =>
        /\ initial \cup found \subseteq searched
        /\ result = NoState

(***************************************************************************)
(* The manager returns though results become candidates again for ever,    *)
(* threads throw, and rounds have fewer threads than they might.           *)
(***************************************************************************)
ManagerReturns == <>(phase = "returned")

=============================================================================
