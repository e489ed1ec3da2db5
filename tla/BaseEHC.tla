------------------------------- MODULE BaseEHC -------------------------------
(***************************************************************************)
(* EnforcedHillClimbingSearch.baseEHC(), the sequential search of the base *)
(* algorithm and of every thread of the multi-walk: the successors of the  *)
(* first open state are visited one by one, and the first that is better   *)
(* than all before becomes the only open state.  The closed list holds one *)
(* state for each hash code.                                               *)
(***************************************************************************)
EXTENDS Integers, SequencesExt

CONSTANTS
    States,
    Goals,
    Starts,
    H,                \* the heuristic value of each state
    Successors,       \* the states the filter's actions lead to, of each state
    Failing,          \* states whose evaluation throws
    Hash,             \* hashCode
    Bounds,           \* what setBadEncounter is called with, or Unbounded
    NoState

Unbounded == -1

ASSUME BaseAssumption ==
    /\ NoState \notin States
    /\ Starts \subseteq States /\ Goals \subseteq States /\ Failing \subseteq States
    /\ H \in [States -> Nat]
    /\ Successors \in [States -> SUBSET States]
    /\ DOMAIN Hash = States
    /\ Bounds \subseteq (Nat \ {0}) \cup {Unbounded}

HashCodes == {Hash[s] : s \in States}

VARIABLES
    phase,       \* "begin", "loop", "successors", "returned" or "raised"
    start,
    maxBadEncounter,
    open,
    closed,      \* a state or NoState for each hash code
    bestHValue,
    current,     \* the state being expanded
    pending,     \* its successors the iterator has still to yield
    depth,
    timedOut,    \* TIME_OUT has elapsed since the start time
    result,
    visited,     \* history: the states that had to be visited
    tree,        \* history: those opened since the last improvement
    left         \* history: those that were open and no longer are

given == <<start, maxBadEncounter>>
list == <<open, closed, bestHValue>>
turn == <<current, pending, depth>>
history == <<visited, tree, left>>
vars == <<phase, given, list, turn, timedOut, result, history>>

Init ==
    /\ start \in Starts
    /\ maxBadEncounter \in Bounds
    /\ phase = "begin"
    /\ open = <<>>
    /\ closed = [h \in HashCodes |-> NoState]
    /\ bestHValue = 0
    /\ current = NoState /\ pending = {} /\ depth = 0
    /\ timedOut = FALSE
    /\ result = NoState
    /\ visited = {} /\ tree = {} /\ left = {}

Return(s) == phase' = "returned" /\ result' = s

\* Fault: states of the same hash code are taken for one another.
NeedToVisitByHash(s) == closed[Hash[s]] = NoState

NeedToVisit(s) == closed[Hash[s]] # s

\* Fault: a state is entered only if it improves.
CloseIfBetter(s) ==
    closed' = IF H[s] < bestHValue THEN [closed EXCEPT ![Hash[s]] = s] ELSE closed

\* closed.put: the state entered before under the same hash code is forgotten.
Close(s) == closed' = [closed EXCEPT ![Hash[s]] = s]

StartIsGoal ==
    /\ phase = "begin"
    /\ start \in Goals
    /\ Return(start)
    /\ UNCHANGED <<given, list, turn, timedOut, history>>

OpenStart ==
    /\ phase = "begin"
    /\ start \notin Goals
    /\ Close(start)
    /\ open' = <<start>>
    /\ bestHValue' = H[start]
    /\ phase' = IF start \in Failing THEN "raised" ELSE "loop"
    /\ visited' = {start} /\ tree' = {start}
    /\ UNCHANGED <<given, turn, timedOut, result, left>>

RemoveNext ==
    /\ phase = "loop" /\ open # <<>>
    /\ current' = Head(open)
    /\ open' = Tail(open)
    /\ pending' = Successors[Head(open)]
    /\ phase' = "successors"
    /\ left' = left \cup {Head(open)}
    /\ UNCHANGED <<given, closed, bestHValue, depth, timedOut, result, visited, tree>>

OpenExhausted ==
    /\ phase = "loop" /\ open = <<>>
    /\ Return(NoState)
    /\ UNCHANGED <<given, list, turn, timedOut, history>>

Seen(s) ==
    /\ phase = "successors"
    /\ s \in pending /\ ~ NeedToVisit(s)
    /\ pending' = pending \ {s}
    /\ UNCHANGED <<phase, given, list, current, depth, timedOut, result, history>>

\* needToVisit enters the state before anything is asked of it.
Visiting(s) ==
    /\ phase = "successors"
    /\ s \in pending /\ NeedToVisit(s)
    /\ Close(s)
    /\ visited' = visited \cup {s}
    /\ UNCHANGED <<given, current, depth, timedOut>>

GoalFound(s) ==
    /\ Visiting(s)
    /\ s \in Goals
    /\ Return(s)
    /\ UNCHANGED <<open, bestHValue, pending, tree, left>>

Raise(s) ==
    /\ Visiting(s)
    /\ s \in Failing \ Goals
    /\ phase' = "raised"
    /\ UNCHANGED <<open, bestHValue, pending, result, tree, left>>

\* Fault: the states opened before the improvement stay open.
ImproveKeepingOpen(s) ==
    /\ Visiting(s)
    /\ s \notin Goals \cup Failing
    /\ H[s] < bestHValue
    /\ bestHValue' = H[s]
    /\ open' = Append(open, s)
    /\ pending' = {}
    /\ tree' = {s}
    /\ UNCHANGED <<phase, result, left>>

\* A better state: the other successors are left.
Improve(s) ==
    /\ Visiting(s)
    /\ s \notin Goals \cup Failing
    /\ H[s] < bestHValue
    /\ bestHValue' = H[s]
    /\ open' = <<s>>
    /\ pending' = {}
    /\ tree' = {s}
    /\ left' = left \cup ToSet(open)
    /\ UNCHANGED <<phase, result>>

Open(s) ==
    /\ Visiting(s)
    /\ s \notin Goals \cup Failing
    /\ H[s] >= bestHValue
    /\ open' = Append(open, s)
    /\ pending' = pending \ {s}
    /\ tree' = tree \cup {s}
    /\ UNCHANGED <<phase, bestHValue, result, left>>

Visit == \E s \in States :
    Seen(s) \/ GoalFound(s) \/ Raise(s) \/ Improve(s) \/ Open(s)

AtBound == maxBadEncounter # Unbounded /\ depth + 1 >= maxBadEncounter

\* Fault: the search goes on for as long as something is open.
EndOfTurnUntimed ==
    /\ phase = "successors" /\ pending = {}
    /\ depth' = IF maxBadEncounter = Unbounded THEN depth ELSE depth + 1
    /\ phase' = "loop"
    /\ UNCHANGED <<given, list, current, pending, timedOut, result, history>>

EndOfTurn ==
    /\ phase = "successors" /\ pending = {}
    /\ depth' = IF maxBadEncounter = Unbounded THEN depth ELSE depth + 1
    /\ \/ AtBound /\ Return(current)
       \/ ~ AtBound /\ timedOut /\ Return(NoState)
       \/ ~ AtBound /\ ~ timedOut /\ phase' = "loop" /\ UNCHANGED result
    /\ UNCHANGED <<given, list, current, pending, timedOut, history>>

Search ==
    StartIsGoal \/ OpenStart \/ RemoveNext \/ OpenExhausted \/ Visit \/ EndOfTurn

Running == phase \notin {"returned", "raised"}

TimePasses ==
    /\ Running /\ ~ timedOut
    /\ timedOut' = TRUE
    /\ UNCHANGED <<phase, given, list, turn, result, history>>

Next == Search \/ TimePasses

\* Sequential code runs on.  Only a search without a bound is assumed to see
\* TIME_OUT elapse.
Spec == Init /\ [][Next]_vars
FairSpec ==
    Spec /\ WF_vars(Search) /\ WF_vars(maxBadEncounter = Unbounded /\ TimePasses)

-----------------------------------------------------------------------------

\* The fields of a search have their types, and the bound holds.
TypeOK ==
    /\ phase \in {"begin", "loop", "successors", "returned", "raised"}
    /\ start \in Starts /\ maxBadEncounter \in Bounds
    /\ open \in Seq(States)
    /\ closed \in [HashCodes -> States \cup {NoState}]
    /\ bestHValue \in Nat
    /\ current \in States \cup {NoState} /\ pending \in SUBSET States
    /\ depth \in Nat /\ timedOut \in BOOLEAN
    /\ maxBadEncounter # Unbounded => depth <= maxBadEncounter
    /\ result \in States \cup {NoState}
    /\ visited \in SUBSET States /\ tree \in SUBSET States /\ left \in SUBSET States

(***************************************************************************)
(* Hill climbing is enforced: what is open was opened since the last       *)
(* improvement, and none of it is better than the best value.              *)
(***************************************************************************)
OpenSinceBest ==
    /\ ToSet(open) \subseteq tree
    /\ \A s \in tree : H[s] >= bestHValue

(***************************************************************************)
(* Unless two states met so far have the same hash code, no state is open  *)
(* twice, or opened again once it was expanded or dropped for a better one.*)
(***************************************************************************)
OpenOnce ==
    (\A s, t \in visited : Hash[s] = Hash[t] => s = t)
        => IsInjective(open) /\ ToSet(open) \cap left = {}

(***************************************************************************)
(* null, in time, means a dead end, whatever states share a hash code: no  *)
(* goal was visited, and every state that a state opened since the last    *)
(* improvement leads to was visited.                                       *)
(***************************************************************************)
NullMeansDeadEnd ==
    phase = "returned" /\ result = NoState /\ ~ timedOut =>
        /\ visited \cap Goals = {}
        /\ \A s \in tree : Successors[s] \subseteq visited

(***************************************************************************)
(* The search ends, for all that states of one hash code may make each     *)
(* other open again for ever: by the time-out or by the bound.             *)
(***************************************************************************)
SearchEnds == <>(~ Running)

=============================================================================
