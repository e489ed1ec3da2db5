---------------------------- MODULE BaseEHCProofs ----------------------------
(***************************************************************************)
(* Proofs about BaseEHC, for every search space and every hash function.   *)
(* A state on the closed list was visited, so that a successor passed over *)
(* was too; while no two states visited have one hash code, the closed     *)
(* list holds all of them.                                                 *)
(***************************************************************************)
EXTENDS BaseEHC, SequenceTheorems, TLAPS

Returned == phase = "returned"

\* A state opened since the last improvement is still open, is being expanded
\* or has all its successors visited.
Expanded(s) ==
    \/ s \in ToSet(open)
    \/ Successors[s] \subseteq visited
    \/ /\ phase = "successors" /\ s = current
       /\ Successors[s] \subseteq visited \cup pending

DeadEndInv ==
    /\ (Returned => result = NoState) => visited \cap Goals = {}
    /\ phase \in {"loop", "successors"} => \A s \in tree : Expanded(s)
    /\ Returned /\ result = NoState /\ ~ timedOut =>
         \A s \in tree : Successors[s] \subseteq visited
    /\ \A h \in HashCodes : closed[h] \in visited \cup {NoState}
    /\ phase = "successors" => current \in States

\* No two states visited have one hash code.
Distinct == \A s, t \in visited : Hash[s] = Hash[t] => s = t

OnceInv ==
    /\ tree \subseteq visited
    /\ left \subseteq visited
    /\ Distinct =>
         /\ IsInjective(open) /\ ToSet(open) \cap left = {}
         /\ \A s \in visited : closed[Hash[s]] = s

\* Nothing was visited before the search begins.
StartInv ==
    phase = "begin" =>
        /\ visited = {} /\ left = {}
        /\ \A h \in HashCodes : closed[h] = NoState

\* The search goes on below its bound only.
BoundInv ==
    phase \in {"begin", "loop", "successors"} /\ maxBadEncounter # Unbounded =>
        depth < maxBadEncounter

Inv == TypeOK /\ OpenSinceBest /\ DeadEndInv /\ OnceInv /\ StartInv /\ BoundInv

-----------------------------------------------------------------------------

\* Appending a state to open.
LEMMA AppendFacts ==
  ASSUME NEW q \in Seq(States), NEW s \in States
  PROVE  /\ Append(q, s) \in Seq(States)
         /\ ToSet(Append(q, s)) = ToSet(q) \cup {s}
         /\ IsInjective(q) /\ s \notin ToSet(q) => IsInjective(Append(q, s))
<1>1. /\ DOMAIN q = 1 .. Len(q) /\ Len(q) \in Nat
      /\ Append(q, s) \in Seq(States) /\ Len(Append(q, s)) = Len(q) + 1
      /\ DOMAIN Append(q, s) = 1 .. Len(q) + 1
      /\ \A i \in 1 .. Len(q) : Append(q, s)[i] = q[i]
      /\ Append(q, s)[Len(q) + 1] = s
  OBVIOUS
<1>2. 1 .. Len(q) + 1 = (1 .. Len(q)) \cup {Len(q) + 1}
  BY <1>1
<1>3. ToSet(Append(q, s)) = ToSet(q) \cup {s}
  BY <1>1, <1>2 DEF ToSet
<1>4. ASSUME IsInjective(q), s \notin ToSet(q)
      PROVE  IsInjective(Append(q, s))
  BY <1>1, <1>2, <1>4 DEF IsInjective, ToSet
<1> QED
  BY <1>1, <1>3, <1>4

\* Taking the first state from open.
LEMMA TailFacts ==
  ASSUME NEW q \in Seq(States), q # <<>>
  PROVE  /\ Head(q) \in States /\ Tail(q) \in Seq(States)
         /\ ToSet(q) = {Head(q)} \cup ToSet(Tail(q))
         /\ IsInjective(q) => IsInjective(Tail(q)) /\ Head(q) \notin ToSet(Tail(q))
<1>1. /\ DOMAIN q = 1 .. Len(q) /\ Len(q) \in Nat \ {0}
      /\ Head(q) \in States /\ Head(q) = q[1] /\ Tail(q) \in Seq(States)
      /\ DOMAIN Tail(q) = 1 .. Len(q) - 1
      /\ \A i \in 1 .. Len(q) - 1 : Tail(q)[i] = q[i + 1]
  OBVIOUS
<1>2. \A i \in 1 .. Len(q) : i = 1 \/ (i - 1 \in 1 .. Len(q) - 1 /\ q[i] = Tail(q)[i - 1])
  BY <1>1
<1>3. \A i \in 1 .. Len(q) - 1 : i + 1 \in 1 .. Len(q) /\ i + 1 # 1
  BY <1>1
<1>4. ToSet(q) = {Head(q)} \cup ToSet(Tail(q))
  <2>1. ToSet(q) \subseteq {Head(q)} \cup ToSet(Tail(q))
    <3> SUFFICES ASSUME NEW i \in 1 .. Len(q), q[i] # Head(q)
                 PROVE  q[i] \in ToSet(Tail(q))
      BY <1>1 DEF ToSet
    <3>1. i - 1 \in DOMAIN Tail(q) /\ q[i] = Tail(q)[i - 1]
      BY <1>1, <1>2
    <3> QED
      BY <3>1 DEF ToSet
  <2>2. ToSet(Tail(q)) \subseteq ToSet(q) /\ Head(q) \in ToSet(q)
    BY <1>1, <1>3 DEF ToSet
  <2> QED
    BY <2>1, <2>2
<1>5. ASSUME IsInjective(q)
      PROVE  IsInjective(Tail(q)) /\ Head(q) \notin ToSet(Tail(q))
  BY <1>1, <1>3, <1>5 DEF IsInjective, ToSet
<1> QED
  BY <1>1, <1>4, <1>5

\* One open state.
LEMMA SingleFacts ==
  ASSUME NEW s \in States
  PROVE  <<s>> \in Seq(States) /\ ToSet(<<s>>) = {s} /\ IsInjective(<<s>>)
  BY DEF ToSet, IsInjective

\* No open state.
LEMMA EmptyFacts == <<>> \in Seq(States) /\ ToSet(<<>>) = {} /\ IsInjective(<<>>)
  BY DEF ToSet, IsInjective

-----------------------------------------------------------------------------

\* The initial states satisfy the invariant.
LEMMA InitInv == Init => Inv
<1> SUFFICES ASSUME Init PROVE Inv
  OBVIOUS
<1>1. /\ start \in States /\ start \in Starts /\ maxBadEncounter \in Bounds
      /\ phase = "begin" /\ open = <<>> /\ closed = [h \in HashCodes |-> NoState]
      /\ bestHValue = 0 /\ current = NoState /\ pending = {} /\ depth = 0
      /\ timedOut = FALSE /\ result = NoState /\ visited = {} /\ tree = {}
      /\ left = {}
  BY BaseAssumption DEF Init
<1>2. TypeOK
  <2>1. maxBadEncounter # Unbounded => depth <= maxBadEncounter
    BY <1>1, BaseAssumption
  <2>2. timedOut \in BOOLEAN
    BY <1>1
  <2> QED
    BY <1>1, <2>1, <2>2, EmptyFacts DEF TypeOK
<1>3. OpenSinceBest
  BY <1>1, EmptyFacts DEF OpenSinceBest
<1>4. DeadEndInv
  BY <1>1 DEF DeadEndInv, Returned
<1>5. OnceInv
  BY <1>1, EmptyFacts DEF OnceInv
<1>6. StartInv /\ BoundInv
  BY <1>1, BaseAssumption DEF StartInv, BoundInv, Unbounded
<1> QED
  BY <1>2, <1>3, <1>4, <1>5, <1>6 DEF Inv

\* Visiting a state: of Inv what the lists of states say.
LEMMA VisitingFacts ==
  ASSUME Inv, NEW s \in States, Visiting(s)
  PROVE  /\ phase = "successors" /\ s \in pending /\ visited' = visited \cup {s}
         /\ UNCHANGED <<given, current, depth, timedOut>>
         /\ closed' \in [HashCodes -> States \cup {NoState}]
         /\ \A h \in HashCodes : closed'[h] \in visited' \cup {NoState}
         /\ visited \cap Goals = {}
         /\ Distinct' => /\ Distinct /\ s \notin visited
                         /\ \A t \in visited' : closed'[Hash[t]] = t
<1>1. /\ phase = "successors" /\ s \in pending /\ visited' = visited \cup {s}
      /\ UNCHANGED <<given, current, depth, timedOut>>
      /\ closed' = [closed EXCEPT ![Hash[s]] = s] /\ closed[Hash[s]] # s
  BY DEF Visiting, Close, NeedToVisit
<1>2. \A t \in States : Hash[t] \in HashCodes
  BY DEF HashCodes
<1>3. closed \in [HashCodes -> States \cup {NoState}] /\ visited \in SUBSET States
  BY DEF Inv, TypeOK
<1>4. closed' \in [HashCodes -> States \cup {NoState}] /\ closed'[Hash[s]] = s
  BY <1>1, <1>2, <1>3
<1>5. \A h \in HashCodes : h # Hash[s] => closed'[h] = closed[h]
  BY <1>1, <1>3
<1>6. \A h \in HashCodes : closed'[h] \in visited' \cup {NoState}
  BY <1>1, <1>4, <1>5 DEF Inv, DeadEndInv
<1>7. visited \cap Goals = {}
  BY <1>1 DEF Inv, DeadEndInv, Returned
<1>8. ASSUME Distinct'
      PROVE  Distinct /\ s \notin visited /\ \A t \in visited' : closed'[Hash[t]] = t
  <2>1. Distinct
    BY <1>1, <1>8 DEF Distinct
  <2>2. \A t \in visited : closed[Hash[t]] = t
    BY <2>1 DEF Inv, OnceInv
  <2>3. s \notin visited
    BY <1>1, <2>2
  <2>4. \A t \in visited : Hash[t] # Hash[s]
    BY <1>1, <1>8, <2>3 DEF Distinct
  <2> QED
    BY <1>1, <1>2, <1>3, <1>4, <1>5, <2>1, <2>2, <2>3, <2>4
<1> QED
  BY <1>1, <1>4, <1>6, <1>7, <1>8

\* The start is a goal, or nothing is open any more.
LEMMA ReturnInv ==
  ASSUME Inv, StartIsGoal \/ OpenExhausted
  PROVE  Inv'
<1>1. /\ UNCHANGED <<given, list, turn, timedOut, history>>
      /\ phase' = "returned" /\ phase \in {"begin", "loop"}
      /\ \/ result' \in States
         \/ result' = NoState /\ phase = "loop" /\ open = <<>>
  BY BaseAssumption DEF StartIsGoal, OpenExhausted, Return
<1>2. TypeOK'
  BY <1>1 DEF Inv, TypeOK, given, list, turn, history
<1>3. OpenSinceBest'
  BY <1>1 DEF Inv, OpenSinceBest, list, history
<1>4. DeadEndInv'
  <2>1. visited \cap Goals = {}
    BY <1>1 DEF Inv, DeadEndInv, Returned
  <2>2. result' = NoState => \A s \in tree : Successors[s] \subseteq visited
    <3> SUFFICES ASSUME phase = "loop", open = <<>>, NEW s \in tree
                 PROVE  Successors[s] \subseteq visited
      BY <1>1, BaseAssumption
    <3>1. Expanded(s)
      BY DEF Inv, DeadEndInv
    <3> QED
      BY <3>1, EmptyFacts DEF Expanded
  <2> QED
    BY <1>1, <2>1, <2>2 DEF Inv, DeadEndInv, Returned, list, history
<1>5. OnceInv'
  BY <1>1 DEF Inv, OnceInv, Distinct, list, turn, history
<1>6. StartInv' /\ BoundInv'
  BY <1>1 DEF StartInv, BoundInv
<1> QED
  BY <1>2, <1>3, <1>4, <1>5, <1>6 DEF Inv

\* The start is opened.
LEMMA OpenStartInv ==
  ASSUME Inv, OpenStart
  PROVE  Inv'
<1>1. /\ phase = "begin" /\ start \notin Goals
      /\ closed' = [closed EXCEPT ![Hash[start]] = start]
      /\ open' = <<start>> /\ bestHValue' = H[start]
      /\ phase' \in {"raised", "loop"}
      /\ visited' = {start} /\ tree' = {start}
      /\ UNCHANGED <<given, turn, timedOut, result, left>>
  BY DEF OpenStart, Close
<1>2. start \in States /\ H[start] \in Nat /\ Hash[start] \in HashCodes
  BY BaseAssumption DEF Inv, TypeOK, HashCodes
<1>3. TypeOK'
  BY <1>1, <1>2, SingleFacts DEF Inv, TypeOK, given, turn
<1>4. OpenSinceBest'
  BY <1>1, <1>2, SingleFacts DEF OpenSinceBest
<1>5. visited = {} /\ left = {} /\ \A h \in HashCodes : closed[h] = NoState
  BY <1>1 DEF Inv, StartInv
<1>6. closed'[Hash[start]] = start /\ \A h \in HashCodes : h # Hash[start] => closed'[h] = NoState
  BY <1>1, <1>2, <1>5 DEF Inv, TypeOK
<1>7. DeadEndInv'
  <2>1. \A s \in tree' : Expanded(s)'
    BY <1>1, <1>2, SingleFacts DEF Expanded
  <2> QED
    BY <1>1, <1>6, <2>1 DEF DeadEndInv, Returned
<1>8. OnceInv'
  BY <1>1, <1>2, <1>5, <1>6, SingleFacts DEF OnceInv
<1>9. StartInv'
  BY <1>1 DEF StartInv
<1>10. BoundInv'
  BY <1>1 DEF Inv, BoundInv, given, turn
<1> QED
  BY <1>3, <1>4, <1>7, <1>8, <1>9, <1>10 DEF Inv

\* The first open state is to be expanded.
LEMMA RemoveNextInv ==
  ASSUME Inv, RemoveNext
  PROVE  Inv'
<1>1. /\ phase = "loop" /\ open # <<>> /\ current' = Head(open) /\ open' = Tail(open)
      /\ pending' = Successors[Head(open)] /\ phase' = "successors"
      /\ UNCHANGED <<given, closed, bestHValue, depth, timedOut, result, visited, tree>>
      /\ left' = left \cup {Head(open)}
  BY DEF RemoveNext
<1>2. /\ Head(open) \in States /\ Tail(open) \in Seq(States)
      /\ ToSet(open) = {Head(open)} \cup ToSet(Tail(open))
      /\ IsInjective(open) => IsInjective(Tail(open)) /\ Head(open) \notin ToSet(Tail(open))
  BY <1>1, TailFacts DEF Inv, TypeOK
<1>3. TypeOK'
  BY <1>1, <1>2, BaseAssumption DEF Inv, TypeOK, given
<1>4. OpenSinceBest'
  BY <1>1, <1>2 DEF Inv, OpenSinceBest
<1>5. DeadEndInv'
  <2>1. \A s \in tree : Expanded(s)'
    <3> SUFFICES ASSUME NEW s \in tree PROVE Expanded(s)'
      OBVIOUS
    <3>1. s \in ToSet(open) \/ Successors[s] \subseteq visited
      BY <1>1 DEF Inv, DeadEndInv, Expanded
    <3> QED
      BY <1>1, <1>2, <3>1 DEF Expanded
  <2> QED
    BY <1>1, <1>2, <2>1 DEF Inv, DeadEndInv, Returned
<1>6. OnceInv'
  BY <1>1, <1>2 DEF Inv, OnceInv, OpenSinceBest, Distinct
<1>7. StartInv'
  BY <1>1 DEF StartInv
<1>8. BoundInv'
  BY <1>1 DEF Inv, BoundInv, given, turn
<1> QED
  BY <1>3, <1>4, <1>5, <1>6, <1>7, <1>8 DEF Inv

\* A successor on the closed list was visited.
LEMMA SeenInv ==
  ASSUME Inv, NEW s \in States, Seen(s)
  PROVE  Inv'
<1>1. /\ phase = "successors" /\ s \in pending /\ closed[Hash[s]] = s
      /\ pending' = pending \ {s}
      /\ UNCHANGED <<phase, given, list, current, depth, timedOut, result, history>>
  BY DEF Seen, NeedToVisit
<1>2. s \in visited
  BY <1>1, BaseAssumption DEF Inv, DeadEndInv, HashCodes
<1>3. TypeOK'
  BY <1>1 DEF Inv, TypeOK, given, list, history
<1>4. OpenSinceBest'
  BY <1>1 DEF Inv, OpenSinceBest, list, history
<1>5. DeadEndInv'
  <2>1. \A t \in tree : Expanded(t)'
    BY <1>1, <1>2 DEF Inv, DeadEndInv, Expanded, list, history
  <2> QED
    BY <1>1, <2>1 DEF Inv, DeadEndInv, Returned, list, history
<1>6. OnceInv' /\ StartInv'
  BY <1>1 DEF Inv, OnceInv, StartInv, Distinct, list, history
<1>7. BoundInv'
  BY <1>1 DEF Inv, BoundInv, given, turn
<1> QED
  BY <1>3, <1>4, <1>5, <1>6, <1>7 DEF Inv

\* A visit that ends the search.
LEMMA LeaveInv ==
  ASSUME Inv, NEW s \in States, GoalFound(s) \/ Raise(s)
  PROVE  Inv'
<1>1. /\ Visiting(s)
      /\ UNCHANGED <<open, bestHValue, pending, tree, left>>
      /\ \/ phase' = "returned" /\ result' = s
         \/ phase' = "raised" /\ result' = result /\ s \notin Goals
  BY DEF GoalFound, Raise, Return
<1>2. /\ visited' = visited \cup {s} /\ UNCHANGED <<given, current, depth, timedOut>>
      /\ closed' \in [HashCodes -> States \cup {NoState}]
      /\ \A h \in HashCodes : closed'[h] \in visited' \cup {NoState}
      /\ visited \cap Goals = {}
      /\ Distinct' => Distinct /\ \A t \in visited' : closed'[Hash[t]] = t
  BY <1>1, VisitingFacts
<1>3. TypeOK'
  BY <1>1, <1>2 DEF Inv, TypeOK, given
<1>4. OpenSinceBest'
  BY <1>1 DEF Inv, OpenSinceBest
<1>5. DeadEndInv'
  BY <1>1, <1>2, BaseAssumption DEF DeadEndInv, Returned
<1>6. OnceInv' /\ StartInv'
  BY <1>1, <1>2 DEF Inv, OnceInv, StartInv
<1>7. BoundInv'
  BY <1>1, <1>2 DEF Inv, BoundInv, given, turn
<1> QED
  BY <1>3, <1>4, <1>5, <1>6, <1>7 DEF Inv

\* A better state is the only one left.
LEMMA ImproveInv ==
  ASSUME Inv, NEW s \in States, Improve(s)
  PROVE  Inv'
<1>1. /\ Visiting(s) /\ s \notin Goals
      /\ bestHValue' = H[s] /\ open' = <<s>> /\ pending' = {} /\ tree' = {s}
      /\ left' = left \cup ToSet(open)
      /\ UNCHANGED <<phase, result>>
  BY DEF Improve
<1>2. /\ phase = "successors" /\ visited' = visited \cup {s}
      /\ UNCHANGED <<given, current, depth, timedOut>>
      /\ closed' \in [HashCodes -> States \cup {NoState}]
      /\ \A h \in HashCodes : closed'[h] \in visited' \cup {NoState}
      /\ visited \cap Goals = {}
      /\ Distinct' => s \notin visited /\ \A t \in visited' : closed'[Hash[t]] = t
  BY <1>1, VisitingFacts
<1>3. /\ H[s] \in Nat /\ <<s>> \in Seq(States) /\ ToSet(<<s>>) = {s} /\ IsInjective(<<s>>)
      /\ ToSet(open) \subseteq visited
  BY BaseAssumption, SingleFacts DEF Inv, OpenSinceBest, OnceInv
<1>4. TypeOK'
  BY <1>1, <1>2, <1>3 DEF Inv, TypeOK, given
<1>5. OpenSinceBest'
  BY <1>1, <1>3 DEF OpenSinceBest
<1>6. DeadEndInv'
  <2>1. \A t \in tree' : Expanded(t)'
    BY <1>1, <1>3 DEF Expanded
  <2>2. current' \in States
    BY <1>2 DEF Inv, DeadEndInv
  <2> QED
    BY <1>1, <1>2, <2>1, <2>2 DEF DeadEndInv, Returned
<1>7. OnceInv' /\ StartInv'
  BY <1>1, <1>2, <1>3 DEF Inv, OnceInv, StartInv
<1>8. BoundInv'
  BY <1>1, <1>2 DEF Inv, BoundInv, given, turn
<1> QED
  BY <1>4, <1>5, <1>6, <1>7, <1>8 DEF Inv

\* A state that is no better is opened.
LEMMA OpenInv ==
  ASSUME Inv, NEW s \in States, Open(s)
  PROVE  Inv'
<1>1. /\ Visiting(s) /\ s \notin Goals /\ H[s] >= bestHValue
      /\ open' = Append(open, s) /\ pending' = pending \ {s} /\ tree' = tree \cup {s}
      /\ UNCHANGED <<phase, bestHValue, result, left>>
  BY DEF Open
<1>2. /\ phase = "successors" /\ visited' = visited \cup {s}
      /\ UNCHANGED <<given, current, depth, timedOut>>
      /\ closed' \in [HashCodes -> States \cup {NoState}]
      /\ \A h \in HashCodes : closed'[h] \in visited' \cup {NoState}
      /\ visited \cap Goals = {}
      /\ Distinct' => /\ Distinct /\ s \notin visited
                      /\ \A t \in visited' : closed'[Hash[t]] = t
  BY <1>1, VisitingFacts
<1>3. /\ Append(open, s) \in Seq(States) /\ ToSet(Append(open, s)) = ToSet(open) \cup {s}
      /\ IsInjective(open) /\ s \notin ToSet(open) => IsInjective(Append(open, s))
  BY AppendFacts DEF Inv, TypeOK
<1>4. TypeOK'
  BY <1>1, <1>2, <1>3 DEF Inv, TypeOK, given
<1>5. OpenSinceBest'
  BY <1>1, <1>3 DEF Inv, OpenSinceBest
<1>6. DeadEndInv'
  <2>1. \A t \in tree' : Expanded(t)'
    BY <1>1, <1>2, <1>3 DEF Inv, DeadEndInv, Expanded
  <2>2. current' \in States
    BY <1>2 DEF Inv, DeadEndInv
  <2> QED
    BY <1>1, <1>2, <2>1, <2>2 DEF DeadEndInv, Returned
<1>7. OnceInv'
  <2>1. ToSet(open) \subseteq visited /\ tree \subseteq visited
    BY DEF Inv, OpenSinceBest, OnceInv
  <2>2. Distinct' => /\ IsInjective(open) /\ s \notin ToSet(open)
                     /\ ToSet(open) \cap left = {} /\ s \notin left
    BY <1>2, <2>1 DEF Inv, OnceInv
  <2> QED
    BY <1>1, <1>2, <1>3, <2>1, <2>2 DEF Inv, OnceInv
<1>8. StartInv'
  BY <1>1, <1>2 DEF StartInv
<1>9. BoundInv'
  BY <1>1, <1>2 DEF Inv, BoundInv, given, turn
<1> QED
  BY <1>4, <1>5, <1>6, <1>7, <1>8, <1>9 DEF Inv

\* A state has been expanded.
LEMMA EndOfTurnInv ==
  ASSUME Inv, EndOfTurn
  PROVE  Inv'
<1>1. /\ phase = "successors" /\ pending = {}
      /\ depth' = IF maxBadEncounter = Unbounded THEN depth ELSE depth + 1
      /\ UNCHANGED <<given, list, current, pending, timedOut, history>>
      /\ \/ AtBound /\ phase' = "returned" /\ result' = current
         \/ ~ AtBound /\ timedOut /\ phase' = "returned" /\ result' = NoState
         \/ ~ AtBound /\ phase' = "loop" /\ result' = result
  BY DEF EndOfTurn, Return
<1>2. TypeOK'
  <2>1. depth' \in Nat /\ (maxBadEncounter # Unbounded => depth' <= maxBadEncounter)
    <3>1. maxBadEncounter # Unbounded => maxBadEncounter \in Nat /\ depth < maxBadEncounter
      BY <1>1, BaseAssumption DEF Inv, TypeOK, BoundInv
    <3> QED
      BY <1>1, <3>1 DEF Inv, TypeOK
  <2>2. phase' \in {"loop", "returned"} /\ result' \in States \cup {NoState}
    BY <1>1 DEF Inv, TypeOK
  <2> QED
    BY <1>1, <2>1, <2>2 DEF Inv, TypeOK, given, list, history
<1>3. OpenSinceBest'
  BY <1>1 DEF Inv, OpenSinceBest, list, history
<1>4. DeadEndInv'
  <2>1. \A s \in tree : s \in ToSet(open) \/ Successors[s] \subseteq visited
    BY <1>1 DEF Inv, DeadEndInv, Expanded
  <2>2. current \in States /\ current # NoState /\ visited \cap Goals = {}
    BY <1>1, BaseAssumption DEF Inv, DeadEndInv, Returned
  <2> QED
    BY <1>1, <2>1, <2>2 DEF Inv, DeadEndInv, Expanded, Returned, list, history
<1>5. OnceInv' /\ StartInv'
  BY <1>1 DEF Inv, OnceInv, StartInv, Distinct, list, history
<1>6. BoundInv'
  <2> SUFFICES ASSUME phase' = "loop", maxBadEncounter # Unbounded
               PROVE  depth' < maxBadEncounter
    BY <1>1 DEF BoundInv, given
  <2>1. depth' = depth + 1 /\ ~ (depth + 1 >= maxBadEncounter)
    BY <1>1 DEF AtBound
  <2>2. depth \in Nat /\ maxBadEncounter \in Nat
    BY BaseAssumption DEF Inv, TypeOK
  <2> QED
    BY <2>1, <2>2
<1> QED
  BY <1>2, <1>3, <1>4, <1>5, <1>6 DEF Inv

\* Steps that change nothing but the clock.
LEMMA ClockInv ==
  ASSUME Inv, TimePasses \/ UNCHANGED vars
  PROVE  Inv'
<1>1. /\ UNCHANGED <<phase, given, list, turn, result, history>>
      /\ timedOut' = TRUE \/ timedOut' = timedOut
  BY DEF TimePasses, vars
<1>2. TypeOK'
  BY <1>1 DEF Inv, TypeOK, given, list, turn, history
<1>3. OpenSinceBest' /\ OnceInv' /\ StartInv' /\ BoundInv'
  BY <1>1 DEF Inv, OpenSinceBest, OnceInv, StartInv, BoundInv, Distinct, given, list, turn, history
<1>4. DeadEndInv'
  BY <1>1 DEF Inv, DeadEndInv, Expanded, Returned, list, turn, history
<1> QED
  BY <1>2, <1>3, <1>4 DEF Inv

\* The invariant holds at every moment.
LEMMA Invariance == Spec => []Inv
<1>1. Inv /\ [Next]_vars => Inv'
  <2> SUFFICES ASSUME Inv, [Next]_vars PROVE Inv'
    OBVIOUS
  <2>1. CASE Search
    BY <2>1, ReturnInv, OpenStartInv, RemoveNextInv, SeenInv, LeaveInv, ImproveInv,
       OpenInv, EndOfTurnInv DEF Search, Visit
  <2>2. CASE TimePasses \/ UNCHANGED vars
    BY <2>2, ClockInv
  <2> QED
    BY <2>1, <2>2 DEF Next
<1> QED
  BY <1>1, InitInv, PTL DEF Spec

-----------------------------------------------------------------------------

(***************************************************************************)
(* The fields of baseEHC keep their types, and it expands no more states   *)
(* than setBadEncounter allows.                                            *)
(***************************************************************************)
THEOREM BaseTypeCorrect == Spec => []TypeOK
<1>1. Inv => TypeOK
  BY DEF Inv
<1> QED
  BY <1>1, Invariance, PTL

(***************************************************************************)
(* Hill climbing is enforced by baseEHC: nothing opened before the last    *)
(* improvement stays open.                                                 *)
(***************************************************************************)
THEOREM ImprovementsEnforced == Spec => []OpenSinceBest
<1>1. Inv => OpenSinceBest
  BY DEF Inv
<1> QED
  BY <1>1, Invariance, PTL

(***************************************************************************)
(* needToVisit lets baseEHC open a state a second time, also one it has    *)
(* expanded or dropped, only if two states of one hash code were met.      *)
(***************************************************************************)
THEOREM OpenedOnce == Spec => []OpenOnce
<1>1. Inv => OpenOnce
  BY DEF Inv, OnceInv, Distinct, OpenOnce
<1> QED
  BY <1>1, Invariance, PTL

(***************************************************************************)
(* When baseEHC returns null in time there was nothing left to visit from  *)
(* the best state on, for every hash function.                             *)
(***************************************************************************)
THEOREM NullIsDeadEnd == Spec => []NullMeansDeadEnd
<1>1. Inv => NullMeansDeadEnd
  BY DEF Inv, DeadEndInv, Returned, NullMeansDeadEnd
<1> QED
  BY <1>1, Invariance, PTL
=============================================================================
