------------------------------ MODULE Identidem ------------------------------
(***************************************************************************)
(* Identidem.search(): iterations of probes of ever more steps, each step  *)
(* to a neighbour drawn at random, until a state is better than the one    *)
(* the search was started from.  The counters of failed probes and of      *)
(* restarts are static: they outlive the search and are shared by all.     *)
(*                                                                         *)
(* The module has no specification of its own: BestPerforming starts the   *)
(* searches, one after the other.                                          *)
(***************************************************************************)
EXTENDS Integers, FiniteSets, RoundOutcomes

CONSTANTS
    States,
    Goals,
    H,              \* the heuristic value of each state
    Successors,     \* the states each filter's actions lead to, of each state
    LookAhead,      \* the state the relaxed plan leads to, of each state
    NoState,        \* null
    NeighbourSize,
    Iterations,
    Probes,
    InitialDepthBound,
    InitialMaxFailCount

ASSUME IdentidemAssumption ==
    /\ NoState \notin States
    /\ Goals \subseteq States
    /\ H \in [States -> Nat]
    /\ Successors \in [{"null", "helpful"} -> [States -> SUBSET States]]
    /\ LookAhead \in [States -> States]
    /\ NeighbourSize \in Nat \ {0} /\ InitialDepthBound \in Nat \ {0}
    /\ Iterations \in Nat \ {0} /\ Probes \in Nat \ {0}
    /\ InitialMaxFailCount \in Nat \ {0, 1}

VARIABLES
    searching,     \* a search is under way
    from,          \* its start
    localMin,
    filter,
    iteration,     \* i
    probe,         \* p
    step,          \* d
    bias,          \* MaxBias, or the p its rate was computed from
    outcome,       \* what the last search returned
    failCount,
    maxFailCount,
    restarts

statics == <<failCount, maxFailCount, restarts>>
identidemVars ==
    <<searching, from, localMin, filter, iteration, probe, step, bias, outcome, statics>>

MaxBias == -1    \* maxBias; a rate is named by its p

IdentidemInit ==
    /\ searching = FALSE
    /\ from = NoState /\ localMin = NoState
    /\ filter = "null"
    /\ iteration = 0 /\ probe = 0 /\ step = 0
    /\ bias = MaxBias
    /\ outcome = NoState
    /\ failCount = 0
    /\ maxFailCount = InitialMaxFailCount
    /\ restarts = 0

\* new Identidem(s), and the first lines of search().
BeginSearch(s) ==
    /\ ~ searching
    /\ searching' = TRUE
    /\ from' = s /\ localMin' = s
    /\ filter' = "null"
    /\ iteration' = 0 /\ probe' = 0 /\ step' = 0
    /\ bias' = MaxBias
    /\ outcome' = NoState
    /\ UNCHANGED statics

Depth == InitialDepthBound * 2 ^ iteration

\* neighbourSampling takes all, or some NeighbourSize of them.
Samples ==
    LET Pool == Successors[filter][localMin]
    IN  IF Cardinality(Pool) <= NeighbourSize
        THEN {Pool}
        ELSE {sample \in SUBSET Pool : Cardinality(sample) = NeighbourSize}

StepOutcomes ==
    UNION {Outcomes(sample, LookAhead[localMin], Goals) : sample \in Samples}

\* Fault: a step is judged against the state it was taken from.
BetterThanLocalMin(s) == s \in Goals \/ H[s] < H[localMin]

\* A goal is returned at once, or has the least value.
Better(s) == s \in Goals \/ H[s] < H[from]

\* A step to a better state ends the search.
StepFound ==
    /\ searching
    /\ step < Depth
    /\ \E s \in StepOutcomes :
        /\ Better(s)
        /\ outcome' = s
        /\ localMin' = s
    /\ searching' = FALSE
    /\ UNCHANGED <<from, filter, iteration, probe, step, bias, statics>>

\* Fault: a step on a plateau is not counted.
StepOnPlateauUncounted ==
    /\ searching
    /\ step < Depth
    /\ \E s \in StepOutcomes :
        /\ ~ Better(s)
        /\ localMin' = s
        /\ step' = IF H[s] = H[localMin] THEN step ELSE step + 1
    /\ UNCHANGED <<searching, from, filter, iteration, probe, bias, outcome, statics>>

StepOn ==
    /\ searching
    /\ step < Depth
    /\ \E s \in StepOutcomes :
        /\ ~ Better(s)
        /\ localMin' = s
    /\ step' = step + 1
    /\ UNCHANGED <<searching, from, filter, iteration, probe, bias, outcome, statics>>

\* shouldRestart counts the failed probe.
Restarting == failCount + 1 >= maxFailCount

\* Fault: the number of restarts is tested before it is increased.
RestartDoublingEarly ==
    /\ searching /\ step >= Depth
    /\ Restarting
    /\ failCount' = 0
    /\ restarts' = restarts + 1
    /\ maxFailCount' = IF restarts % 3 = 0 THEN maxFailCount * 2 ELSE maxFailCount
    /\ outcome' = NoState
    /\ searching' = FALSE
    /\ UNCHANGED <<from, localMin, filter, iteration, probe, step, bias>>

Restart ==
    /\ searching /\ step >= Depth
    /\ Restarting
    /\ failCount' = 0
    /\ restarts' = restarts + 1
    /\ maxFailCount' = IF restarts' % 3 = 0 THEN maxFailCount * 2 ELSE maxFailCount
    /\ outcome' = NoState
    /\ searching' = FALSE
    /\ UNCHANGED <<from, localMin, filter, iteration, probe, step, bias>>

\* bias is assigned its rate, but declared anew by the next probe.
NextProbe ==
    /\ searching /\ step >= Depth
    /\ ~ Restarting
    /\ failCount' = failCount + 1
    /\ probe + 1 < Probes
    /\ probe' = probe + 1
    /\ step' = 0
    /\ bias' = MaxBias
    /\ UNCHANGED <<searching, from, localMin, filter, iteration, outcome,
                   maxFailCount, restarts>>

\* The last probe of an iteration: the filter changes and the depth doubles.
NextIteration ==
    /\ searching /\ step >= Depth
    /\ ~ Restarting
    /\ failCount' = failCount + 1
    /\ probe + 1 >= Probes
    /\ filter' = IF filter = "null" THEN "helpful" ELSE "null"
    /\ iteration' = iteration + 1
    /\ \/ iteration' < Iterations /\ UNCHANGED searching
       \/ iteration' = Iterations /\ searching' = FALSE
    /\ probe' = 0 /\ step' = 0
    /\ bias' = MaxBias
    /\ UNCHANGED <<from, localMin, outcome, maxFailCount, restarts>>

Search == StepFound \/ StepOn \/ Restart \/ NextProbe \/ NextIteration

-----------------------------------------------------------------------------

\* The fields of a search and the static counters have their types.
IdentidemTypeOK ==
    /\ searching \in BOOLEAN
    /\ from \in States \cup {NoState}
    /\ localMin \in States \cup {NoState}
    /\ outcome \in States \cup {NoState}
    /\ filter \in {"null", "helpful"}
    /\ iteration \in 0 .. Iterations
    /\ probe \in 0 .. Probes - 1
    /\ step \in Nat
    /\ bias \in MaxBias .. Probes
    /\ failCount \in Nat /\ maxFailCount \in Nat /\ restarts \in Nat

(***************************************************************************)
(* However the searches that share them follow each other, the static      *)
(* counters agree: a probe more may always fail before the limit, and "the *)
(* maximum number of fail counts allowed is double for every 3 restarts".  *)
(***************************************************************************)
FailCountsAgree ==
    /\ failCount < maxFailCount
    /\ maxFailCount = InitialMaxFailCount * 2 ^ (restarts \div 3)

=============================================================================
