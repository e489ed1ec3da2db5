------------------------- MODULE DerivedPredicates -------------------------
(***************************************************************************)
(* How the validator VAL evaluates derived predicates (DerivedGoal and     *)
(* PropositionFactory in Proposition.cpp).  The rule of a derived          *)
(* predicate is unfolded where a condition is built, and a predicate met   *)
(* again inside its own rule becomes a FalseProposition; what is quantified *)
(* is only built while it is evaluated, so the evaluation looks out for    *)
(* predicates that are met again, too.  Answers are cached in one static   *)
(* table for the conditions of a whole step; an answer that may be due to  *)
(* a predicate met again is not, and for that every DerivedGoal on the way *)
(* down from the condition has the flag "revisit".                         *)
(*                                                                         *)
(* A formula is [op, of]: "atom" or "derived" of a name, "not" of a        *)
(* formula, "and", "or" of a sequence of formulas, "all", "some" of the    *)
(* sequence of the instances of a quantified one.                          *)
(***************************************************************************)
EXTENDS Integers, Sequences, SequencesExt, FiniteSetsExt

CONSTANTS
    Atoms,       \* the propositions actions add and delete
    Derived,     \* the derived predicates
    RuleSets     \* the sets of rules [body, level]: functions on Derived to
                 \* formulas and to the strata of the predicates, from 1

VARIABLES
    rules,     \* the rules of the domain, one of RuleSets
    state,     \* the atoms that are true
    evals,     \* the cache, a function on the predicates it holds
    step,      \* whether the conditions of a step are being evaluated
    last       \* the last question, with its answer

vars == <<rules, state, evals, step, last>>

-----------------------------------------------------------------------------
(* The order in which conditions are evaluated.                              *)

\* hasDP for a quantified goal.
RECURSIVE HasDerived(_)
HasDerived(f) ==
    CASE f.op = "atom" -> FALSE
      [] f.op = "derived" -> TRUE
      [] f.op = "not" -> HasDerived(f.of)
      [] OTHER -> \E i \in DOMAIN f.of : HasDerived(f.of[i])

\* rank: -1 for derived predicates.  The maximum the code takes over a list
\* that holds ranks 0 and -1 only is the rank of the last.
RECURSIVE Rank(_)
Rank(f) ==
    CASE f.op = "atom" -> 0
      [] f.op = "derived" -> -1
      [] f.op = "not" -> Rank(f.of)
      [] f.op \in {"all", "some"} -> IF HasDerived(f) THEN -1 ELSE 0
      [] OTHER -> IF f.of = <<>> THEN 0 ELSE Rank(Last(f.of))

\* The simple conditions come first; a disjunction of rank 0 is not sorted.
Sorted(f) ==
    IF f.op = "or" /\ Rank(f) = 0 THEN f.of
    ELSE SelectSeq(f.of, LAMBDA g : Rank(g) = 0) \o SelectSeq(f.of, LAMBDA g : Rank(g) = -1)

-----------------------------------------------------------------------------
(* The evaluation.  "built" holds the predicates being built around a         *)
(* formula, "path" those being evaluated; "literals" says whether atoms are   *)
(* literals of their own: inside what is quantified they are built for one    *)
(* state, as a FalseProposition too.  A result is [ans, cache, revisit].      *)

Result(ans, cache, revisit) == [ans |-> ans, cache |-> cache, revisit |-> revisit]

\* Fault: an answer is cached also if it depends on a predicate met again.
CacheAlways(d, res) == (d :> res.ans) @@ res.cache

\* What is cached after the rule of d has been evaluated.
Cached(d, res) == IF res.ans \/ d \notin res.revisit THEN (d :> res.ans) @@ res.cache ELSE res.cache

RECURSIVE Evaluate(_, _, _, _, _, _), Sequence(_, _, _, _, _, _, _)

\* DerivedGoal::evaluate, or the FalseProposition that stands for it.
EvaluateDerived(d, built, path, literals, cache, revisit) ==
    IF d \in built THEN Result(FALSE, cache, revisit \cup path)
    ELSE IF d \in DOMAIN cache THEN Result(cache[d], cache, revisit)
    ELSE IF d \in path THEN Result(FALSE, cache, revisit \cup path)
    ELSE LET res == Evaluate(rules.body[d], built \cup {d}, path \cup {d}, literals, cache, revisit \ {d})
         IN  Result(res.ans, Cached(d, res), res.revisit)

\* The members of fs one after the other, until one of them has the answer "stop".
Sequence(fs, stop, built, path, literals, cache, revisit) ==
    IF fs = <<>> THEN Result(~stop, cache, revisit)
    ELSE LET res == Evaluate(Head(fs), built, path, literals, cache, revisit) IN
         IF res.ans = stop THEN res
         ELSE Sequence(Tail(fs), stop, built, path, literals, res.cache, res.revisit)

Evaluate(f, built, path, literals, cache, revisit) ==
    CASE f.op = "atom" ->
            Result(f.of \in state, cache, IF literals THEN revisit ELSE revisit \cup path)
      [] f.op = "derived" -> EvaluateDerived(f.of, built, path, literals, cache, revisit)
      [] f.op = "not" ->
            LET res == Evaluate(f.of, built, path, literals, cache, revisit)
            IN  [res EXCEPT !.ans = ~@]
      [] f.op = "and" -> Sequence(Sorted(f), FALSE, built, path, literals, cache, revisit)
      [] f.op = "or" -> Sequence(Sorted(f), TRUE, built, path, literals, cache, revisit)
      [] f.op = "all" -> Sequence(f.of, FALSE, {}, path, FALSE, cache, revisit)
      [] f.op = "some" -> Sequence(f.of, TRUE, {}, path, FALSE, cache, revisit)

Question(d) == Evaluate([op |-> "derived", of |-> d], {}, {}, TRUE, evals, {})

-----------------------------------------------------------------------------
NoAnswer == [of |-> "nothing", ans |-> FALSE]
Nothing == [d \in {} |-> FALSE]

Init ==
    /\ rules \in RuleSets
    /\ state \in SUBSET Atoms
    /\ evals = Nothing /\ step = FALSE /\ last = NoAnswer

\* Fault: the cache is kept for the next step.
CacheKept ==
    ~step /\ step' = TRUE /\ last' = NoAnswer /\ UNCHANGED <<rules, state, evals>>

\* State::progress, and checkGoal, begin with resetLists.
StartStep ==
    /\ ~step /\ step' = TRUE
    /\ evals' = Nothing /\ last' = NoAnswer
    /\ UNCHANGED <<rules, state>>

\* A condition that asks for d: of an action, an invariant or the goal during
\* a step; of the trajectory monitor or an event between two.
Ask(d) ==
    LET res == Question(d) IN
    /\ evals' = res.cache
    /\ last' = [of |-> d, ans |-> res.ans]
    /\ UNCHANGED <<rules, state, step>>

\* The effects of the step are enacted: only now the state changes.
EndStep(s) ==
    step /\ step' = FALSE /\ state' = s /\ last' = NoAnswer /\ UNCHANGED <<rules, evals>>

Next ==
    \/ StartStep
    \/ \E d \in Derived : Ask(d)
    \/ \E s \in SUBSET Atoms : EndStep(s)

Spec == Init /\ [][Next]_vars

-----------------------------------------------------------------------------
(* What derived predicates mean: the least set of them that the rules yield,  *)
(* one stratum after the other.                                               *)

RECURSIVE Holds(_, _)
Holds(f, true) ==
    CASE f.op = "atom" -> f.of \in state
      [] f.op = "derived" -> f.of \in true
      [] f.op = "not" -> ~Holds(f.of, true)
      [] f.op \in {"and", "all"} -> \A i \in DOMAIN f.of : Holds(f.of[i], true)
      [] f.op \in {"or", "some"} -> \E i \in DOMAIN f.of : Holds(f.of[i], true)

RECURSIVE Closure(_, _)
Closure(true, level) ==
    LET new == {d \in Derived : rules.level[d] = level /\ Holds(rules.body[d], true)} IN
    IF new \subseteq true THEN true ELSE Closure(true \cup new, level)

RECURSIVE TrueUpTo(_)
TrueUpTo(level) == IF level = 0 THEN {} ELSE Closure(TrueUpTo(level - 1), level)

Meaning == TrueUpTo(Max({rules.level[d] : d \in Derived}))

\* Whatever was asked before in this step, and in which order, the answer to a
\* question asked in it, and every answer the cache holds for those to come,
\* is what the rules mean in the state of the step, also when predicates depend
\* on each other (DerivedGoal::evaluate, resetLists).
AnswersAreRight ==
    step => LET meaning == Meaning IN
            /\ last # NoAnswer => last.ans = (last.of \in meaning)
            /\ \A d \in DOMAIN evals : evals[d] = (d \in meaning)
=============================================================================
