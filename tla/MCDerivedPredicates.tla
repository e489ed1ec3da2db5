------------------------ MODULE MCDerivedPredicates ------------------------
(***************************************************************************)
(* Three derived predicates over two atoms.  p and q may depend on each    *)
(* other and on themselves, plainly or under a quantifier, with their      *)
(* conditions in any order; r is in the stratum above them and negates, or *)
(* takes part in the cycle.                                                *)
(***************************************************************************)
EXTENDS DerivedPredicates

CONSTANTS a, b, p, q, r

MCAtoms == {a, b}
MCDerived == {p, q, r}

Formula(op, of) == [op |-> op, of |-> of]
Member(x) == IF x \in MCAtoms THEN Formula("atom", x) ELSE Formula("derived", x)
Not(f) == Formula("not", f)

Pairs == {<<p, q>>, <<q, p>>, <<a, p>>, <<p, b>>, <<a, q>>, <<q, a>>, <<b, q>>, <<a, b>>}
Bodies == {Formula(op, <<Member(xy[1]), Member(xy[2])>>) :
              op \in {"and", "or", "all", "some"}, xy \in Pairs}

\* Rules that ask for both, one of them under a negation or a quantifier.
Above == {Formula("and", <<Not(Member(p)), Member(q)>>),
          Formula("or", <<Member(q), Not(Member(p))>>),
          Formula("and", <<Formula("some", <<Member(p), Member(q)>>), Not(Member(q))>>)}

\* Rules with which all three depend on each other.
Cyclic == {Formula(op, <<Member(xy[1]), Member(xy[2])>>) :
              op \in {"or", "some", "and"}, xy \in {<<q, r>>, <<r, a>>, <<p, q>>, <<b, p>>}}

MCRuleSets ==
    {[body |-> p :> bp @@ q :> bq @@ r :> br, level |-> p :> 1 @@ q :> 1 @@ r :> 2] :
        bp \in Bodies, bq \in Bodies, br \in Above}
    \cup {[body |-> p :> bp @@ q :> bq @@ r :> br, level |-> p :> 1 @@ q :> 1 @@ r :> 1] :
        bp \in Cyclic, bq \in Cyclic, br \in Cyclic}
=============================================================================
