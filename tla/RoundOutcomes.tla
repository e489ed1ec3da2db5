---------------------------- MODULE RoundOutcomes ----------------------------
(***************************************************************************)
(* What a step of an Identidem probe may go on with, as IdentidemRound     *)
(* establishes it and the search that takes the steps relies on it.        *)
(***************************************************************************)

\* A goal of the sample if there is one, else the look-ahead state if that is
\* one, else whatever the selector draws.
Outcomes(sample, lookAhead, goals) ==
    IF sample \cap goals # {}
    THEN sample \cap goals
    ELSE {s \in sample \cup {lookAhead} : lookAhead \in goals => s = lookAhead}
=============================================================================
