--------------------------- MODULE MCSystemSettings ---------------------------
(* SystemSettings for TLC: answers that are complete, incomplete, out of range, *)
(* or hide the real one in the summary; means on both sides of a threshold.      *)
EXTENDS SystemSettings, TLC

CONSTANTS m1, m2

\* The five weighted scores: a for the profile, b for the others.
Scores(k, r, a, b) ==
    Keyword :> k @@ RedFlag :> r @@ "profile" :> a @@ [d \in Scoring \ {"profile"} |-> b]
Weighting(a, b) == [d \in Scoring |-> IF d = "profile" THEN a ELSE b]
MCWeightChoices == {Weighting(0, 0), Weighting(11, 1)}

MCBuiltin == [keyword |-> 2, red |-> 5, weighted |-> 35]
MCRuleChoices == {[keyword |-> 0, red |-> 0, weighted |-> 40]}

Full == {Scores(0, 9, 5, 5), Scores(3, 9, 2, 4)}
Partial == {Empty, Scores(3, 5, NoScore, 5)}
MCAnswers ==
    [outer : Full \cup Partial, inner : {Empty}]
    \cup [outer : Partial \cup {Scores(0, 0, 0, 0)}, inner : {Scores(3, 4, 4, 4), Scores(3, NoScore, 4, 4)}]

\* No row; one that was never saved by the page; one with slots without ids.
MCStarts ==
    {<<>>,
     <<[slots |-> Unset, rules |-> NoRules]>>,
     <<[slots |-> <<[id |-> 0, model |-> m1, key |-> m1], [id |-> 0, model |-> m2, key |-> m2]>>,
        rules |-> NoRules]>>}
MCLegacy == <<m2>>

Symmetry == Permutations(Admins)

=============================================================================
