---------------------------- MODULE ScreeningScore ----------------------------
(***************************************************************************)
(* From the answers of a model to a verdict: which scores count, and how   *)
(* the thresholds decide.  Scores are integers, thresholds of the weighted *)
(* score are in tenths.  An answer is a partial map from dimensions to     *)
(* scores, which may carry a second one where its summary should be.       *)
(***************************************************************************)
EXTENDS Integers

CONSTANTS NoScore, NoRules

ASSUME ScoreAssumption == NoScore \notin Int

\* The dimensions that are weighted, and the two that are gates.
Scoring == {"profile", "duties", "requirements", "background", "bonus"}
Keyword == "keyword"
RedFlag == "red flag"
Dimensions == Scoring \cup {Keyword, RedFlag}

\* Weights of a position that gives none.
DefaultWeights == [profile |-> 25, duties |-> 22, requirements |-> 22,
                   background |-> 13, bonus |-> 10]

ScoreRange == 0..5
AnswerScores == [Dimensions -> Int \cup {NoScore}]

-----------------------------------------------------------------------------
(* Answers *)

Clamped(n) == IF n < 0 THEN 0 ELSE IF n > 5 THEN 5 ELSE n

\* normalizeDimensionScores: a score that is not a number is left out.
Scored(answer) == {d \in Dimensions : answer[d] # NoScore}
Complete(answer) == Scored(answer) = Dimensions
Empty == [d \in Dimensions |-> NoScore]

\* normalizeScreeningEvaluation: what the summary holds is preferred when the
\* outer answer scores nothing, or only zeros, or is incomplete while the inner
\* one is complete.
Effective(answer) ==
    LET outer == answer.outer
        inner == answer.inner
        placeholder == \A d \in Scored(outer) : Clamped(outer[d]) = 0
    IN  IF \/ Scored(inner) = {}
           \/ ~placeholder /\ (Complete(outer) \/ ~Complete(inner))
        THEN outer ELSE inner

\* Mutant of Merged: the supplement overwrites the primary answer.
MergedSupplementFirst(primary, supplement) ==
    [d \in Dimensions |-> IF supplement[d] # NoScore THEN supplement[d] ELSE primary[d]]

\* mergeDimensionScores: the supplement only fills what the primary lacks.
Merged(primary, supplement) ==
    [d \in Dimensions |-> IF primary[d] # NoScore THEN primary[d] ELSE supplement[d]]

\* normalizedDimensions: a missing dimension counts as zero.
Normalized(answer) ==
    [d \in Dimensions |-> IF answer[d] = NoScore THEN 0 ELSE Clamped(answer[d])]

-----------------------------------------------------------------------------
(* Rules *)

Rules == [keyword : ScoreRange, red : ScoreRange, weighted : 0..50]

\* resolveScreeningRules: the position's own rules, those of the system, the
\* built-in ones; an invalid object is as good as none.
Resolved(system, position, builtin) ==
    IF position # NoRules THEN position ELSE IF system # NoRules THEN system ELSE builtin

-----------------------------------------------------------------------------
(* Verdicts *)

\* scoringWeights: all of the configured weights, or none of them.
Weights(configured) ==
    IF \E d \in Scoring : configured[d] > 0 THEN configured ELSE DefaultWeights

Total(w) == w.profile + w.duties + w.requirements + w.background + w.bonus
Weighed(scores, w) ==
    scores.profile * w.profile + scores.duties * w.duties
    + scores.requirements * w.requirements + scores.background * w.background
    + scores.bonus * w.bonus

\* Math.round(x * 10) / 10: the mean in tenths, a half goes up.
Tenths(scores, weights) ==
    (20 * Weighed(scores, weights) + Total(weights)) \div (2 * Total(weights))

\* evaluateWeightedScreening: both gates, then the weighted score.
Passes(scores, configured, rules) ==
    /\ scores[Keyword] >= rules.keyword
    /\ scores[RedFlag] >= rules.red
    /\ Tenths(scores, Weights(configured)) >= rules.weighted

=============================================================================
