--------------------------- MODULE MCInterviewRounds ---------------------------
(* InterviewRounds for TLC.  The bound on requests bounds everything else.     *)
EXTENDS InterviewRounds

\* The item names its position or does not; the position has no interviewer for
\* the first round, which therefore goes through the manual review.
MCSetups == {[item |-> i, primary |-> FALSE, secondary |-> TRUE] : i \in BOOLEAN}

=============================================================================
