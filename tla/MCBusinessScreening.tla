-------------------------- MODULE MCBusinessScreening --------------------------
(* BusinessScreening for TLC.                                                 *)
EXTENDS BusinessScreening, TLC

CONSTANTS r1, r2, i1, i2, t1, t2

\* One position has two responsible interviewers.
BothResponsible == [r \in Resumes |-> Interviewers]

Symmetry ==
    UNION {Permutations(S) : S \in {Resumes, Staff, Deciders, Interviewers, Stamps}}

=============================================================================
