-------------------------- MODULE MCInterviewSchedule --------------------------
(* InterviewSchedule for TLC.  The bounds on requests, duplicates, crashes and *)
(* lost answers bound everything else, so no state constraint is needed.       *)
EXTENDS InterviewSchedule, TLC

\* Requests, invocations and times are interchangeable.
Symmetry ==
    Permutations(Callers) \cup Permutations(Consumers) \cup Permutations(Slots)

=============================================================================
