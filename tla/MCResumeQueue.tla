--------------------------- MODULE MCResumeQueue ---------------------------
(* ResumeQueue for TLC.  Every claim uses up a delivery, so the bounds on    *)
(* requests, redeliveries and duplicates bound the claims as well and no     *)
(* state constraint is needed.                                               *)
EXTENDS ResumeQueue, TLC

\* Invocations, requests and job identifiers are interchangeable.  Only the
\* runs without liveness properties use it.
Symmetry ==
    Permutations(Workers) \cup Permutations(Requesters) \cup Permutations(Jobs)

=============================================================================
