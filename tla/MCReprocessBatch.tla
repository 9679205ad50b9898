-------------------------- MODULE MCReprocessBatch --------------------------
(* ReprocessBatch for TLC.                                                   *)
EXTENDS ReprocessBatch, TLC

\* Invocations of one kind are interchangeable.  The run of the safety
\* properties with two coordinators uses it; the runs of liveness do not.
Symmetry == Permutations(Coordinators) \cup Permutations(Workers)

=============================================================================
