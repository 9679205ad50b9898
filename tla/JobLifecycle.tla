---------------------------- MODULE JobLifecycle ----------------------------
(***************************************************************************)
(* What the resume-processing job table promises to its readers, apart     *)
(* from queues, workers and requests: a job is created for one resume, is  *)
(* claimed, and ends once; only a failed job is ever put back to work; and *)
(* a resume has at most one job that is queued or running.                 *)
(*                                                                         *)
(* ResumeQueue (the consumer, the request handlers and the stale-job       *)
(* recovery, statement by statement) is compared with this module.         *)
(***************************************************************************)

CONSTANTS Jobs,      \* identifiers a job row may be given
          Resumes,   \* identifiers of resume rows
          NoResume   \* the owner of a job row that does not exist yet

VARIABLES status,    \* status[j]: the status column, "none" before the insert
          owner      \* owner[j]: the resume_id column

lifecycleVars == <<status, owner>>

ActiveStatus == {"queued", "running"}
JobStatus == {"none", "queued", "running", "completed", "failed", "cancelled"}

\* The rows idx_resume_jobs_one_active ranges over, for resume r.
ActiveJobs(r) == {j \in Jobs : owner[j] = r /\ status[j] \in ActiveStatus}

Init ==
    /\ status = [j \in Jobs |-> "none"]
    /\ owner = [j \in Jobs |-> NoResume]

Submit(j, r) ==
    /\ status[j] = "none"
    /\ ActiveJobs(r) = {}
    /\ status' = [status EXCEPT ![j] = "queued"]
    /\ owner' = [owner EXCEPT ![j] = r]

\* One row changes its status; the resume it belongs to never changes.
Move(j, from, to) ==
    /\ status[j] \in from
    /\ status' = [status EXCEPT ![j] = to]
    /\ UNCHANGED owner

Claim(j)  == Move(j, {"queued"}, "running")
Yield(j)  == Move(j, {"running"}, "queued")
Finish(j) == Move(j, {"running"}, "completed")
Fail(j)   == Move(j, ActiveStatus, "failed")

Requeue(j) ==
    /\ ActiveJobs(owner[j]) = {}
    /\ Move(j, {"failed"}, "queued")

\* A batch is stopped: all its unfinished jobs at once.
Cancel(S) ==
    /\ \A j \in S : status[j] \in ActiveStatus
    /\ status' = [j \in Jobs |-> IF j \in S THEN "cancelled" ELSE status[j]]
    /\ UNCHANGED owner

Next ==
    \/ \E j \in Jobs, r \in Resumes : Submit(j, r)
    \/ \E j \in Jobs : Claim(j) \/ Yield(j) \/ Finish(j) \/ Fail(j) \/ Requeue(j)
    \/ \E S \in SUBSET Jobs : Cancel(S)

Spec == Init /\ [][Next]_lifecycleVars

=============================================================================
