-------------------------- MODULE AutomationLifecycle --------------------------
(***************************************************************************)
(* What an interview-automation job promises, seen through its row and the *)
(* invocations that execute it: a job is created once, one invocation at a *)
(* time executes it, it is executed at most MaxAttempts times, and once it *)
(* succeeded, partly succeeded or was cancelled it is never executed again.*)
(***************************************************************************)
EXTENDS Naturals

CONSTANTS Jobs, Runners, MaxAttempts

VARIABLES
    stat,       \* status of each job
    tries,      \* how often it was claimed
    held        \* held[j]: the invocation that executes j now, as a set

jobVars == <<stat, tries, held>>

Settled == {"succeeded", "partial", "cancelled"}

Init ==
    /\ stat = [j \in Jobs |-> "none"]
    /\ tries = [j \in Jobs |-> 0]
    /\ held = [j \in Jobs |-> {}]

Create(j) ==
    /\ stat[j] = "none"
    /\ stat' = [stat EXCEPT ![j] = "queued"]
    /\ UNCHANGED <<tries, held>>

Start(j, w) ==
    /\ stat[j] \in {"queued", "failed"}
    /\ held[j] = {}
    /\ tries[j] < MaxAttempts
    /\ stat' = [stat EXCEPT ![j] = "running"]
    /\ tries' = [tries EXCEPT ![j] = @ + 1]
    /\ held' = [held EXCEPT ![j] = {w}]

Finish(j, w, s) ==
    /\ stat[j] = "running"
    /\ held[j] = {w}
    /\ s \in Settled \cup {"queued", "failed"}
    /\ stat' = [stat EXCEPT ![j] = s]
    /\ held' = [held EXCEPT ![j] = {}]
    /\ UNCHANGED tries

\* The invocation dies and the job stays as it is.
Abandon(j, w) ==
    /\ stat[j] = "running"
    /\ held[j] = {w}
    /\ held' = [held EXCEPT ![j] = {}]
    /\ UNCHANGED <<stat, tries>>

Next ==
    \E j \in Jobs :
        \/ Create(j)
        \/ \E w \in Runners :
              \/ Start(j, w) \/ Abandon(j, w)
              \/ \E s \in Settled \cup {"queued", "failed"} : Finish(j, w, s)

Spec == Init /\ [][Next]_jobVars

=============================================================================
