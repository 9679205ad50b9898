---------------------------- MODULE AutomationQueue ----------------------------
(***************************************************************************)
(* The machinery every interview-automation job goes through: the routes   *)
(* that create a job row under its idempotency key and send its message,   *)
(* the queue, and the consumer invocations, each of which is given a batch *)
(* of messages and goes through it: it claims the row of a message,        *)
(* executes its handler and settles it.  What the handlers do to           *)
(* interviews, calendars and candidates is left to the modules that        *)
(* instantiate this one (InterviewSchedule, InterviewRounds); here an      *)
(* execution may end in any of the ways processInterviewAutomationMessage  *)
(* knows.                                                                  *)
(***************************************************************************)
EXTENDS Naturals, FiniteSets

CONSTANTS
    Jobs,           \* idempotency keys: the column is UNIQUE, so a key names a row
    Callers,        \* requests that may be under way at once
    Consumers,      \* concurrent invocations (max_concurrency of the consumer)
    NoJob,
    BatchSize,      \* max_batch_size of the queue consumer
    MaxAttempts,    \* max_attempts of a row
    MaxRetries,     \* max_retries of the queue consumer; 0 as deployed
    MaxCrashes,     \* bound: invocations that die or throw
    MaxDuplicates   \* bound: messages the queue delivers once more than sent

ASSUME AutomationAssumption ==
    /\ NoJob \notin Jobs
    /\ {BatchSize, MaxAttempts} \subseteq Nat \ {0} /\ MaxRetries \in Nat
    /\ MaxCrashes \in Nat /\ MaxDuplicates \in Nat

VARIABLES
    jstat, attempts,        \* interview_automation_jobs: status, attempt_count
    queue,                  \* how many copies of each message wait
    batch,                  \* batch[c]: the messages delivered to consumer c and not reached
    sending,                \* sending[q]: the job whose message caller q is to send
    run,                    \* run[c]: the message whose job consumer c executes
    crashes, duplicates,    \* what the bounds count
    struck                  \* history: jobs an invocation held when it died or threw

queueVars == <<jstat, attempts, queue, batch, sending, run, crashes, duplicates, struck>>

-----------------------------------------------------------------------------
JobStatus == {"none", "queued", "running", "succeeded", "partial", "failed", "cancelled"}
Outcomes == {"succeeded", "partial", "cancelled"}
Messages == [job : Jobs, tries : 0..MaxRetries]
Idle == [job |-> NoJob, tries |-> 0]

\* The invocations that execute job j.
Executing(j) == {c \in Consumers : run[c].job = j}

QueueInit ==
    /\ jstat = [j \in Jobs |-> "none"]
    /\ attempts = [j \in Jobs |-> 0]
    /\ queue = [m \in Messages |-> 0]
    /\ batch = [c \in Consumers |-> {}]
    /\ sending = [q \in Callers |-> NoJob]
    /\ run = [c \in Consumers |-> Idle]
    /\ crashes = 0
    /\ duplicates = 0
    /\ struck = {}

-----------------------------------------------------------------------------
(* Callers: enqueueInterviewAutomation *)

\* The key is free: the row is inserted and a message will be sent.
CreateJob(q, j) ==
    /\ sending[q] = NoJob
    /\ jstat[j] = "none"
    /\ jstat' = [jstat EXCEPT ![j] = "queued"]
    /\ sending' = [sending EXCEPT ![q] = j]
    /\ UNCHANGED <<attempts, queue, batch, run, crashes, duplicates, struck>>

\* The key is taken, at the SELECT or by the UNIQUE index at the INSERT: no
\* message is sent, whether or not one ever was.
FindJob(q, j) ==
    /\ sending[q] = NoJob
    /\ jstat[j] # "none"
    /\ UNCHANGED queueVars

SendMessage(q) ==
    /\ sending[q] # NoJob
    /\ queue' = [queue EXCEPT ![[job |-> sending[q], tries |-> 0]] = @ + 1]
    /\ sending' = [sending EXCEPT ![q] = NoJob]
    /\ UNCHANGED <<jstat, attempts, batch, run, crashes, duplicates, struck>>

\* queue.send throws, or the request dies between the INSERT and the send.
LoseMessage(q) ==
    /\ sending[q] # NoJob
    /\ sending' = [sending EXCEPT ![q] = NoJob]
    /\ UNCHANGED <<jstat, attempts, queue, batch, run, crashes, duplicates, struck>>

DuplicateMessage(m) ==
    /\ queue[m] > 0
    /\ duplicates < MaxDuplicates
    /\ duplicates' = duplicates + 1
    /\ queue' = [queue EXCEPT ![m] = @ + 1]
    /\ UNCHANGED <<jstat, attempts, batch, sending, run, crashes, struck>>

\* max_retries: a copy of each message of S that has tries left goes back to q.
Redelivered(q, S) ==
    [m \in Messages |-> IF [m EXCEPT !.tries = @ - 1] \in S THEN q[m] + 1 ELSE q[m]]

-----------------------------------------------------------------------------
(* Consumers: the loop over a batch, and processInterviewAutomationMessage    *)

\* What invocation c goes through: the rest of its batch, or else a new one,
\* which has a copy each of up to BatchSize of the messages that wait.
Batches(c) ==
    IF run[c] # Idle \/ batch[c] # {} THEN {batch[c]}
    ELSE {{f[i] : i \in 1..BatchSize} : f \in [1..BatchSize -> {m \in Messages : queue[m] > 0}]}

\* The queue once c was given S.
Delivered(c, S) ==
    IF S = batch[c] THEN queue
    ELSE [m \in Messages |-> IF m \in S THEN queue[m] - 1 ELSE queue[m]]

\* The next message of the loop is m.
Reach(c, m) ==
    /\ run[c] = Idle
    /\ \E S \in Batches(c) :
          /\ m \in S
          /\ queue' = Delivered(c, S)
          /\ batch' = [batch EXCEPT ![c] = S \ {m}]

\* Mutant of Claimable: a job that was executed before is not taken up again.
ClaimableOnce(j) == jstat[j] = "queued" /\ attempts[j] = 0

\* Mutant of Claimable: claimJob names the row by id alone.
ClaimableAlways(j) == attempts[j] < MaxAttempts

\* The WHERE of claimJob.
Claimable(j) == jstat[j] \in {"queued", "failed"} /\ attempts[j] < MaxAttempts

\* claimJob: one conditional UPDATE.
ClaimJob(c, m) ==
    /\ Reach(c, m)
    /\ Claimable(m.job)
    /\ jstat' = [jstat EXCEPT ![m.job] = "running"]
    /\ attempts' = [attempts EXCEPT ![m.job] = @ + 1]
    /\ run' = [run EXCEPT ![c] = m]
    /\ UNCHANGED <<sending, crashes, duplicates, struck>>

\* The UPDATE changed no row: the message is acknowledged.
SkipJob(c, m) ==
    /\ Reach(c, m)
    /\ ~Claimable(m.job)
    /\ UNCHANGED <<jstat, attempts, sending, run, crashes, duplicates, struck>>

Settle(c, s) ==
    /\ run[c] # Idle
    /\ jstat' = [jstat EXCEPT ![run[c].job] = s]
    /\ run' = [run EXCEPT ![c] = Idle]

\* completeJob and cancelJob: UPDATE by id alone, then the acknowledgement.
CompleteJob(c, s) ==
    /\ s \in Outcomes
    /\ Settle(c, s)
    /\ UNCHANGED <<attempts, queue, batch, sending, crashes, duplicates, struck>>

\* Mutant of FailJob: the UPDATE is forgotten, only the message is acknowledged.
FailSilently(c) ==
    /\ run[c] # Idle
    /\ run' = [run EXCEPT ![c] = Idle]
    /\ UNCHANGED <<jstat, attempts, queue, batch, sending, crashes, duplicates, struck>>

\* failJob.
FailJob(c) ==
    /\ Settle(c, "failed")
    /\ UNCHANGED <<attempts, queue, batch, sending, crashes, duplicates, struck>>

\* scheduleRetry and message.retry: the row is queued again, and the queue
\* delivers the message again only while it has retries left.
RetryJob(c) ==
    /\ run[c] # Idle
    /\ attempts[run[c].job] < MaxAttempts
    /\ Settle(c, "queued")
    /\ queue' = Redelivered(queue, {run[c]})
    /\ UNCHANGED <<attempts, batch, sending, crashes, duplicates, struck>>

\* The invocation dies, or a statement that nobody catches throws (claimJob,
\* isStaleVersion, cancelJob, scheduleRetry, failJob): the row it worked on
\* stays as it is, and all of its messages that are not acknowledged, those it
\* never reached among them, are delivered again only while they have retries
\* left.
Die(c) ==
    /\ crashes < MaxCrashes
    /\ crashes' = crashes + 1
    /\ \E S \in Batches(c) :
          LET open == IF run[c] = Idle THEN S ELSE S \cup {run[c]}
          IN  /\ queue' = Redelivered(Delivered(c, S), open)
              /\ struck' = struck \cup {m.job : m \in open}
    /\ batch' = [batch EXCEPT ![c] = {}]
    /\ run' = [run EXCEPT ![c] = Idle]
    /\ UNCHANGED <<jstat, attempts, sending, duplicates>>

-----------------------------------------------------------------------------
Request(q) == \E j \in Jobs : CreateJob(q, j) \/ FindJob(q, j)
Deliver(c) == \E m \in Messages : ClaimJob(c, m) \/ SkipJob(c, m)
Conclude(c) == (\E s \in Outcomes : CompleteJob(c, s)) \/ FailJob(c) \/ RetryJob(c)

QueueNext ==
    \/ \E q \in Callers : Request(q) \/ SendMessage(q) \/ LoseMessage(q)
    \/ \E m \in Messages : DuplicateMessage(m)
    \/ \E c \in Consumers : Deliver(c) \/ Conclude(c) \/ Die(c)

\* The queue delivers what waits in it and a live invocation comes to an end
\* (a Worker invocation is finite); requests, failures and deaths owe nothing.
QueueFairness ==
    \A c \in Consumers :
        /\ \A m \in Messages : WF_queueVars(ClaimJob(c, m) \/ SkipJob(c, m))
        /\ WF_queueVars(Conclude(c))

QueueSafety == QueueInit /\ [][QueueNext]_queueVars
QueueSpec == QueueSafety /\ QueueFairness

-----------------------------------------------------------------------------
QueueTypeOK ==
    /\ jstat \in [Jobs -> JobStatus]
    /\ attempts \in [Jobs -> 0..MaxAttempts]
    /\ queue \in [Messages -> Nat]
    /\ batch \in [Consumers -> SUBSET Messages]
    /\ sending \in [Callers -> Jobs \cup {NoJob}]
    /\ run \in [Consumers -> Messages \cup {Idle}]
    /\ crashes \in 0..MaxCrashes
    /\ duplicates \in 0..MaxDuplicates
    /\ struck \subseteq Jobs

\* Duplicated and repeated deliveries never have two invocations execute one
\* job, and whatever is executed is marked running: the unconditional UPDATEs
\* that settle a job (completeJob, failJob, scheduleRetry, cancelJob name the
\* row by id alone) therefore never hit a job that is somebody else's.
OneRunner ==
    \A j \in Jobs :
        /\ Cardinality(Executing(j)) <= 1
        /\ Executing(j) # {} => jstat[j] = "running"

\* Every job is what AutomationLifecycle promises: executed by one invocation
\* at a time, at most MaxAttempts times, and never again once it is settled.
held == [j \in Jobs |-> Executing(j)]
Lifecycle == INSTANCE AutomationLifecycle
               WITH Runners <- Consumers, stat <- jstat, tries <- attempts, held <- held
LifecycleSpec == Lifecycle!Spec

\* A queued job whose message waits, in the queue or in the batch of an
\* invocation, is taken up: no other message starves it, and only an invocation
\* that dies or throws while it holds the message takes it away.
Waiting(j) ==
    \E m \in Messages : m.job = j /\ (queue[m] > 0 \/ \E c \in Consumers : m \in batch[c])
WaitingIsServed ==
    \A j \in Jobs : jstat[j] = "queued" /\ Waiting(j) ~> jstat[j] # "queued" \/ j \in struck

\* A running job is settled, unless its own invocation died or threw: nothing
\* recovers the jobs of those.
RunningEnds ==
    \A j \in Jobs : jstat[j] = "running" ~> jstat[j] # "running" \/ j \in struck

=============================================================================
