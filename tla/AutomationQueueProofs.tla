------------------------- MODULE AutomationQueueProofs -------------------------
(***************************************************************************)
(* Theorems about AutomationQueue that hold for every value of its         *)
(* constants: type correctness, at most one invocation per job, and that   *)
(* the jobs are what AutomationLifecycle promises.                         *)
(*                                                                         *)
(* OneRunner counts invocations; its inductive form says the same without  *)
(* counting: what is executed is running (Marked), and two invocations of  *)
(* one job are one (Alone).                                                *)
(***************************************************************************)
EXTENDS AutomationQueue, FiniteSetTheorems, TLAPS

Marked == \A c \in Consumers : run[c] # Idle => jstat[run[c].job] = "running"
Alone ==
    \A c, d \in Consumers : run[c] # Idle /\ run[d] # Idle /\ run[c].job = run[d].job => c = d
QInv == QueueTypeOK /\ Marked /\ Alone

-----------------------------------------------------------------------------
\* An invocation is idle or holds a message of a job; the two differ.
LEMMA IdleIsNoMessage == Idle \notin Messages /\ \A m \in Messages : m.job # Idle.job
  BY AutomationAssumption DEF Idle, Messages

\* What was delivered to an invocation, and what is delivered again, leaves a
\* count for each message.
LEMMA RedeliveryType ==
  ASSUME NEW q \in [Messages -> Nat], NEW S
  PROVE  Redelivered(q, S) \in [Messages -> Nat]
  BY DEF Redelivered

LEMMA DeliveryType ==
  ASSUME QueueTypeOK, NEW c \in Consumers, NEW S \in Batches(c)
  PROVE  S \in SUBSET Messages /\ Delivered(c, S) \in [Messages -> Nat]
  <1>1. S = batch[c] \/ S \subseteq {m \in Messages : queue[m] > 0}
    <2> DEFINE W == {m \in Messages : queue[m] > 0}
    <2>1. S \in {batch[c]} \/ S \in {{f[i] : i \in 1..BatchSize} : f \in [1..BatchSize -> W]}
      BY DEF Batches
    <2>2. ASSUME NEW f \in [1..BatchSize -> W], S = {f[i] : i \in 1..BatchSize} PROVE S \subseteq W
      BY <2>2
    <2> HIDE DEF W
    <2>3. S = batch[c] \/ S \subseteq W
      BY <2>1, <2>2
    <2> QED BY <2>3 DEF W
  <1>2. CASE S = batch[c]
    BY <1>2 DEF Delivered, QueueTypeOK
  <1>3. CASE S # batch[c]
    BY <1>1, <1>3 DEF Delivered, QueueTypeOK
  <1> QED BY <1>2, <1>3

\* Reaching a message takes it from a batch of messages.
LEMMA ReachType ==
  ASSUME QueueTypeOK, NEW c \in Consumers, NEW m \in Messages, Reach(c, m)
  PROVE  run[c] = Idle /\ queue' \in [Messages -> Nat] /\ batch' \in [Consumers -> SUBSET Messages]
  <1> PICK S \in Batches(c) :
        m \in S /\ queue' = Delivered(c, S) /\ batch' = [batch EXCEPT ![c] = S \ {m}]
    BY DEF Reach
  <1> QED BY DeliveryType DEF Reach, QueueTypeOK

\* The empty tables satisfy the invariant.
LEMMA QueueInitInv == QueueInit => QInv
  BY AutomationAssumption DEF QueueInit, QInv, QueueTypeOK, Marked, Alone, JobStatus, Idle

-----------------------------------------------------------------------------
(* Types *)

\* Settling a job writes a status and frees the invocation.
LEMMA SettleType ==
  ASSUME QueueTypeOK, NEW c \in Consumers, NEW s \in JobStatus, Settle(c, s)
  PROVE  /\ jstat' \in [Jobs -> JobStatus]
         /\ run' \in [Consumers -> Messages \cup {Idle}]
  BY DEF QueueTypeOK, Settle

LEMMA QueueTypeStep == QueueTypeOK /\ [QueueNext]_queueVars => QueueTypeOK'
  <1> SUFFICES ASSUME QueueTypeOK, [QueueNext]_queueVars PROVE QueueTypeOK'
    OBVIOUS
  <1> USE AutomationAssumption
  <1>1. ASSUME NEW q \in Callers, NEW j \in Jobs, CreateJob(q, j) PROVE QueueTypeOK'
    BY <1>1 DEF CreateJob, QueueTypeOK, JobStatus
  <1>2. ASSUME NEW q \in Callers, NEW j \in Jobs, FindJob(q, j) PROVE QueueTypeOK'
    BY <1>2 DEF FindJob, QueueTypeOK, queueVars
  <1>3. ASSUME NEW q \in Callers, SendMessage(q) PROVE QueueTypeOK'
    <2>1. [job |-> sending[q], tries |-> 0] \in Messages
      BY <1>3 DEF SendMessage, QueueTypeOK, Messages
    <2> QED BY <1>3, <2>1 DEF SendMessage, QueueTypeOK
  <1>4. ASSUME NEW q \in Callers, LoseMessage(q) PROVE QueueTypeOK'
    BY <1>4 DEF LoseMessage, QueueTypeOK
  <1>5. ASSUME NEW m \in Messages, DuplicateMessage(m) PROVE QueueTypeOK'
    BY <1>5 DEF DuplicateMessage, QueueTypeOK
  <1>6. ASSUME NEW c \in Consumers, NEW m \in Messages, ClaimJob(c, m) PROVE QueueTypeOK'
    <2>1. m.job \in Jobs
      BY DEF Messages
    <2>2. attempts[m.job] + 1 \in 0..MaxAttempts
      BY <1>6, <2>1 DEF ClaimJob, Claimable, QueueTypeOK
    <2> QED BY <1>6, <2>1, <2>2, ReachType DEF ClaimJob, QueueTypeOK, JobStatus
  <1>7. ASSUME NEW c \in Consumers, NEW m \in Messages, SkipJob(c, m) PROVE QueueTypeOK'
    BY <1>7, ReachType DEF SkipJob, QueueTypeOK
  <1>8. ASSUME NEW c \in Consumers, NEW s \in Outcomes, CompleteJob(c, s) PROVE QueueTypeOK'
    <2>1. s \in JobStatus
      BY DEF Outcomes, JobStatus
    <2> QED BY <1>8, <2>1, SettleType DEF CompleteJob, QueueTypeOK
  <1>9. ASSUME NEW c \in Consumers, FailJob(c) PROVE QueueTypeOK'
    <2>1. "failed" \in JobStatus
      BY DEF JobStatus
    <2> QED BY <1>9, <2>1, SettleType DEF FailJob, QueueTypeOK
  <1>10. ASSUME NEW c \in Consumers, RetryJob(c) PROVE QueueTypeOK'
    <2>1. "queued" \in JobStatus /\ run[c] \in Messages
      BY <1>10 DEF JobStatus, RetryJob, QueueTypeOK
    <2>2. queue' \in [Messages -> Nat]
      BY <1>10, <2>1, RedeliveryType DEF RetryJob, QueueTypeOK
    <2> QED BY <1>10, <2>1, <2>2, SettleType DEF RetryJob, QueueTypeOK
  <1>11. ASSUME NEW c \in Consumers, Die(c) PROVE QueueTypeOK'
    <2>1. PICK S \in Batches(c) :
            LET open == IF run[c] = Idle THEN S ELSE S \cup {run[c]}
            IN  /\ queue' = Redelivered(Delivered(c, S), open)
                /\ struck' = struck \cup {m.job : m \in open}
      BY <1>11 DEF Die
    <2>2. queue' \in [Messages -> Nat]
      BY <2>1, DeliveryType, RedeliveryType
    <2>3. run[c] # Idle => run[c] \in Messages
      BY DEF QueueTypeOK
    <2>4. struck' \subseteq Jobs
      BY <2>1, <2>3, DeliveryType DEF Messages, QueueTypeOK
    <2>5. /\ crashes < MaxCrashes /\ crashes' = crashes + 1
          /\ batch' = [batch EXCEPT ![c] = {}] /\ run' = [run EXCEPT ![c] = Idle]
          /\ UNCHANGED <<jstat, attempts, sending, duplicates>>
      BY <1>11 DEF Die
    <2> QED BY <2>2, <2>4, <2>5 DEF QueueTypeOK
  <1>12. CASE UNCHANGED queueVars
    BY <1>12 DEF QueueTypeOK, queueVars
  <1> QED BY <1>1, <1>2, <1>3, <1>4, <1>5, <1>6, <1>7, <1>8, <1>9, <1>10, <1>11, <1>12
          DEF QueueNext, Request, Deliver, Conclude

\* Every variable keeps its type, whatever the requests, the queue and the
\* invocations do.
THEOREM QueueTypesHold == QueueSafety => []QueueTypeOK
  <1>1. QueueInit => QueueTypeOK
    BY QueueInitInv DEF QInv
  <1> QED BY <1>1, QueueTypeStep, PTL DEF QueueSafety

-----------------------------------------------------------------------------
(* One invocation per job *)

\* An invocation that settles its job leaves the jobs of the others alone: by
\* Alone they are other jobs.
LEMMA SettleInv ==
  ASSUME QInv, NEW c \in Consumers, NEW s, Settle(c, s)
  PROVE  Marked' /\ Alone'
  <1> USE IdleIsNoMessage DEF QInv, QueueTypeOK
  <1>1. \A d \in Consumers : run'[d] # Idle => d # c /\ run'[d] = run[d]
    BY DEF Settle
  <1>2. ASSUME NEW d \in Consumers, run'[d] # Idle PROVE jstat'[run'[d].job] = "running"
    <2>1. run[c] # Idle /\ run[d] # Idle /\ d # c /\ run'[d] = run[d]
      BY <1>1, <1>2 DEF Settle
    <2>2. run[d].job # run[c].job
      BY <2>1 DEF Alone
    <2>3. run[d].job \in Jobs
      BY <2>1 DEF Messages
    <2> QED BY <2>1, <2>2, <2>3 DEF Settle, Marked
  <1>3. Alone'
    BY <1>1 DEF Alone
  <1> QED BY <1>2, <1>3 DEF Marked

LEMMA QueueInvStep == QInv /\ [QueueNext]_queueVars => QInv'
  <1> SUFFICES ASSUME QInv, [QueueNext]_queueVars PROVE Marked' /\ Alone'
    BY QueueTypeStep DEF QInv
  <1> USE IdleIsNoMessage DEF QInv, QueueTypeOK
  <1>1. ASSUME NEW q \in Callers, NEW j \in Jobs, CreateJob(q, j) PROVE Marked' /\ Alone'
    <2>1. \A c \in Consumers : run[c] # Idle => run[c].job # j
      BY <1>1 DEF CreateJob, Marked
    <2> QED BY <1>1, <2>1 DEF CreateJob, Marked, Alone
  <1>2. ASSUME NEW c \in Consumers, NEW m \in Messages, ClaimJob(c, m) PROVE Marked' /\ Alone'
    <2>1. m.job \in Jobs
      BY DEF Messages
    <2>2. \A d \in Consumers : run[d] # Idle => run[d].job # m.job
      BY <1>2 DEF ClaimJob, Claimable, Marked
    <2>3. \A d \in Consumers : run'[d] = IF d = c THEN m ELSE run[d]
      BY <1>2 DEF ClaimJob, Reach
    <2>4. \A j \in Jobs : jstat'[j] = IF j = m.job THEN "running" ELSE jstat[j]
      BY <1>2, <2>1 DEF ClaimJob
    <2>5. \A d \in Consumers : run[d] # Idle => run[d].job \in Jobs
      BY DEF Messages
    <2>6. Marked'
      BY <2>1, <2>2, <2>3, <2>4, <2>5 DEF Marked
    <2>7. Alone'
      BY <2>2, <2>3 DEF Alone
    <2> QED BY <2>6, <2>7
  <1>3. ASSUME NEW c \in Consumers, Conclude(c) PROVE Marked' /\ Alone'
    BY <1>3, SettleInv DEF Conclude, CompleteJob, FailJob, RetryJob
  <1>4. ASSUME NEW c \in Consumers, Die(c) PROVE Marked' /\ Alone'
    BY <1>4 DEF Die, Marked, Alone
  <1>5. CASE UNCHANGED <<jstat, run>>
    BY <1>5 DEF Marked, Alone
  <1> QED BY <1>1, <1>2, <1>3, <1>4, <1>5 DEF QueueNext, queueVars, Request, FindJob,
          SendMessage, LoseMessage, DuplicateMessage, Deliver, SkipJob

LEMMA QueueInvHolds == QueueSafety => []QInv
  BY QueueInitInv, QueueInvStep, PTL DEF QueueSafety

\* A set of at most one invocation has at most one element.
LEMMA OneRunnerFollows == QInv => OneRunner
  <1> SUFFICES ASSUME QInv, NEW j \in Jobs
               PROVE  /\ Cardinality(Executing(j)) <= 1
                      /\ Executing(j) # {} => jstat[j] = "running"
    BY DEF OneRunner
  <1>1. \A c \in Executing(j) : c \in Consumers /\ run[c] # Idle /\ run[c].job = j
    BY AutomationAssumption DEF Executing, Idle
  <1>2. CASE Executing(j) = {}
    BY <1>2, FS_EmptySet
  <1>3. CASE Executing(j) # {}
    <2> PICK c \in Executing(j) : TRUE
      BY <1>3
    <2>1. Executing(j) = {c}
      BY <1>1 DEF QInv, Alone
    <2>2. Cardinality(Executing(j)) = 1
      BY <2>1, FS_Singleton
    <2> QED BY <1>1, <2>2 DEF QInv, Marked
  <1> QED BY <1>2, <1>3

\* No job is ever executed by two invocations, and what is executed is marked
\* running, with any number of callers, consumers, duplicates and crashes.
THEOREM QueueOneRunner == QueueSafety => []OneRunner
  BY QueueInvHolds, OneRunnerFollows, PTL

-----------------------------------------------------------------------------
(* The abstract job *)

\* held[j] follows the messages the invocations hold.
LEMMA HeldBySettling ==
  ASSUME QInv, NEW c \in Consumers, run[c] # Idle, run' = [run EXCEPT ![c] = Idle]
  PROVE  /\ run[c].job \in Jobs /\ held[run[c].job] = {c}
         /\ held' = [held EXCEPT ![run[c].job] = {}]
  <1> DEFINE i == run[c].job
  <1>1. i \in Jobs /\ i # NoJob
    BY AutomationAssumption DEF QInv, QueueTypeOK, Messages
  <1>2. \A j \in Jobs : j # NoJob
    BY AutomationAssumption
  <1>3. Idle.job = NoJob
    BY DEF Idle
  <1>4. \A d \in Consumers : run'[d] = IF d = c THEN Idle ELSE run[d]
    BY DEF QInv, QueueTypeOK
  <1>5. Executing(i) = {c}
    <2>1. \A d \in Consumers : run[d].job = i => d = c
      BY <1>1, <1>3 DEF QInv, Alone
    <2> QED BY <2>1 DEF Executing
  <1>6. \A j \in Jobs : Executing(j)' = IF j = i THEN {} ELSE Executing(j)
    <2> TAKE j \in Jobs
    <2>1. CASE j = i
      BY <2>1, <1>2, <1>3, <1>4, <1>5 DEF Executing
    <2>2. CASE j # i
      BY <2>2, <1>2, <1>3, <1>4 DEF Executing
    <2> QED BY <2>1, <2>2
  <1> QED BY <1>1, <1>5, <1>6 DEF held

LEMMA HeldByClaim ==
  ASSUME QInv, NEW c \in Consumers, NEW m \in Messages, ClaimJob(c, m)
  PROVE  /\ m.job \in Jobs /\ held[m.job] = {}
         /\ held' = [held EXCEPT ![m.job] = {c}]
  <1>1. m.job \in Jobs /\ \A j \in Jobs : j # NoJob
    BY AutomationAssumption DEF Messages
  <1>2. Idle.job = NoJob
    BY DEF Idle
  <1>3. run[c] = Idle /\ \A d \in Consumers : run'[d] = IF d = c THEN m ELSE run[d]
    BY DEF ClaimJob, Reach, QInv, QueueTypeOK
  <1>4. Executing(m.job) = {}
    BY <1>1, <1>2 DEF ClaimJob, Claimable, QInv, Marked, Executing
  <1>5. \A j \in Jobs : Executing(j)' = IF j = m.job THEN {c} ELSE Executing(j)
    <2> TAKE j \in Jobs
    <2>1. CASE j = m.job
      BY <2>1, <1>3, <1>4 DEF Executing
    <2>2. CASE j # m.job
      BY <2>2, <1>1, <1>2, <1>3 DEF Executing
    <2> QED BY <2>1, <2>2
  <1> QED BY <1>1, <1>4, <1>5 DEF held

\* Settling is Finish, whatever the status written.
LEMMA SettleRefines ==
  ASSUME QInv, NEW c \in Consumers, NEW s \in Lifecycle!Settled \cup {"queued", "failed"},
         Settle(c, s), UNCHANGED attempts
  PROVE  \E j \in Jobs : Lifecycle!Finish(j, c, s)
  <1>1. run[c] # Idle /\ run' = [run EXCEPT ![c] = Idle]
    BY DEF Settle
  <1>2. /\ run[c].job \in Jobs /\ held[run[c].job] = {c}
        /\ held' = [held EXCEPT ![run[c].job] = {}]
    BY <1>1, HeldBySettling
  <1>3. Lifecycle!Finish(run[c].job, c, s)
    BY <1>1, <1>2 DEF Settle, QInv, Marked, Lifecycle!Finish
  <1> QED BY <1>2, <1>3

\* Every step of the queue is a step of the abstract job or changes none.
LEMMA QueueStepRefines ==
  ASSUME QInv, QInv', [QueueNext]_queueVars
  PROVE  [Lifecycle!Next]_(Lifecycle!jobVars)
  <1> USE DEF Lifecycle!jobVars
  <1>1. ASSUME NEW q \in Callers, NEW j \in Jobs, CreateJob(q, j) PROVE Lifecycle!Next
    <2>1. held' = held
      BY <1>1 DEF CreateJob, held, Executing
    <2> QED BY <1>1, <2>1 DEF CreateJob, Lifecycle!Create, Lifecycle!Next
  <1>2. ASSUME NEW c \in Consumers, NEW m \in Messages, ClaimJob(c, m) PROVE Lifecycle!Next
    <2>1. Lifecycle!Start(m.job, c)
      BY <1>2, HeldByClaim DEF ClaimJob, Claimable, Lifecycle!Start
    <2> QED BY <1>2, <2>1, HeldByClaim DEF Lifecycle!Next
  <1>3. ASSUME NEW c \in Consumers, Conclude(c) PROVE Lifecycle!Next
    <2>1. \E s \in Lifecycle!Settled \cup {"queued", "failed"} : Settle(c, s) /\ UNCHANGED attempts
      BY <1>3 DEF Conclude, CompleteJob, FailJob, RetryJob, Outcomes, Lifecycle!Settled
    <2> QED BY <2>1, SettleRefines DEF Lifecycle!Next
  <1>4. ASSUME NEW c \in Consumers, Die(c) PROVE [Lifecycle!Next]_(Lifecycle!jobVars)
    <2>1. run' = [run EXCEPT ![c] = Idle] /\ UNCHANGED <<jstat, attempts>>
      BY <1>4 DEF Die
    <2>2. CASE run[c] # Idle
      <3>1. /\ run[c].job \in Jobs /\ held[run[c].job] = {c}
            /\ held' = [held EXCEPT ![run[c].job] = {}]
        BY <2>1, <2>2, HeldBySettling
      <3>2. Lifecycle!Abandon(run[c].job, c)
        BY <2>1, <2>2, <3>1 DEF QInv, Marked, Lifecycle!Abandon
      <3> QED BY <3>1, <3>2 DEF Lifecycle!Next
    <2>3. CASE run[c] = Idle
      <3>1. run' = run
        BY <2>1, <2>3 DEF QInv, QueueTypeOK
      <3> QED BY <2>1, <3>1 DEF held, Executing
    <2> QED BY <2>2, <2>3
  <1>5. CASE UNCHANGED <<jstat, attempts, run>>
    BY <1>5 DEF held, Executing
  <1> QED BY <1>1, <1>2, <1>3, <1>4, <1>5 DEF QueueNext, queueVars, Request, FindJob,
          SendMessage, LoseMessage, DuplicateMessage, Deliver, SkipJob

\* The queue implements the abstract job: executed by one invocation at a time,
\* at most MaxAttempts times, and never again once it is settled.
THEOREM QueueIsLifecycle == QueueSafety => LifecycleSpec
  <1>1. QueueInit => Lifecycle!Init
    BY AutomationAssumption DEF QueueInit, Lifecycle!Init, held, Executing, Idle
  <1>2. QInv /\ QInv' /\ [QueueNext]_queueVars => [Lifecycle!Next]_(Lifecycle!jobVars)
    BY QueueStepRefines
  <1> QED BY <1>1, <1>2, QueueInvHolds, PTL DEF QueueSafety, LifecycleSpec, Lifecycle!Spec

=============================================================================
