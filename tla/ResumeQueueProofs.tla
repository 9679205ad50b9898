-------------------------- MODULE ResumeQueueProofs -------------------------
(***************************************************************************)
(* Theorems about ResumeQueue that hold for every value of its constants:  *)
(* type correctness, at most one active job per resume; while leases are   *)
(* kept, what rests on them (second part); how a job can be stranded       *)
(* (third); and, while only reprocessing happens, that each job is in one  *)
(* hand and what follows for its resume (fourth).                          *)
(*                                                                         *)
(* Types alone are not inductive.  An invocation writes to the resume its  *)
(* job belongs to, so the proof needs that messages, invocations and       *)
(* requests only refer to rows that exist (References).                    *)
(***************************************************************************)
EXTENDS ResumeQueue, TLAPS

\* A row has an owner exactly when it exists.
JobOwned ==
    \A j \in Jobs :
        /\ status[j] = "none" => owner[j] = NoResume
        /\ status[j] # "none" => owner[j] \in Resumes

\* Messages are only sent for rows that exist.
KnownMessages == \A m \in Messages : queue[m] > 0 => status[m.job] # "none"

\* An invocation that is not idle holds such a message, under a numbered claim.
HeldMessage ==
    \A w \in Workers : wpc[w] # "idle" =>
        /\ wmsg[w] \in Messages
        /\ status[wmsg[w].job] # "none"
        /\ wrun[w] \in Nat \ {0}

\* A request under way is about a resume, and the job it took is one of that
\* resume's rows.
KnownJob ==
    \A q \in Requesters :
        /\ qpc[q] # "idle" => qres[q] \in Resumes
        /\ qpc[q] \in {"requeue", "clear", "send", "uploadSend"} =>
              qjob[q] \in Jobs /\ status[qjob[q]] # "none" /\ owner[qjob[q]] = qres[q]

References == JobOwned /\ KnownMessages /\ HeldMessage /\ KnownJob
IInv == TypeOK /\ References

-----------------------------------------------------------------------------
\* The empty tables satisfy the invariant.
LEMMA InitIInv == Init => IInv
  <1> SUFFICES ASSUME Init PROVE IInv
    OBVIOUS
  <1>1. TypeOK
    BY QueueAssumption DEF Init, TypeOK, JobStatus, ParseStatus, TextState, Snapshot,
       NoSnapshot, Holding, Processing, CheckPoints, WritePoints, RequestPoints, NoEval
  <1>2. References
    BY DEF Init, References, JobOwned, KnownMessages, HeldMessage, KnownJob
  <1> QED BY <1>1, <1>2 DEF IInv

-----------------------------------------------------------------------------
\* What the helpers of the invocations do to the types.
LEMMA EnqueueType ==
  ASSUME queue \in [Messages -> Nat], NEW m \in Messages, Enqueue(m)
  PROVE  queue' \in [Messages -> Nat]
  BY DEF Enqueue

\* A redelivered copy has one more try, never more than MaxTries.
LEMMA RedeliverType ==
  ASSUME queue \in [Messages -> Nat], NEW m \in Messages, Redeliver(m)
  PROVE  queue' \in [Messages -> Nat]
  <1>1. CASE m.tries < MaxTries
    <2> DEFINE n == [m EXCEPT !.tries = @ + 1]
    <2>1. n \in Messages
      BY <1>1, QueueAssumption DEF Messages
    <2>2. Enqueue(n)
      BY <1>1 DEF Redeliver
    <2> QED BY <2>1, <2>2, EnqueueType
  <1>2. CASE ~(m.tries < MaxTries)
    BY <1>2 DEF Redeliver
  <1> QED BY <1>1, <1>2

\* An invocation that forgets its message is idle again.
LEMMA ReleaseType ==
  ASSUME TypeOK, NEW w \in Workers, Release(w)
  PROVE  /\ wpc' \in [Workers -> {"idle"} \cup Holding]
         /\ wmsg' \in [Workers -> Messages \cup {Idle}]
         /\ wrun' \in [Workers -> Nat]
         /\ wsnap' \in [Workers -> Snapshot]
  BY DEF TypeOK, Release, Forget, NoSnapshot, Snapshot, TextState

\* The steps of an invocation keep every variable in its range.
LEMMA WorkerType ==
  ASSUME IInv, NEW w \in Workers, WorkerStep(w)
  PROVE  TypeOK'
  <1>1. CASE Load(w)
    <2> DEFINE found == evalBy[Resume(w)] # NoEval
               snap == [evaluated |-> found, text |-> text[Resume(w)]]
    <2>1. found \in BOOLEAN
      OBVIOUS
    <2>2. Resume(w) \in Resumes
      BY <1>1 DEF Load, IInv, References, HeldMessage, JobOwned, Messages,
         Resume, Job
    <2>3. text[Resume(w)] \in TextState
      BY <2>2 DEF IInv, TypeOK
    <2>4. snap \in Snapshot
      <3> HIDE DEF found
      <3> QED BY <2>1, <2>3 DEF Snapshot
    <2>5. wsnap' = [wsnap EXCEPT ![w] = snap]
      BY <1>1 DEF Load
    <2>6. wsnap' \in [Workers -> Snapshot]
      <3> HIDE DEF snap
      <3> QED BY <2>4, <2>5 DEF IInv, TypeOK
    <2> QED
      BY <1>1, <2>6 DEF IInv, TypeOK, Load, Heartbeat, Touch, Goto, Holding,
         Processing, resumeVars, requestVars, recoveryVars, stopVars, boundVars
  <1>2. CASE GetText(w)
    <2>1. wpc' \in [Workers -> {"idle"} \cup Holding]
      BY <1>2 DEF IInv, TypeOK, GetText, UseText, StartOcr, OcrDone, OcrPending,
         Goto, Holding, Processing, CheckPoints
    <2>2. text' \in [Resumes -> TextState]
      BY <1>2 DEF IInv, TypeOK, GetText, UseText, StartOcr, OcrDone, OcrPending,
         TextState
    <2>3. wsnap' = [wsnap EXCEPT ![w] = NoSnapshot]
             \/ wsnap' = [wsnap EXCEPT ![w].text = "none"]
      BY <1>2 DEF GetText, UseText, StartOcr, OcrDone, OcrPending, Forget
    <2>4. NoSnapshot \in Snapshot /\ [wsnap[w] EXCEPT !.text = "none"] \in Snapshot
      BY DEF IInv, TypeOK, NoSnapshot, Snapshot, TextState
    <2>5. wsnap' \in [Workers -> Snapshot]
      BY <2>3, <2>4 DEF IInv, TypeOK
    <2> QED
      BY <1>2, <2>1, <2>2, <2>5 DEF IInv, TypeOK, GetText, jobVars, requestVars,
         recoveryVars, stopVars, boundVars
  <1>3. CASE CheckRunning(w)
    BY <1>3 DEF TypeOK, CheckRunning, Goto, WriteAfter, CheckPoints,
       Holding, Processing, WritePoints, IInv, References, HeldMessage,
       JobOwned, Job, Resume, Messages, jobVars, resumeVars, workerVars,
       requestVars, recoveryVars, stopVars, boundVars
  <1>4. CASE StopQuietly(w)
    BY <1>4, ReleaseType DEF TypeOK, StopQuietly, Holding, Processing,
       WritePoints, CheckPoints, IInv, References, HeldMessage, JobOwned,
       Job, Resume, Messages, jobVars, resumeVars, workerVars, requestVars,
       recoveryVars, stopVars, boundVars
  <1>5. CASE WriteText(w)
    BY <1>5 DEF TypeOK, WriteText, WriteParse, Goto, ScreenOrFinish,
       ParseStatus, Holding, Processing, WritePoints, CheckPoints, IInv,
       References, HeldMessage, JobOwned, Job, Resume, Messages, jobVars,
       resumeVars, workerVars, requestVars, recoveryVars, stopVars,
       boundVars
  <1>6. CASE CallAI(w)
    BY <1>6 DEF TypeOK, CallAI, Touch, Heartbeat, Goto, Holding, Processing,
       WritePoints, CheckPoints, IInv, References, HeldMessage, JobOwned,
       Job, Resume, Messages, jobVars, resumeVars, workerVars, requestVars,
       recoveryVars, stopVars, boundVars
  <1>7. CASE WriteFields(w)
    BY <1>7 DEF TypeOK, WriteFields, WriteParse, Goto, ScreenOrFinish,
       ParseStatus, Holding, Processing, WritePoints, CheckPoints, IInv,
       References, HeldMessage, JobOwned, Job, Resume, Messages, jobVars,
       resumeVars, workerVars, requestVars, recoveryVars, stopVars,
       boundVars
  <1>8. CASE WriteScreen(w)
    BY <1>8 DEF TypeOK, WriteScreen, WriteEval, Goto, Job, Claims, Messages,
       Holding, Processing, WritePoints, CheckPoints, IInv, References,
       HeldMessage, JobOwned, Resume, jobVars, resumeVars, workerVars,
       requestVars, recoveryVars, stopVars, boundVars
  <1>9. CASE WriteResult(w)
    BY <1>9 DEF TypeOK, WriteResult, WriteEval, WriteParse, Goto, Job,
       Claims, Messages, ParseStatus, Holding, Processing, WritePoints,
       CheckPoints, IInv, References, HeldMessage, JobOwned, Resume,
       jobVars, resumeVars, workerVars, requestVars, recoveryVars, stopVars,
       boundVars
  <1>10. CASE WriteDone(w)
    BY <1>10 DEF TypeOK, WriteDone, WriteParse, Goto, ParseStatus, Holding,
       Processing, WritePoints, CheckPoints, IInv, References, HeldMessage,
       JobOwned, Job, Resume, Messages, jobVars, resumeVars, workerVars,
       requestVars, recoveryVars, stopVars, boundVars
  <1>11. CASE Notify(w)
    BY <1>11 DEF TypeOK, Notify, Goto, Holding, Processing, WritePoints,
       CheckPoints, IInv, References, HeldMessage, JobOwned, Job, Resume,
       Messages, jobVars, resumeVars, workerVars, requestVars, recoveryVars,
       stopVars, boundVars
  <1>12. CASE Complete(w)
    BY <1>12 DEF TypeOK, Complete, MoveIfRunning, Touch, Goto, JobStatus,
       Holding, Processing, WritePoints, CheckPoints, IInv, References,
       HeldMessage, JobOwned, Job, Resume, Messages, jobVars, resumeVars,
       workerVars, requestVars, recoveryVars, stopVars, boundVars
  <1>13. CASE ResetJob(w)
    BY <1>13 DEF TypeOK, ResetJob, MoveIfRunning, Touch, Goto, JobStatus,
       Holding, Processing, WritePoints, CheckPoints, IInv, References,
       HeldMessage, JobOwned, Job, Resume, Messages, jobVars, resumeVars,
       workerVars, requestVars, recoveryVars, stopVars, boundVars
  <1>14. CASE Retry(w)
    BY <1>14, ReleaseType, RedeliverType DEF TypeOK, Retry, Holding,
       Processing, WritePoints, CheckPoints, IInv, References, HeldMessage,
       JobOwned, Job, Resume, Messages, jobVars, resumeVars, workerVars,
       requestVars, recoveryVars, stopVars, boundVars
  <1>15. CASE FailJob(w)
    BY <1>15 DEF TypeOK, FailJob, Touch, Goto, JobStatus, Holding,
       Processing, WritePoints, CheckPoints, IInv, References, HeldMessage,
       JobOwned, Job, Resume, Messages, jobVars, resumeVars, workerVars,
       requestVars, recoveryVars, stopVars, boundVars
  <1>16. CASE FailResume(w)
    BY <1>16 DEF TypeOK, FailResume, WriteParse, Goto, ParseStatus, Holding,
       Processing, WritePoints, CheckPoints, IInv, References, HeldMessage,
       JobOwned, Job, Resume, Messages, jobVars, resumeVars, workerVars,
       requestVars, recoveryVars, stopVars, boundVars
  <1>17. CASE Ack(w)
    BY <1>17, ReleaseType DEF TypeOK, Ack, Holding, Processing, WritePoints,
       CheckPoints, IInv, References, HeldMessage, JobOwned, Job, Resume,
       Messages, jobVars, resumeVars, workerVars, requestVars, recoveryVars,
       stopVars, boundVars
  <1> QED BY <1>1, <1>2, <1>3, <1>4, <1>5, <1>6, <1>7, <1>8, <1>9, <1>10, <1>11, <1>12, <1>13, <1>14, <1>15, <1>16, <1>17 DEF WorkerStep

\* So do the steps of a request,
LEMMA RequestType ==
  ASSUME IInv, NEW q \in Requesters, RequestStep(q)
  PROVE  TypeOK'
  <1>1. CASE PickJob(q)
    BY <1>1 DEF PickJob, Proceed, FailedJobs, TypeOK, RequestPoints, IInv,
       References, KnownJob, jobVars, resumeVars, workerVars, requestVars,
       recoveryVars, stopVars, boundVars
  <1>2. CASE RequeueFailed(q)
    BY <1>2 DEF RequeueFailed, Proceed, JobStatus, TypeOK, RequestPoints,
       IInv, References, KnownJob, jobVars, resumeVars, workerVars,
       requestVars, recoveryVars, stopVars, boundVars
  <1>3. CASE RequeueLost(q)
    BY <1>3 DEF RequeueLost, Answer, TypeOK, RequestPoints, IInv, References,
       KnownJob, jobVars, resumeVars, workerVars, requestVars, recoveryVars,
       stopVars, boundVars
  <1>4. CASE \E j \in Jobs : InsertNew(q, j)
    BY <1>4 DEF InsertNew, InsertJob, Proceed, JobStatus, TypeOK,
       RequestPoints, IInv, References, KnownJob, jobVars, resumeVars,
       workerVars, requestVars, recoveryVars, stopVars, boundVars
  <1>5. CASE InsertIgnored(q)
    BY <1>5 DEF InsertIgnored, Answer, TypeOK, RequestPoints, IInv,
       References, KnownJob, jobVars, resumeVars, workerVars, requestVars,
       recoveryVars, stopVars, boundVars
  <1>6. CASE ClearResume(q)
    BY <1>6 DEF ClearResume, Proceed, ParseStatus, TypeOK, RequestPoints,
       IInv, References, KnownJob, jobVars, resumeVars, workerVars,
       requestVars, recoveryVars, stopVars, boundVars
  <1>7. CASE Send(q)
    <2> DEFINE m == [job |-> qjob[q], reprocess |-> TRUE, tries |-> 0]
    <2>1. m \in Messages
      BY <1>7, QueueAssumption DEF Send, IInv, References, KnownJob, Messages
    <2>2. queue' \in [Messages -> Nat]
      <3> HIDE DEF m
      <3>1. Enqueue(m)
        BY <1>7 DEF Send, m
      <3> QED BY <2>1, <3>1, EnqueueType DEF IInv, TypeOK
    <2> QED
      BY <1>7, <2>2 DEF Send, Answer, IInv, TypeOK, jobVars, resumeVars,
         workerVars, recoveryVars, stopVars, boundVars
  <1>8. CASE SendFailed(q)
    BY <1>8 DEF SendFailed, Answer, JobStatus, TypeOK, RequestPoints, IInv,
       References, KnownJob, jobVars, resumeVars, workerVars, requestVars,
       recoveryVars, stopVars, boundVars
  <1>9. CASE UploadInsert(q)
    BY <1>9 DEF UploadInsert, InsertJob, Proceed, JobStatus, TypeOK,
       RequestPoints, IInv, References, KnownJob, jobVars, resumeVars,
       workerVars, requestVars, recoveryVars, stopVars, boundVars
  <1>10. CASE UploadSelect(q)
    BY <1>10 DEF UploadSelect, Answer, ActiveJobs, Proceed, TypeOK,
       RequestPoints, IInv, References, KnownJob, jobVars, resumeVars,
       workerVars, requestVars, recoveryVars, stopVars, boundVars
  <1>11. CASE UploadSend(q)
    <2> DEFINE m == [job |-> qjob[q], reprocess |-> FALSE, tries |-> 0]
    <2>1. m \in Messages
      BY <1>11, QueueAssumption DEF UploadSend, IInv, References, KnownJob, Messages
    <2>2. queue' \in [Messages -> Nat]
      <3> HIDE DEF m
      <3>1. Enqueue(m)
        BY <1>11 DEF UploadSend, m
      <3> QED BY <2>1, <3>1, EnqueueType DEF IInv, TypeOK
    <2> QED
      BY <1>11, <2>2 DEF UploadSend, Answer, IInv, TypeOK, jobVars, resumeVars,
         workerVars, recoveryVars, stopVars, boundVars
  <1>12. CASE UploadSendFailed(q)
    BY <1>12 DEF UploadSendFailed, Answer, TypeOK, RequestPoints, IInv,
       References, KnownJob, jobVars, resumeVars, workerVars, requestVars,
       recoveryVars, stopVars, boundVars
  <1> QED BY <1>1, <1>2, <1>3, <1>4, <1>5, <1>6, <1>7, <1>8, <1>9, <1>10, <1>11, <1>12 DEF RequestStep

\* those of the stale-job recovery,
LEMMA RecoveryType ==
  ASSUME IInv, RecoveryStep
  PROVE  TypeOK'
  <1>1. CASE Scan
    <2> DEFINE row(j) == [job |-> j, done |-> HasResult(owner[j])]
    <2>1. \A j \in Jobs : row(j) \in [job : Jobs, done : BOOLEAN]
      <3> SUFFICES ASSUME NEW j \in Jobs PROVE row(j) \in [job : Jobs, done : BOOLEAN]
        OBVIOUS
      <3> DEFINE done == HasResult(owner[j])
      <3>1. done \in BOOLEAN
        BY DEF HasResult
      <3> HIDE DEF done
      <3>2. [job |-> j, done |-> done] \in [job : Jobs, done : BOOLEAN]
        BY <3>1
      <3> QED BY <3>2 DEF done
    <2>2. prows' = {row(j) : j \in {k \in Jobs : Stale(k)}}
      BY <1>1 DEF Scan
    <2>3. prows' \in SUBSET [job : Jobs, done : BOOLEAN]
      <3> HIDE DEF row
      <3> QED BY <2>1, <2>2
    <2> QED
      BY <1>1, <2>3 DEF Scan, TypeOK, IInv, jobVars, resumeVars, workerVars,
         requestVars, stopVars, boundVars
  <1>2. CASE FailStaleResume
    BY <1>2 DEF FailStaleResume, ParseStatus, TypeOK, IInv, References,
       JobOwned, Stale, jobVars, resumeVars, workerVars, requestVars,
       recoveryVars, stopVars, boundVars
  <1>3. CASE \E row \in [job : Jobs, done : BOOLEAN] : FinishStale(row)
    BY <1>3 DEF FinishStale, NextRows, Touch, JobStatus, TypeOK, IInv,
       References, JobOwned, Stale, jobVars, resumeVars, workerVars,
       requestVars, recoveryVars, stopVars, boundVars
  <1>4. CASE \E row \in [job : Jobs, done : BOOLEAN] : FailStale(row)
    BY <1>4 DEF FailStale, Touch, JobStatus, TypeOK, IInv, References,
       JobOwned, Stale, jobVars, resumeVars, workerVars, requestVars,
       recoveryVars, stopVars, boundVars
  <1>5. CASE \E row \in [job : Jobs, done : BOOLEAN] : SkipRecovered(row)
    BY <1>5 DEF SkipRecovered, NextRows, TypeOK, IInv, References, JobOwned,
       Stale, jobVars, resumeVars, workerVars, requestVars, recoveryVars,
       stopVars, boundVars
  <1> QED BY <1>1, <1>2, <1>3, <1>4, <1>5 DEF RecoveryStep

\* and the steps that start, deliver, duplicate, fail, lapse or stop.
LEMMA OtherType ==
  ASSUME IInv, Next,
         ~\E w \in Workers : WorkerStep(w),
         ~\E q \in Requesters : RequestStep(q),
         ~RecoveryStep
  PROVE  TypeOK'
  <1>1. CASE \E w \in Workers, m \in Messages : Claim(w, m)
    <2> SUFFICES ASSUME NEW w \in Workers, NEW m \in Messages, Claim(w, m)
                 PROVE  TypeOK'
      BY <1>1
    <2>1. m.job \in Jobs
      BY DEF Messages
    <2>2. queue' \in [Messages -> Nat]
      BY DEF Claim, IInv, TypeOK
    <2>3. /\ status' \in [Jobs -> JobStatus]
          /\ attempt' \in [Jobs -> Nat]
          /\ expired' \in [Jobs -> BOOLEAN]
      BY <2>1 DEF Claim, IInv, TypeOK, Touch, JobStatus
    <2>4. /\ wpc' \in [Workers -> {"idle"} \cup Holding]
          /\ wmsg' \in [Workers -> Messages \cup {Idle}]
          /\ wrun' \in [Workers -> Nat]
      BY <2>1 DEF Claim, IInv, TypeOK, Holding, Processing
    <2> QED
      BY <2>2, <2>3, <2>4 DEF Claim, IInv, TypeOK, resumeVars, requestVars,
         recoveryVars, stopVars, boundVars
  <1>2. CASE \E w \in Workers, m \in Messages : SkipUnclaimable(w, m)
    BY <1>2 DEF SkipUnclaimable, TypeOK, IInv, jobVars, resumeVars,
       workerVars, requestVars, recoveryVars, stopVars, boundVars
  <1>3. CASE \E w \in Workers : Raise(w)
    BY <1>3 DEF Raise, Goto, Forget, NoSnapshot, Snapshot, TextState, Holding,
       Processing, WritePoints, CheckPoints, TypeOK, IInv, jobVars,
       resumeVars, workerVars, requestVars, recoveryVars, stopVars, boundVars
  <1>4. CASE \E w \in Workers : Crash(w)
    BY <1>4, ReleaseType, RedeliverType, QueueAssumption DEF Crash,
       HeldMessage, References, TypeOK, IInv, jobVars, resumeVars, workerVars,
       requestVars, recoveryVars, stopVars, boundVars
  <1>5. CASE \E q \in Requesters : CrashRequest(q)
    BY <1>5, QueueAssumption DEF CrashRequest, Answer, TypeOK, IInv, jobVars,
       resumeVars, workerVars, requestVars, recoveryVars, stopVars, boundVars
  <1>6. CASE \E q \in Requesters, r \in Resumes : StartReprocess(q, r)
    BY <1>6, QueueAssumption DEF StartReprocess, Proceed, RequestPoints,
       TypeOK, IInv, jobVars, resumeVars, workerVars, requestVars,
       recoveryVars, stopVars, boundVars
  <1>7. CASE \E q \in Requesters, r \in Resumes : StartUpload(q, r)
    BY <1>7, QueueAssumption DEF StartUpload, Proceed, RequestPoints,
       ParseStatus, TypeOK, IInv, jobVars, resumeVars, workerVars,
       requestVars, recoveryVars, stopVars, boundVars
  <1>8. CASE \E m \in Messages : Duplicate(m)
    BY <1>8, EnqueueType, QueueAssumption DEF Duplicate, TypeOK, IInv,
       jobVars, resumeVars, workerVars, requestVars, recoveryVars, stopVars,
       boundVars
  <1>9. CASE \E j \in Jobs : Lapse(j)
    BY <1>9 DEF Lapse, TypeOK, IInv, jobVars, resumeVars, workerVars,
       requestVars, recoveryVars, stopVars, boundVars
  <1>10. CASE \E B \in SUBSET Resumes \ {{}} : StopJobs(B)
    BY <1>10, QueueAssumption DEF StopJobs, JobStatus, TypeOK, IInv, jobVars,
       resumeVars, workerVars, requestVars, recoveryVars, stopVars, boundVars
  <1>11. CASE StopStep
    BY <1>11 DEF StopStep, StopResumes, ParseStatus, TypeOK, IInv, jobVars,
       resumeVars, workerVars, requestVars, recoveryVars, stopVars, boundVars
  <1> QED BY <1>1, <1>2, <1>3, <1>4, <1>5, <1>6, <1>7, <1>8, <1>9, <1>10, <1>11 DEF Next, Deliver

-----------------------------------------------------------------------------
\* An invocation creates no row and sends only copies of its own message.
LEMMA WorkerReferences ==
  ASSUME IInv, NEW w \in Workers, WorkerStep(w)
  PROVE  References'
  <1>1. CASE Load(w)
    BY <1>1 DEF Load, Touch, Heartbeat, Goto, IInv, TypeOK, References,
       JobOwned, KnownMessages, HeldMessage, KnownJob, jobVars, resumeVars,
       workerVars, requestVars, recoveryVars, stopVars, boundVars
  <1>2. CASE GetText(w)
    BY <1>2 DEF GetText, UseText, StartOcr, OcrDone, OcrPending, Goto, IInv,
       TypeOK, References, JobOwned, KnownMessages, HeldMessage, KnownJob,
       jobVars, resumeVars, workerVars, requestVars, recoveryVars, stopVars,
       boundVars
  <1>3. CASE CheckRunning(w)
    BY <1>3 DEF CheckRunning, CheckPoints, Goto, IInv, TypeOK, References, JobOwned,
       KnownMessages, HeldMessage, KnownJob, jobVars, resumeVars, workerVars,
       requestVars, recoveryVars, stopVars, boundVars
  <1>4. CASE StopQuietly(w)
    BY <1>4 DEF StopQuietly, Release, IInv, TypeOK, References, JobOwned,
       KnownMessages, HeldMessage, KnownJob, jobVars, resumeVars, workerVars,
       requestVars, recoveryVars, stopVars, boundVars
  <1>5. CASE WriteText(w)
    BY <1>5 DEF WriteText, Goto, IInv, TypeOK, References, JobOwned,
       KnownMessages, HeldMessage, KnownJob, jobVars, resumeVars, workerVars,
       requestVars, recoveryVars, stopVars, boundVars
  <1>6. CASE CallAI(w)
    BY <1>6 DEF CallAI, Touch, Heartbeat, Goto, IInv, TypeOK, References,
       JobOwned, KnownMessages, HeldMessage, KnownJob, jobVars, resumeVars,
       workerVars, requestVars, recoveryVars, stopVars, boundVars
  <1>7. CASE WriteFields(w)
    BY <1>7 DEF WriteFields, Goto, IInv, TypeOK, References, JobOwned,
       KnownMessages, HeldMessage, KnownJob, jobVars, resumeVars, workerVars,
       requestVars, recoveryVars, stopVars, boundVars
  <1>8. CASE WriteScreen(w)
    BY <1>8 DEF WriteScreen, Goto, IInv, TypeOK, References, JobOwned,
       KnownMessages, HeldMessage, KnownJob, jobVars, resumeVars, workerVars,
       requestVars, recoveryVars, stopVars, boundVars
  <1>9. CASE WriteResult(w)
    BY <1>9 DEF WriteResult, Goto, IInv, TypeOK, References, JobOwned,
       KnownMessages, HeldMessage, KnownJob, jobVars, resumeVars, workerVars,
       requestVars, recoveryVars, stopVars, boundVars
  <1>10. CASE WriteDone(w)
    BY <1>10 DEF WriteDone, Goto, IInv, TypeOK, References, JobOwned,
       KnownMessages, HeldMessage, KnownJob, jobVars, resumeVars, workerVars,
       requestVars, recoveryVars, stopVars, boundVars
  <1>11. CASE Notify(w)
    BY <1>11 DEF Notify, Goto, IInv, TypeOK, References, JobOwned,
       KnownMessages, HeldMessage, KnownJob, jobVars, resumeVars, workerVars,
       requestVars, recoveryVars, stopVars, boundVars
  <1>12. CASE Complete(w)
    BY <1>12 DEF Complete, MoveIfRunning, Touch, Goto, Job, Messages,
       JobStatus, IInv, TypeOK, References, JobOwned, KnownMessages,
       HeldMessage, KnownJob, jobVars, resumeVars, workerVars, requestVars,
       recoveryVars, stopVars, boundVars
  <1>13. CASE ResetJob(w)
    BY <1>13 DEF ResetJob, MoveIfRunning, Touch, Goto, Job, Messages,
       JobStatus, IInv, TypeOK, References, JobOwned, KnownMessages,
       HeldMessage, KnownJob, jobVars, resumeVars, workerVars, requestVars,
       recoveryVars, stopVars, boundVars
  <1>14. CASE Retry(w)
    BY <1>14 DEF Retry, Release, Redeliver, Enqueue, Messages, IInv, TypeOK,
       References, JobOwned, KnownMessages, HeldMessage, KnownJob, jobVars,
       resumeVars, workerVars, requestVars, recoveryVars, stopVars, boundVars
  <1>15. CASE FailJob(w)
    BY <1>15 DEF FailJob, Touch, Goto, Job, Messages, JobStatus, IInv, TypeOK,
       References, JobOwned, KnownMessages, HeldMessage, KnownJob, jobVars,
       resumeVars, workerVars, requestVars, recoveryVars, stopVars, boundVars
  <1>16. CASE FailResume(w)
    BY <1>16 DEF FailResume, Goto, IInv, TypeOK, References, JobOwned,
       KnownMessages, HeldMessage, KnownJob, jobVars, resumeVars, workerVars,
       requestVars, recoveryVars, stopVars, boundVars
  <1>17. CASE Ack(w)
    BY <1>17 DEF Ack, Release, IInv, TypeOK, References, JobOwned,
       KnownMessages, HeldMessage, KnownJob, jobVars, resumeVars, workerVars,
       requestVars, recoveryVars, stopVars, boundVars
  <1> QED BY <1>1, <1>2, <1>3, <1>4, <1>5, <1>6, <1>7, <1>8, <1>9, <1>10, <1>11, <1>12, <1>13, <1>14, <1>15, <1>16, <1>17 DEF WorkerStep

\* A request sends a message only for the row it took, which exists by then.
LEMMA RequestReferences ==
  ASSUME IInv, NEW q \in Requesters, RequestStep(q)
  PROVE  References'
  <1>1. CASE PickJob(q)
    BY <1>1 DEF PickJob, Proceed, FailedJobs, ActiveJobs, ActiveStatus, IInv,
       TypeOK, References, JobOwned, KnownMessages, HeldMessage, KnownJob,
       jobVars, resumeVars, workerVars, requestVars, recoveryVars, stopVars,
       boundVars, RequestPoints
  <1>2. CASE RequeueFailed(q)
    BY <1>2 DEF RequeueFailed, Proceed, JobStatus, ActiveJobs, ActiveStatus,
       FailedJobs, IInv, TypeOK, References, JobOwned, KnownMessages,
       HeldMessage, KnownJob, jobVars, resumeVars, workerVars, requestVars,
       recoveryVars, stopVars, boundVars, RequestPoints
  <1>3. CASE RequeueLost(q)
    BY <1>3 DEF RequeueLost, Answer, ActiveJobs, ActiveStatus, FailedJobs,
       IInv, TypeOK, References, JobOwned, KnownMessages, HeldMessage,
       KnownJob, jobVars, resumeVars, workerVars, requestVars, recoveryVars,
       stopVars, boundVars, RequestPoints
  <1>4. CASE \E j \in Jobs : InsertNew(q, j)
    BY <1>4 DEF InsertNew, InsertJob, Proceed, JobStatus, ActiveJobs,
       ActiveStatus, FailedJobs, IInv, TypeOK, References, JobOwned,
       KnownMessages, HeldMessage, KnownJob, jobVars, resumeVars, workerVars,
       requestVars, recoveryVars, stopVars, boundVars, RequestPoints
  <1>5. CASE InsertIgnored(q)
    BY <1>5 DEF InsertIgnored, Answer, ActiveJobs, ActiveStatus, FailedJobs,
       IInv, TypeOK, References, JobOwned, KnownMessages, HeldMessage,
       KnownJob, jobVars, resumeVars, workerVars, requestVars, recoveryVars,
       stopVars, boundVars, RequestPoints
  <1>6. CASE ClearResume(q)
    BY <1>6 DEF ClearResume, Proceed, ParseStatus, ActiveJobs, ActiveStatus,
       FailedJobs, IInv, TypeOK, References, JobOwned, KnownMessages,
       HeldMessage, KnownJob, jobVars, resumeVars, workerVars, requestVars,
       recoveryVars, stopVars, boundVars, RequestPoints
  <1>7. CASE Send(q)
    BY <1>7 DEF Send, Answer, Messages, Enqueue, ActiveJobs, ActiveStatus,
       FailedJobs, IInv, TypeOK, References, JobOwned, KnownMessages,
       HeldMessage, KnownJob, jobVars, resumeVars, workerVars, requestVars,
       recoveryVars, stopVars, boundVars, RequestPoints
  <1>8. CASE SendFailed(q)
    BY <1>8 DEF SendFailed, Answer, JobStatus, ActiveJobs, ActiveStatus,
       FailedJobs, IInv, TypeOK, References, JobOwned, KnownMessages,
       HeldMessage, KnownJob, jobVars, resumeVars, workerVars, requestVars,
       recoveryVars, stopVars, boundVars, RequestPoints
  <1>9. CASE UploadInsert(q)
    <2>1. qres[q] \in Resumes
      BY <1>9 DEF UploadInsert, IInv, References, KnownJob
    <2>2. /\ UNCHANGED <<queue, wpc, wmsg, wrun, qres, qjob>>
          /\ qpc' = [qpc EXCEPT ![q] = "uploadSelect"]
      BY <1>9 DEF UploadInsert, Proceed, workerVars
    <2>3. CASE UNCHANGED <<status, owner>>
      BY <2>1, <2>2, <2>3 DEF IInv, TypeOK, References, JobOwned, KnownMessages,
         HeldMessage, KnownJob
    <2>4. CASE \E j \in Jobs : InsertJob(j, qres[q])
      <3>1. PICK j \in Jobs : InsertJob(j, qres[q])
        BY <2>4
      <3>2. /\ status[j] = "none"
            /\ status' = [status EXCEPT ![j] = "queued"]
            /\ owner' = [owner EXCEPT ![j] = qres[q]]
        BY <3>1 DEF InsertJob
      <3>3. JobOwned'
        BY <2>1, <3>2 DEF IInv, TypeOK, References, JobOwned
      <3>4. KnownMessages' /\ HeldMessage'
        BY <2>2, <3>2 DEF IInv, TypeOK, References, KnownMessages, HeldMessage,
           Messages
      <3>5. KnownJob'
        BY <2>1, <2>2, <3>2 DEF IInv, TypeOK, References, KnownJob
      <3> QED BY <3>3, <3>4, <3>5 DEF References
    <2> QED BY <1>9, <2>3, <2>4 DEF UploadInsert
  <1>10. CASE UploadSelect(q)
    BY <1>10 DEF UploadSelect, Answer, ActiveJobs, Proceed, ActiveStatus,
       FailedJobs, IInv, TypeOK, References, JobOwned, KnownMessages,
       HeldMessage, KnownJob, jobVars, resumeVars, workerVars, requestVars,
       recoveryVars, stopVars, boundVars, RequestPoints
  <1>11. CASE UploadSend(q)
    BY <1>11 DEF UploadSend, Answer, Messages, Enqueue, ActiveJobs,
       ActiveStatus, FailedJobs, IInv, TypeOK, References, JobOwned,
       KnownMessages, HeldMessage, KnownJob, jobVars, resumeVars, workerVars,
       requestVars, recoveryVars, stopVars, boundVars, RequestPoints
  <1>12. CASE UploadSendFailed(q)
    BY <1>12 DEF UploadSendFailed, Answer, ActiveJobs, ActiveStatus,
       FailedJobs, IInv, TypeOK, References, JobOwned, KnownMessages,
       HeldMessage, KnownJob, jobVars, resumeVars, workerVars, requestVars,
       recoveryVars, stopVars, boundVars, RequestPoints
  <1> QED BY <1>1, <1>2, <1>3, <1>4, <1>5, <1>6, <1>7, <1>8, <1>9, <1>10, <1>11, <1>12 DEF RequestStep

\* The recovery changes the status of rows that exist.
LEMMA RecoveryReferences ==
  ASSUME IInv, RecoveryStep
  PROVE  References'
  <1>1. CASE Scan
    BY <1>1 DEF Scan, IInv, TypeOK, References, JobOwned, KnownMessages,
       HeldMessage, KnownJob, jobVars, resumeVars, workerVars, requestVars,
       recoveryVars, stopVars, boundVars, Stale
  <1>2. CASE FailStaleResume
    BY <1>2 DEF FailStaleResume, ParseStatus, IInv, TypeOK, References,
       JobOwned, KnownMessages, HeldMessage, KnownJob, jobVars, resumeVars,
       workerVars, requestVars, recoveryVars, stopVars, boundVars, Stale
  <1>3. CASE \E row \in [job : Jobs, done : BOOLEAN] : FinishStale(row)
    BY <1>3 DEF FinishStale, NextRows, Touch, JobStatus, IInv, TypeOK,
       References, JobOwned, KnownMessages, HeldMessage, KnownJob, jobVars,
       resumeVars, workerVars, requestVars, recoveryVars, stopVars, boundVars,
       Stale
  <1>4. CASE \E row \in [job : Jobs, done : BOOLEAN] : FailStale(row)
    BY <1>4 DEF FailStale, Touch, JobStatus, IInv, TypeOK, References,
       JobOwned, KnownMessages, HeldMessage, KnownJob, jobVars, resumeVars,
       workerVars, requestVars, recoveryVars, stopVars, boundVars, Stale
  <1>5. CASE \E row \in [job : Jobs, done : BOOLEAN] : SkipRecovered(row)
    BY <1>5 DEF SkipRecovered, NextRows, IInv, TypeOK, References, JobOwned,
       KnownMessages, HeldMessage, KnownJob, jobVars, resumeVars, workerVars,
       requestVars, recoveryVars, stopVars, boundVars, Stale
  <1> QED BY <1>1, <1>2, <1>3, <1>4, <1>5 DEF RecoveryStep

\* A claim holds the message it was delivered, and a stop cancels rows that
\* exist.
LEMMA OtherReferences ==
  ASSUME IInv, Next,
         ~\E w \in Workers : WorkerStep(w),
         ~\E q \in Requesters : RequestStep(q),
         ~RecoveryStep
  PROVE  References'
  <1>1. CASE \E w \in Workers, m \in Messages : Claim(w, m)
    BY <1>1 DEF Claim, Messages, IInv, TypeOK, References, JobOwned,
       KnownMessages, HeldMessage, KnownJob, jobVars, resumeVars, workerVars,
       requestVars, recoveryVars, stopVars, boundVars
  <1>2. CASE \E w \in Workers, m \in Messages : SkipUnclaimable(w, m)
    BY <1>2 DEF SkipUnclaimable, IInv, TypeOK, References, JobOwned,
       KnownMessages, HeldMessage, KnownJob, jobVars, resumeVars, workerVars,
       requestVars, recoveryVars, stopVars, boundVars
  <1>3. CASE \E w \in Workers : Raise(w)
    BY <1>3 DEF Raise, Goto, Processing,
       CheckPoints, WritePoints, IInv, TypeOK, References, JobOwned,
       KnownMessages, HeldMessage, KnownJob, jobVars, resumeVars, workerVars,
       requestVars, recoveryVars, stopVars, boundVars
  <1>4. CASE \E w \in Workers : Crash(w)
    BY <1>4 DEF Crash, Release, Redeliver, Enqueue, Messages, IInv, TypeOK,
       References, JobOwned, KnownMessages, HeldMessage, KnownJob, jobVars,
       resumeVars, workerVars, requestVars, recoveryVars, stopVars, boundVars
  <1>5. CASE \E q \in Requesters : CrashRequest(q)
    BY <1>5 DEF CrashRequest, Answer, IInv, TypeOK, References, JobOwned,
       KnownMessages, HeldMessage, KnownJob, jobVars, resumeVars, workerVars,
       requestVars, recoveryVars, stopVars, boundVars
  <1>6. CASE \E q \in Requesters, r \in Resumes : StartReprocess(q, r)
    BY <1>6 DEF StartReprocess, Proceed, IInv, TypeOK, References, JobOwned,
       KnownMessages, HeldMessage, KnownJob, jobVars, resumeVars, workerVars,
       requestVars, recoveryVars, stopVars, boundVars
  <1>7. CASE \E q \in Requesters, r \in Resumes : StartUpload(q, r)
    BY <1>7 DEF StartUpload, Proceed, IInv, TypeOK, References, JobOwned,
       KnownMessages, HeldMessage, KnownJob, jobVars, resumeVars, workerVars,
       requestVars, recoveryVars, stopVars, boundVars
  <1>8. CASE \E m \in Messages : Duplicate(m)
    BY <1>8 DEF Duplicate, Enqueue, IInv, TypeOK, References, JobOwned,
       KnownMessages, HeldMessage, KnownJob, jobVars, resumeVars, workerVars,
       requestVars, recoveryVars, stopVars, boundVars
  <1>9. CASE \E j \in Jobs : Lapse(j)
    BY <1>9 DEF Lapse, IInv, TypeOK, References, JobOwned, KnownMessages,
       HeldMessage, KnownJob, jobVars, resumeVars, workerVars, requestVars,
       recoveryVars, stopVars, boundVars
  <1>10. CASE \E B \in SUBSET Resumes \ {{}} : StopJobs(B)
    <2>1. \A j \in Jobs : status[j] # "none" <=> status'[j] # "none"
      BY <1>10 DEF StopJobs, ActiveStatus
    <2>2. UNCHANGED <<owner, queue, workerVars, requestVars>>
      BY <1>10 DEF StopJobs
    <2>3. JobOwned' /\ KnownMessages'
      BY <2>1, <2>2 DEF IInv, References, JobOwned, KnownMessages, Messages
    <2>4. HeldMessage' /\ KnownJob'
      BY <2>1, <2>2 DEF IInv, References, HeldMessage, KnownJob, Messages,
         workerVars, requestVars
    <2> QED BY <2>3, <2>4 DEF References
  <1>11. CASE StopStep
    BY <1>11 DEF StopStep, StopResumes, IInv, TypeOK, References, JobOwned,
       KnownMessages, HeldMessage, KnownJob, jobVars, resumeVars, workerVars,
       requestVars, recoveryVars, stopVars, boundVars
  <1> QED BY <1>1, <1>2, <1>3, <1>4, <1>5, <1>6, <1>7, <1>8, <1>9, <1>10, <1>11 DEF Next, Deliver

-----------------------------------------------------------------------------
\* The invariant is inductive.
LEMMA StepIInv == IInv /\ [Next]_vars => IInv'
  <1> SUFFICES ASSUME IInv, [Next]_vars PROVE IInv'
    OBVIOUS
  <1>1. CASE \E w \in Workers : WorkerStep(w)
    BY <1>1, WorkerType, WorkerReferences DEF IInv
  <1>2. CASE \E q \in Requesters : RequestStep(q)
    BY <1>2, RequestType, RequestReferences DEF IInv
  <1>3. CASE RecoveryStep
    BY <1>3, RecoveryType, RecoveryReferences DEF IInv
  <1>4. CASE /\ Next
             /\ ~\E w \in Workers : WorkerStep(w)
             /\ ~\E q \in Requesters : RequestStep(q)
             /\ ~RecoveryStep
    BY <1>4, OtherType, OtherReferences DEF IInv
  <1>5. CASE UNCHANGED vars
    BY <1>5 DEF IInv, TypeOK, References, JobOwned, KnownMessages, HeldMessage,
       KnownJob, vars, jobVars, resumeVars, workerVars, requestVars,
       recoveryVars, stopVars, boundVars
  <1> QED BY <1>1, <1>2, <1>3, <1>4, <1>5

\* Every variable keeps to its type, whatever the bounds and the options: in
\* particular no count of messages goes below zero and every evaluation names
\* a claim.
THEOREM TypeCorrect == Spec => []TypeOK
  <1>1. Init => IInv
    BY InitIInv
  <1>2. IInv /\ [Next]_vars => IInv'
    BY StepIInv
  <1>3. IInv => TypeOK
    BY DEF IInv
  <1> QED BY <1>1, <1>2, <1>3, PTL DEF Spec

-----------------------------------------------------------------------------
(* One active job per resume. *)

\* A step that activates no row keeps the rule.
LEMMA OneActiveKept ==
  ASSUME OneActiveJobPerResume,
         \A j \in Jobs : status'[j] \in ActiveStatus =>
            status[j] \in ActiveStatus /\ owner'[j] = owner[j]
  PROVE  OneActiveJobPerResume'
  BY DEF OneActiveJobPerResume

\* A step that activates one row of a resume without an active row keeps it too.
LEMMA OneActivated ==
  ASSUME OneActiveJobPerResume, NEW r, NEW i \in Jobs,
         ActiveJobs(r) = {}, owner'[i] = r,
         \A j \in Jobs \ {i} : status'[j] = status[j] /\ owner'[j] = owner[j]
  PROVE  OneActiveJobPerResume'
  BY DEF OneActiveJobPerResume, ActiveJobs

\* The request handlers: the only steps that activate a row are guarded by the
\* unique index.
LEMMA RequestOneActive ==
  ASSUME IInv, OneActiveJobPerResume, NEW q \in Requesters, RequestStep(q)
  PROVE  OneActiveJobPerResume'
  <1>1. ASSUME NEW j \in Jobs, InsertJob(j, qres[q])
        PROVE  OneActiveJobPerResume'
    BY <1>1, OneActivated DEF InsertJob, IInv, TypeOK
  <1>2. CASE RequeueFailed(q)
    <2>1. qjob[q] \in Jobs /\ owner[qjob[q]] = qres[q]
      BY <1>2 DEF RequeueFailed, IInv, References, KnownJob
    <2> QED BY <1>2, <2>1, OneActivated DEF RequeueFailed, IInv, TypeOK
  <1>3. CASE (\E j \in Jobs : InsertNew(q, j)) \/ UploadInsert(q)
    BY <1>1, <1>3, OneActiveKept DEF InsertNew, UploadInsert
  <1>4. CASE SendFailed(q)
    BY <1>4, OneActiveKept DEF SendFailed, ActiveStatus, IInv, TypeOK
  <1>5. CASE \/ PickJob(q) \/ RequeueLost(q) \/ InsertIgnored(q) \/ ClearResume(q)
             \/ Send(q) \/ UploadSelect(q) \/ UploadSend(q) \/ UploadSendFailed(q)
    BY <1>5, OneActiveKept DEF PickJob, RequeueLost, InsertIgnored, ClearResume,
       Send, UploadSelect, UploadSend, UploadSendFailed, jobVars
  <1> QED BY <1>2, <1>3, <1>4, <1>5 DEF RequestStep

\* Everybody else only moves active rows on.
LEMMA WorkerOneActive ==
  ASSUME IInv, OneActiveJobPerResume, NEW w \in Workers, WorkerStep(w)
  PROVE  OneActiveJobPerResume'
  <1>1. CASE Complete(w) \/ ResetJob(w)
    BY <1>1, OneActiveKept DEF Complete, ResetJob, MoveIfRunning, ActiveStatus, IInv,
       TypeOK
  <1>2. CASE FailJob(w)
    BY <1>2, OneActiveKept DEF FailJob, ActiveStatus, IInv, TypeOK
  <1>3. UNCHANGED <<status, owner>> \/ Complete(w) \/ ResetJob(w) \/ FailJob(w)
    BY DEF WorkerStep, Load, GetText, CheckRunning, StopQuietly, WriteText,
       CallAI, WriteFields, WriteScreen, WriteResult, WriteDone, Notify, Retry,
       FailResume, Ack, jobVars
  <1> QED BY <1>1, <1>2, <1>3, OneActiveKept

\* Deliveries, lapses, duplicates, crashes and stops activate no row: a claim
\* takes one that was queued.
LEMMA OtherOneActive ==
  ASSUME IInv, OneActiveJobPerResume, Next,
         ~\E w \in Workers : WorkerStep(w),
         ~\E q \in Requesters : RequestStep(q)
  PROVE  OneActiveJobPerResume'
  <1>1. CASE \E w \in Workers, m \in Messages : Claim(w, m)
    BY <1>1, OneActiveKept DEF Claim, ActiveStatus, IInv, TypeOK, Messages
  <1>2. CASE \E row \in [job : Jobs, done : BOOLEAN] : FinishStale(row) \/ FailStale(row)
    BY <1>2, OneActiveKept DEF FinishStale, FailStale, ActiveStatus, IInv, TypeOK
  <1>3. CASE \E B \in SUBSET Resumes \ {{}} : StopJobs(B)
    BY <1>3, OneActiveKept DEF StopJobs, ActiveStatus, IInv, TypeOK
  <1>4. \/ UNCHANGED <<status, owner>>
        \/ \E w \in Workers, m \in Messages : Claim(w, m)
        \/ \E row \in [job : Jobs, done : BOOLEAN] : FinishStale(row) \/ FailStale(row)
        \/ \E B \in SUBSET Resumes \ {{}} : StopJobs(B)
    BY DEF Next, Deliver, SkipUnclaimable, Raise, Crash, CrashRequest,
       StartReprocess, StartUpload, Duplicate, Lapse, RecoveryStep, Scan,
       FailStaleResume, SkipRecovered, StopStep, StopResumes, jobVars
  <1> QED BY <1>1, <1>2, <1>3, <1>4, OneActiveKept

\* Every step keeps the rule.
LEMMA StepOneActive ==
  IInv /\ OneActiveJobPerResume /\ [Next]_vars => OneActiveJobPerResume'
  <1>1. CASE UNCHANGED vars
    BY <1>1 DEF OneActiveJobPerResume, vars, jobVars
  <1> QED BY <1>1, WorkerOneActive, RequestOneActive, OtherOneActive

\* However many requests, uploads, retries, crashes and stops interleave, a
\* resume never has two jobs that are queued or running.
THEOREM OneActive == Spec => []OneActiveJobPerResume
  <1>1. Init => IInv /\ OneActiveJobPerResume
    BY InitIInv DEF Init, OneActiveJobPerResume, ActiveStatus
  <1>2. /\ IInv /\ OneActiveJobPerResume
        /\ [Next]_vars
        => IInv' /\ OneActiveJobPerResume'
    BY StepIInv, StepOneActive
  <1> QED BY <1>1, <1>2, PTL DEF Spec

-----------------------------------------------------------------------------
(***************************************************************************)
(* While leases are kept: one invocation per job, evaluations written by   *)
(* the latest claim only, no result discarded by the recovery, and the job *)
(* table as the strict lifecycle.                                          *)
(*                                                                         *)
(* All four rest on LeaseInv: an invocation at work holds the latest claim *)
(* of a running job whose lease has not lapsed, so neither a later claim   *)
(* nor the recovery can touch the job under it.                            *)
(***************************************************************************)

\* Live invocations keep their lease, and nobody stops a batch.
LeaseKept == ~SlowWorkers /\ ~Stoppable

\* An invocation at work holds the latest claim of a running job whose lease
\* has not lapsed; that is what keeps the recovery and later claims off it.
LeaseInv ==
    /\ \A w \in Workers : wpc[w] \in Working =>
          /\ status[Job(w)] = "running"
          /\ attempt[Job(w)] = wrun[w]
          /\ ~expired[Job(w)]
    /\ \A v, w \in Workers :
          wpc[v] \in Working /\ wpc[w] \in Working /\ Job(v) = Job(w) => v = w

LInv == IInv /\ LeaseInv

-----------------------------------------------------------------------------
\* The job of an invocation that is at work is a row of the table.
LEMMA WorkingJob ==
  ASSUME IInv, NEW w \in Workers, wpc[w] \in Working
  PROVE  Job(w) \in Jobs
  BY DEF IInv, References, HeldMessage, Job, Messages, Working, Processing,
     CheckPoints, WritePoints

\* A step that neither moves an invocation into the working states, nor changes
\* what the invocations at work hold, nor touches a running, unexpired row.
LEMMA LeaseUntouched ==
  ASSUME LInv,
         \A w \in Workers : wpc'[w] \in Working =>
            wpc[w] \in Working /\ wmsg'[w] = wmsg[w] /\ wrun'[w] = wrun[w],
         \A w \in Workers : wpc'[w] \in Working =>
            /\ status'[Job(w)] = "running"
            /\ attempt'[Job(w)] = attempt[Job(w)]
            /\ ~expired'[Job(w)]
  PROVE  LeaseInv'
  BY DEF LInv, LeaseInv, Job

\* The steps of an invocation that leave the jobs' statuses alone.
LEMMA QuietWorkerLease ==
  ASSUME LInv, NEW w \in Workers, WorkerStep(w),
         ~Complete(w), ~ResetJob(w), ~FailJob(w)
  PROVE  LeaseInv'
  <1>1. CASE Load(w) \/ CallAI(w)
    BY <1>1, LeaseUntouched, WorkingJob DEF LInv, LeaseInv, IInv, TypeOK, Load, CallAI,
       Heartbeat, Touch, Goto, Working, Processing, Job
  <1>2. CASE \/ GetText(w) \/ CheckRunning(w) \/ WriteText(w) \/ WriteFields(w)
             \/ WriteScreen(w) \/ WriteResult(w) \/ WriteDone(w) \/ Notify(w)
    <2>1. wpc[w] \in Working /\ \E pc : wpc' = [wpc EXCEPT ![w] = pc]
      BY <1>2 DEF GetText, UseText, StartOcr, OcrDone, OcrPending, CheckRunning,
         WriteText, WriteFields, WriteScreen, WriteResult, WriteDone, Notify,
         Goto, Working, Processing, CheckPoints, WritePoints
    <2>2. UNCHANGED <<status, attempt, expired, wmsg, wrun>>
      BY <1>2 DEF GetText, CheckRunning, WriteText, WriteFields, WriteScreen,
         WriteResult, WriteDone, Notify, jobVars
    <2> QED BY <2>1, <2>2, LeaseUntouched DEF LInv, LeaseInv, IInv, TypeOK
  <1>3. CASE StopQuietly(w) \/ Retry(w) \/ FailResume(w) \/ Ack(w)
    <2>1. /\ UNCHANGED <<status, attempt, expired>>
          /\ \A v \in Workers \ {w} : UNCHANGED <<wpc[v], wmsg[v], wrun[v]>>
          /\ wpc'[w] \in {"idle", "ack"}
      BY <1>3 DEF LInv, IInv, TypeOK, StopQuietly, Retry, FailResume, Ack, Release, Goto,
         jobVars
    <2>2. wpc'[w] \notin Working
      BY <2>1 DEF Working, Processing, CheckPoints, WritePoints
    <2> QED BY <2>1, <2>2, LeaseUntouched DEF LInv, LeaseInv
  <1> QED BY <1>1, <1>2, <1>3 DEF WorkerStep

\* The three statements by which an invocation settles its job take it out of
\* the working states; no other invocation has that job.
LEMMA SettlingLease ==
  ASSUME LInv, NEW w \in Workers, Complete(w) \/ ResetJob(w) \/ FailJob(w)
  PROVE  LeaseInv'
  <1>1. wpc[w] \in Working
    BY DEF Complete, ResetJob, FailJob, Working, Processing
  <1>2. /\ wpc'[w] \notin Working
        /\ UNCHANGED <<attempt, wmsg, wrun>>
        /\ \A v \in Workers \ {w} : wpc'[v] = wpc[v]
    BY DEF LInv, IInv, TypeOK, Complete, ResetJob, FailJob, Goto, Working, Processing,
       CheckPoints, WritePoints
  <1>3. \A j \in Jobs \ {Job(w)} : status'[j] = status[j] /\ expired'[j] = expired[j]
    BY DEF LInv, IInv, TypeOK, Complete, ResetJob, FailJob, MoveIfRunning, Touch
  <1>4. \A v \in Workers \ {w} : wpc[v] \in Working => Job(v) # Job(w) /\ Job(v) \in Jobs
    BY <1>1, WorkingJob DEF LInv, LeaseInv
  <1> QED BY <1>2, <1>3, <1>4, LeaseUntouched DEF LInv, LeaseInv

\* A request changes the status of rows that are not running.
LEMMA RequestLease ==
  ASSUME LInv, NEW q \in Requesters, RequestStep(q)
  PROVE  LeaseInv'
  <1>1. UNCHANGED <<attempt, expired, workerVars>>
    BY DEF RequestStep, PickJob, RequeueFailed, RequeueLost, InsertNew,
       InsertIgnored, ClearResume, Send, SendFailed, UploadInsert, UploadSelect,
       UploadSend, UploadSendFailed, jobVars
  <1>2. \A j \in Jobs : status[j] = "running" => status'[j] = "running"
    BY DEF LInv, IInv, TypeOK, RequestStep, PickJob, RequeueFailed, RequeueLost,
       InsertNew, InsertJob, InsertIgnored, ClearResume, Send, SendFailed,
       UploadInsert, UploadSelect, UploadSend, UploadSendFailed, jobVars
  <1> QED BY <1>1, <1>2, WorkingJob, LeaseUntouched DEF LInv, LeaseInv, workerVars

\* The recovery only touches rows whose lease has lapsed.
LEMMA RecoveryLease ==
  ASSUME LInv, RecoveryStep
  PROVE  LeaseInv'
  <1>1. UNCHANGED <<attempt, workerVars>>
    BY DEF RecoveryStep, Scan, FailStaleResume, FinishStale, FailStale,
       SkipRecovered, jobVars
  <1>2. \A j \in Jobs : status[j] = "running" /\ ~expired[j] =>
           status'[j] = "running" /\ ~expired'[j]
    BY DEF LInv, IInv, TypeOK, RecoveryStep, Scan, FailStaleResume, FinishStale,
       FailStale, SkipRecovered, Stale, Touch, jobVars
  <1> QED BY <1>1, <1>2, WorkingJob, LeaseUntouched DEF LInv, LeaseInv, workerVars

\* A claim takes a row that is queued, which no invocation is at work on.
LEMMA ClaimLease ==
  ASSUME LInv, NEW w \in Workers, NEW m \in Messages, Claim(w, m)
  PROVE  LeaseInv'
  <1>1. m.job \in Jobs
    BY DEF Messages
  <1>2. \A v \in Workers : wpc[v] \in Working => Job(v) # m.job /\ Job(v) \in Jobs /\ v # w
    BY WorkingJob DEF Claim, LInv, LeaseInv, Working, Processing, CheckPoints, WritePoints
  <1>3. /\ status'[m.job] = "running" /\ ~expired'[m.job]
        /\ attempt'[m.job] = wrun'[w]
        /\ wmsg'[w] = m
    BY <1>1 DEF Claim, Touch, LInv, IInv, TypeOK
  <1>4. \A j \in Jobs \ {m.job} :
           status'[j] = status[j] /\ attempt'[j] = attempt[j] /\ expired'[j] = expired[j]
    BY <1>1 DEF Claim, Touch, LInv, IInv, TypeOK
  <1>5. \A v \in Workers \ {w} :
           wpc'[v] = wpc[v] /\ wmsg'[v] = wmsg[v] /\ wrun'[v] = wrun[v]
    BY DEF Claim, LInv, IInv, TypeOK
  <1> QED BY <1>2, <1>3, <1>4, <1>5 DEF LInv, LeaseInv, Job

\* Deliveries, crashes, duplicates and the start of requests: only a claim
\* puts an invocation to work, and no lease lapses under one that is.
LEMMA OtherLease ==
  ASSUME LeaseKept, LInv, Next,
         ~\E w \in Workers : WorkerStep(w),
         ~\E q \in Requesters : RequestStep(q),
         ~RecoveryStep
  PROVE  LeaseInv'
  <1>1. CASE \E w \in Workers, m \in Messages : Claim(w, m)
    BY <1>1, ClaimLease
  <1>2. CASE \E w \in Workers : Raise(w)
    <2> SUFFICES ASSUME NEW w \in Workers, Raise(w) PROVE LeaseInv'
      BY <1>2
    <2>1. wpc[w] \in Working /\ wpc' = [wpc EXCEPT ![w] = "fail"]
      BY DEF Raise, Goto, Working
    <2>2. UNCHANGED <<status, attempt, expired, wmsg, wrun>>
      BY DEF Raise, jobVars
    <2> QED BY <2>1, <2>2, LeaseUntouched DEF LInv, LeaseInv, IInv, TypeOK
  <1>3. CASE \E w \in Workers : Crash(w)
    <2> SUFFICES ASSUME NEW w \in Workers, Crash(w) PROVE LeaseInv'
      BY <1>3
    <2>1. /\ UNCHANGED <<status, attempt, expired>>
          /\ \A v \in Workers \ {w} : UNCHANGED <<wpc[v], wmsg[v], wrun[v]>>
          /\ wpc'[w] = "idle"
      BY DEF LInv, IInv, TypeOK, Crash, Release, jobVars
    <2>2. wpc'[w] \notin Working
      BY <2>1 DEF Working, Processing, CheckPoints, WritePoints
    <2> QED BY <2>1, <2>2, LeaseUntouched DEF LInv, LeaseInv
  <1>4. CASE \E j \in Jobs : Lapse(j)
    <2> SUFFICES ASSUME NEW j \in Jobs, Lapse(j) PROVE LeaseInv'
      BY <1>4
    <2>1. \A w \in Workers : wpc[w] \in Working => Job(w) # j
      BY DEF LeaseKept, Lapse, Held, Holding, Working
    <2> QED
      BY <2>1, LeaseUntouched, WorkingJob DEF Lapse, LInv, LeaseInv, IInv, TypeOK,
         workerVars
  <1>5. CASE /\ UNCHANGED <<jobVars, workerVars>>
    BY <1>5, LeaseUntouched DEF LInv, LeaseInv, jobVars, workerVars
  <1>6. \/ \E w \in Workers, m \in Messages : Claim(w, m)
        \/ \E w \in Workers : Raise(w) \/ Crash(w)
        \/ \E j \in Jobs : Lapse(j)
        \/ UNCHANGED <<jobVars, workerVars>>
    BY DEF Next, Deliver, SkipUnclaimable, CrashRequest, StartReprocess,
       StartUpload, Duplicate, StopStep, StopResumes, StopJobs, LeaseKept
  <1> QED BY <1>1, <1>2, <1>3, <1>4, <1>5, <1>6

\* The lease invariant is inductive.
LEMMA StepLease ==
  ASSUME LeaseKept
  PROVE  LInv /\ [Next]_vars => LInv'
  <1> SUFFICES ASSUME LInv, [Next]_vars PROVE LInv'
    OBVIOUS
  <1>1. IInv'
    BY StepIInv DEF LInv
  <1>2. ASSUME UNCHANGED vars PROVE LeaseInv'
    BY <1>2, LeaseUntouched DEF LInv, LeaseInv, vars, jobVars, workerVars
  <1>3. ASSUME NEW w \in Workers, WorkerStep(w) PROVE LeaseInv'
    BY <1>3, QuietWorkerLease, SettlingLease
  <1>4. ASSUME NEW q \in Requesters, RequestStep(q) PROVE LeaseInv'
    BY <1>4, RequestLease
  <1> QED BY <1>1, <1>2, <1>3, <1>4, RecoveryLease, OtherLease DEF LInv

\* At the start nobody is at work.
LEMMA InitLease == Init => LInv
  BY InitIInv DEF LInv, LeaseInv, Init, Working, Processing, CheckPoints, WritePoints

\* While leases are kept, the invocation between its claim and the settling of
\* the job is alone with it, and its claim is the latest.
THEOREM ClaimExclusive ==
  ASSUME LeaseKept
  PROVE  Spec => []ExclusiveClaim
  <1>1. LInv => ExclusiveClaim
    BY DEF LInv, LeaseInv, ExclusiveClaim
  <1> QED BY <1>1, InitLease, StepLease, PTL DEF Spec

-----------------------------------------------------------------------------
\* While leases are kept, an evaluation is written only under the latest claim
\* of a job that is running, on that job's resume.
THEOREM EvaluationExclusive ==
  ASSUME LeaseKept
  PROVE  Spec => EvaluationByRunningClaim
  <1> DEFINE Fresh ==
        \A r \in Resumes :
           LET job == evalBy'[r][1]
               claim == evalBy'[r][2]
           IN  evalBy'[r] \notin {evalBy[r], NoEval} =>
                  status[job] = "running" /\ attempt[job] = claim /\ owner[job] = r
  <1>1. ASSUME LInv, NEW w \in Workers, WriteScreen(w) \/ WriteResult(w)
        PROVE  Fresh
    <2>1. wpc[w] \in Working
      BY <1>1 DEF WriteScreen, WriteResult, Working, Processing, WritePoints
    <2>2. evalBy' = [evalBy EXCEPT ![owner[Job(w)]] = <<Job(w), wrun[w]>>]
      BY <1>1 DEF WriteScreen, WriteResult, WriteEval, Resume
    <2>3. status[Job(w)] = "running" /\ attempt[Job(w)] = wrun[w]
      BY <1>1, <2>1 DEF LInv, LeaseInv
    <2> QED BY <1>1, <2>2, <2>3 DEF LInv, IInv, TypeOK
  <1>2. ASSUME LInv, NEW q \in Requesters, ClearResume(q)
        PROVE  Fresh
    BY <1>2 DEF ClearResume, LInv, IInv, TypeOK
  <1>3. ASSUME UNCHANGED evalBy
        PROVE  Fresh
    BY <1>3
  <1>4. ASSUME [Next]_vars
        PROVE  \/ UNCHANGED evalBy
               \/ \E w \in Workers : WriteScreen(w) \/ WriteResult(w)
               \/ \E q \in Requesters : ClearResume(q)
    <2>1. ASSUME NEW w \in Workers, WorkerStep(w)
          PROVE  UNCHANGED evalBy \/ WriteScreen(w) \/ WriteResult(w)
      BY <2>1 DEF WorkerStep, Load, GetText, CheckRunning, StopQuietly, WriteText,
         CallAI, WriteFields, WriteDone, Notify, Complete, ResetJob, Retry,
         FailJob, FailResume, Ack, resumeVars
    <2>2. ASSUME NEW q \in Requesters, RequestStep(q)
          PROVE  UNCHANGED evalBy \/ ClearResume(q)
      BY <2>2 DEF RequestStep, PickJob, RequeueFailed, RequeueLost, InsertNew,
         InsertIgnored, Send, SendFailed, UploadInsert, UploadSelect, UploadSend,
         UploadSendFailed, resumeVars
    <2>3. ASSUME RecoveryStep
          PROVE  UNCHANGED evalBy
      BY <2>3 DEF RecoveryStep, Scan, FailStaleResume, FinishStale, FailStale,
         SkipRecovered, resumeVars
    <2>4. ASSUME Next,
                 ~\E w \in Workers : WorkerStep(w),
                 ~\E q \in Requesters : RequestStep(q),
                 ~RecoveryStep
          PROVE  UNCHANGED evalBy
      BY <2>4 DEF Next, Deliver, Claim, SkipUnclaimable, Raise, Crash, CrashRequest,
         StartReprocess, StartUpload, Duplicate, Lapse, StopJobs, StopStep,
         StopResumes, resumeVars
    <2>5. CASE UNCHANGED vars
      BY <2>5 DEF vars, resumeVars
    <2> QED BY <1>4, <2>1, <2>2, <2>3, <2>4, <2>5
  <1>5. LInv /\ [Next]_vars => Fresh
    BY <1>1, <1>2, <1>3, <1>4
  <1>6. LInv /\ [Next]_vars => [Fresh]_vars
    BY <1>5
  <1> QED
    BY <1>6, InitLease, StepLease, PTL DEF Spec, EvaluationByRunningClaim

-----------------------------------------------------------------------------
(* The queue implements the strict lifecycle. *)

\* An empty queue maps to an empty job table.
LEMMA LifecycleInit == Init => Lifecycle!Init
  BY DEF Init, Lifecycle!Init

\* An invocation settles only the running row it holds.
LEMMA WorkerLifecycle ==
  ASSUME LInv, NEW w \in Workers, WorkerStep(w)
  PROVE  [Lifecycle!Next]_<<status, owner>>
  <1>1. CASE Complete(w)
    <2>1. Job(w) \in Jobs /\ status[Job(w)] = "running"
      BY <1>1, WorkingJob DEF Complete, Working, Processing, LInv, LeaseInv
    <2>2. Lifecycle!Finish(Job(w))
      BY <1>1, <2>1 DEF Complete, MoveIfRunning, Lifecycle!Finish, Lifecycle!Move
    <2> QED BY <2>1, <2>2 DEF Lifecycle!Next
  <1>2. CASE ResetJob(w)
    <2>1. Job(w) \in Jobs /\ status[Job(w)] = "running"
      BY <1>2, WorkingJob DEF ResetJob, Working, LInv, LeaseInv
    <2>2. Lifecycle!Yield(Job(w))
      BY <1>2, <2>1 DEF ResetJob, MoveIfRunning, Lifecycle!Yield, Lifecycle!Move
    <2> QED BY <2>1, <2>2 DEF Lifecycle!Next
  <1>3. CASE FailJob(w)
    <2>1. Job(w) \in Jobs /\ status[Job(w)] = "running"
      BY <1>3, WorkingJob DEF FailJob, Working, LInv, LeaseInv
    <2>2. Lifecycle!Fail(Job(w))
      BY <1>3, <2>1 DEF FailJob, Lifecycle!Fail, Lifecycle!Move, Lifecycle!ActiveStatus
    <2> QED BY <2>1, <2>2 DEF Lifecycle!Next
  <1>4. UNCHANGED <<status, owner>> \/ Complete(w) \/ ResetJob(w) \/ FailJob(w)
    BY DEF WorkerStep, Load, GetText, CheckRunning, StopQuietly, WriteText,
       CallAI, WriteFields, WriteScreen, WriteResult, WriteDone, Notify, Retry,
       FailResume, Ack, jobVars
  <1> QED BY <1>1, <1>2, <1>3, <1>4

\* A request submits a row, requeues a failed one, or fails the one it queued.
LEMMA RequestLifecycle ==
  ASSUME LInv, NEW q \in Requesters, RequestStep(q)
  PROVE  [Lifecycle!Next]_<<status, owner>>
  <1>1. ASSUME NEW j \in Jobs, InsertJob(j, qres[q]), qpc[q] # "idle"
        PROVE  Lifecycle!Next
    <2>1. qres[q] \in Resumes
      BY <1>1 DEF LInv, IInv, References, KnownJob
    <2>2. Lifecycle!Submit(j, qres[q])
      BY <1>1 DEF InsertJob, ActiveJobs, ActiveStatus, Lifecycle!Submit,
         Lifecycle!ActiveJobs, Lifecycle!ActiveStatus
    <2> QED BY <2>1, <2>2 DEF Lifecycle!Next
  <1>2. CASE \E j \in Jobs : InsertNew(q, j)
    BY <1>1, <1>2 DEF InsertNew
  <1>3. CASE UploadInsert(q)
    BY <1>1, <1>3 DEF UploadInsert
  <1>4. CASE RequeueFailed(q)
    <2>1. qjob[q] \in Jobs /\ owner[qjob[q]] = qres[q]
      BY <1>4 DEF RequeueFailed, LInv, IInv, References, KnownJob
    <2>2. Lifecycle!Requeue(qjob[q])
      BY <1>4, <2>1 DEF RequeueFailed, ActiveJobs, ActiveStatus, Lifecycle!Requeue,
         Lifecycle!Move, Lifecycle!ActiveJobs, Lifecycle!ActiveStatus
    <2> QED BY <2>1, <2>2 DEF Lifecycle!Next
  <1>5. CASE SendFailed(q)
    <2>1. qjob[q] \in Jobs
      BY <1>5 DEF SendFailed, LInv, IInv, References, KnownJob
    <2>2. CASE status[qjob[q]] = "queued"
      <3>1. Lifecycle!Fail(qjob[q])
        BY <1>5, <2>2 DEF SendFailed, Lifecycle!Fail, Lifecycle!Move,
           Lifecycle!ActiveStatus
      <3> QED BY <2>1, <3>1 DEF Lifecycle!Next
    <2>3. CASE status[qjob[q]] # "queued"
      BY <1>5, <2>3 DEF SendFailed, LInv, IInv, TypeOK
    <2> QED BY <2>2, <2>3
  <1>6. CASE \/ PickJob(q) \/ RequeueLost(q) \/ InsertIgnored(q) \/ ClearResume(q)
             \/ Send(q) \/ UploadSelect(q) \/ UploadSend(q) \/ UploadSendFailed(q)
    BY <1>6 DEF PickJob, RequeueLost, InsertIgnored, ClearResume, Send,
       UploadSelect, UploadSend, UploadSendFailed, jobVars
  <1> QED BY <1>2, <1>3, <1>4, <1>5, <1>6 DEF RequestStep

\* A claim maps to Claim, the recovery to Finish or Fail, the rest to stutters.
LEMMA OtherLifecycle ==
  ASSUME LeaseKept, LInv, Next,
         ~\E w \in Workers : WorkerStep(w),
         ~\E q \in Requesters : RequestStep(q)
  PROVE  [Lifecycle!Next]_<<status, owner>>
  <1>1. CASE \E w \in Workers, m \in Messages : Claim(w, m)
    <2>1. PICK w \in Workers, m \in Messages : Claim(w, m)
      BY <1>1
    <2>2. m.job \in Jobs
      BY DEF Messages
    <2>3. Lifecycle!Claim(m.job)
      BY <2>1 DEF Claim, Lifecycle!Claim, Lifecycle!Move
    <2> QED BY <2>2, <2>3 DEF Lifecycle!Next
  <1>2. CASE \E row \in [job : Jobs, done : BOOLEAN] : FinishStale(row)
    BY <1>2 DEF FinishStale, Stale, Lifecycle!Next, Lifecycle!Finish, Lifecycle!Move
  <1>3. CASE \E row \in [job : Jobs, done : BOOLEAN] : FailStale(row)
    BY <1>3 DEF FailStale, Stale, Lifecycle!Next, Lifecycle!Fail, Lifecycle!Move,
       Lifecycle!ActiveStatus
  <1>4. \/ UNCHANGED <<status, owner>>
        \/ \E w \in Workers, m \in Messages : Claim(w, m)
        \/ \E row \in [job : Jobs, done : BOOLEAN] : FinishStale(row) \/ FailStale(row)
    BY DEF Next, Deliver, SkipUnclaimable, Raise, Crash, CrashRequest,
       StartReprocess, StartUpload, Duplicate, Lapse, RecoveryStep, Scan,
       FailStaleResume, SkipRecovered, StopStep, StopResumes, StopJobs,
       LeaseKept, jobVars
  <1> QED BY <1>1, <1>2, <1>3, <1>4

\* While leases are kept, every step of the queue is a step of the strict
\* lifecycle or leaves the job table alone: completed jobs stay completed, and
\* only failed jobs come back.
THEOREM ImplementsLifecycle ==
  ASSUME LeaseKept
  PROVE  Spec => LifecycleSpec
  <1>1. LInv /\ [Next]_vars => [Lifecycle!Next]_<<status, owner>>
    <2>1. CASE UNCHANGED vars
      BY <2>1 DEF vars, jobVars
    <2> QED BY <2>1, WorkerLifecycle, RequestLifecycle, OtherLifecycle
  <1>2. LInv /\ [Next]_vars => [Lifecycle!Next]_Lifecycle!lifecycleVars
    BY <1>1 DEF Lifecycle!lifecycleVars
  <1> QED
    BY <1>2, InitLease, StepLease, LifecycleInit, PTL
       DEF Spec, LifecycleSpec, Lifecycle!Spec
-----------------------------------------------------------------------------
(* The recovery keeps results.                                               *)

\* What the SELECT of the recovery found is still so when its UPDATE runs: the
\* jobs are stale, and those without a result have none yet.
RowInv ==
    /\ \A row \in prows :
          Stale(row.job) /\ (row.done \/ ~HasResult(owner[row.job]))
    /\ \A row, other \in prows : row.job = other.job => row = other

RInv == LInv /\ OneActiveJobPerResume /\ RowInv

\* Only a running job whose lease has not lapsed can give its resume a result,
\* and a resume has one running job: a stale job's resume gets none.
LEMMA NoNewResult ==
  ASSUME LInv, OneActiveJobPerResume, Next,
         NEW j \in Jobs, Stale(j), ~HasResult(owner[j])
  PROVE  ~HasResult(owner[j])' \/ owner'[j] # owner[j]
  <1> DEFINE r == owner[j]
  <1>0. r \in Resumes
    BY DEF LInv, IInv, References, JobOwned, Stale
  <1>1. ASSUME NEW w \in Workers, wpc[w] \in Working
        PROVE  owner[Job(w)] # r
    BY <1>1, WorkingJob DEF LInv, LeaseInv, Stale, OneActiveJobPerResume, ActiveStatus
  <1>2. ASSUME NEW w \in Workers, WorkerStep(w)
        PROVE  evalBy'[r] = evalBy[r] /\ parse'[r] \in {parse[r], "failed"}
    <2>1. CASE \/ WriteText(w) \/ WriteFields(w) \/ WriteScreen(w)
               \/ WriteResult(w) \/ WriteDone(w)
      <3>1. wpc[w] \in Working
        BY <2>1 DEF WriteText, WriteFields, WriteScreen, WriteResult, WriteDone,
           Working, Processing, WritePoints
      <3> QED
        BY <1>0, <1>1, <2>1, <3>1 DEF WriteText, WriteFields, WriteScreen,
           WriteResult, WriteDone, WriteParse, WriteEval, Resume, LInv, IInv, TypeOK
    <2>2. CASE FailResume(w)
      BY <2>2 DEF FailResume, WriteParse, LInv, IInv, TypeOK
    <2>3. \/ UNCHANGED <<parse, evalBy>> \/ FailResume(w)
          \/ WriteText(w) \/ WriteFields(w) \/ WriteScreen(w)
          \/ WriteResult(w) \/ WriteDone(w)
      BY <1>2 DEF WorkerStep, Load, GetText, CheckRunning, StopQuietly, CallAI,
         Notify, Complete, ResetJob, Retry, FailJob, Ack, resumeVars
    <2> QED BY <2>1, <2>2, <2>3
  <1>3. ASSUME NEW q \in Requesters, RequestStep(q)
        PROVE  evalBy'[r] \in {evalBy[r], NoEval} /\ parse'[r] \in {parse[r], "queued"}
    <2>1. UNCHANGED <<parse, evalBy>> \/ ClearResume(q)
      BY <1>3 DEF RequestStep, PickJob, RequeueFailed, RequeueLost, InsertNew,
         InsertIgnored, Send, SendFailed, UploadInsert, UploadSelect, UploadSend,
         UploadSendFailed, resumeVars
    <2> QED BY <1>0, <2>1 DEF ClearResume, LInv, IInv, TypeOK
  <1>4. ASSUME ~\E w \in Workers : WorkerStep(w),
               ~\E q \in Requesters : RequestStep(q)
        PROVE  evalBy'[r] = evalBy[r]
               /\ parse'[r] \in {parse[r], "failed", "pending_screening"}
    <2>1. \/ UNCHANGED <<parse, evalBy>>
          \/ \E p \in Requesters, s \in Resumes : StartUpload(p, s)
          \/ FailStaleResume \/ StopStep
      BY <1>4 DEF Next, Deliver, Claim, SkipUnclaimable, Raise, Crash,
         CrashRequest, StartReprocess, Duplicate, Lapse, RecoveryStep, Scan,
         FinishStale, FailStale, SkipRecovered, StopJobs, resumeVars
    <2>2. CASE \E p \in Requesters, s \in Resumes : StartUpload(p, s)
      BY <1>0, <2>2 DEF StartUpload, LInv, IInv, TypeOK
    <2>3. CASE FailStaleResume
      BY <1>0, <2>3 DEF FailStaleResume, LInv, IInv, TypeOK
    <2>4. CASE StopStep
      BY <1>0, <2>4 DEF StopStep, StopResumes, LInv, IInv, TypeOK
    <2> QED BY <2>1, <2>2, <2>3, <2>4
  <1>5. \/ evalBy'[r] = NoEval
        \/ evalBy'[r] = evalBy[r]
           /\ parse'[r] \in {parse[r], "failed", "queued", "pending_screening"}
    BY <1>2, <1>3, <1>4
  <1>6. evalBy'[r] = NoEval \/ parse'[r] # "ai_screened"
    BY <1>5 DEF HasResult
  <1> QED BY <1>6 DEF HasResult

\* Only the recovery ends what is stale.
LEMMA StaleStays ==
  ASSUME LeaseKept, LInv, Next, NEW j \in Jobs, Stale(j)
  PROVE  \/ Stale(j)' /\ owner'[j] = owner[j]
         \/ \E row \in prows : row.job = j /\ (FinishStale(row) \/ FailStale(row))
  <1>1. ASSUME NEW w \in Workers, WorkerStep(w)
        PROVE  status'[j] = status[j] /\ expired'[j] = expired[j] /\ owner' = owner
    <2>1. CASE Load(w) \/ CallAI(w) \/ Complete(w) \/ ResetJob(w) \/ FailJob(w)
      <3>1. wpc[w] \in Working
        BY <2>1 DEF Load, CallAI, Complete, ResetJob, FailJob, Working, Processing
      <3>2. Job(w) # j
        BY <3>1 DEF LInv, LeaseInv, Stale
      <3> QED
        BY <2>1, <3>2 DEF Load, CallAI, Complete, ResetJob, FailJob,
           MoveIfRunning, Heartbeat, Touch, LInv, IInv, TypeOK
    <2>2. \/ UNCHANGED jobVars
          \/ Load(w) \/ CallAI(w) \/ Complete(w) \/ ResetJob(w) \/ FailJob(w)
      BY <1>1 DEF WorkerStep, GetText, CheckRunning, StopQuietly, WriteText,
         WriteFields, WriteScreen, WriteResult, WriteDone, Notify, Retry,
         FailResume, Ack
    <2> QED BY <2>1, <2>2 DEF jobVars
  <1>2. ASSUME NEW q \in Requesters, RequestStep(q)
        PROVE  Stale(j)' /\ owner'[j] = owner[j]
    BY <1>2 DEF Stale, LInv, IInv, TypeOK, RequestStep, PickJob, RequeueFailed,
       RequeueLost, InsertNew, InsertJob, InsertIgnored, ClearResume, Send,
       SendFailed, UploadInsert, UploadSelect, UploadSend, UploadSendFailed,
       jobVars
  <1>3. ASSUME RecoveryStep
        PROVE  \/ Stale(j)' /\ owner'[j] = owner[j]
               \/ \E row \in prows : row.job = j /\ (FinishStale(row) \/ FailStale(row))
    <2>1. CASE Scan \/ FailStaleResume
      BY <2>1 DEF Scan, FailStaleResume, Stale, jobVars
    <2>2. ASSUME NEW row \in [job : Jobs, done : BOOLEAN], SkipRecovered(row)
          PROVE  Stale(j)' /\ owner'[j] = owner[j]
      BY <2>2 DEF SkipRecovered, Stale, jobVars
    <2>3. ASSUME NEW row \in [job : Jobs, done : BOOLEAN],
                 FinishStale(row) \/ FailStale(row), row.job # j
          PROVE  Stale(j)' /\ owner'[j] = owner[j]
      BY <2>3 DEF FinishStale, FailStale, Touch, Stale, LInv, IInv, TypeOK
    <2>4. ASSUME NEW row \in [job : Jobs, done : BOOLEAN],
                 FinishStale(row) \/ FailStale(row)
          PROVE  row \in prows
      BY <2>4 DEF FinishStale, FailStale
    <2> QED BY <1>3, <2>1, <2>2, <2>3, <2>4 DEF RecoveryStep
  <1>4. ASSUME NEW w \in Workers, NEW m \in Messages, Claim(w, m)
        PROVE  Stale(j)' /\ owner'[j] = owner[j]
    BY <1>4 DEF Claim, Touch, Stale, Messages, LInv, IInv, TypeOK
  <1>5. ASSUME NEW i \in Jobs, Lapse(i)
        PROVE  Stale(j)' /\ owner'[j] = owner[j]
    BY <1>5 DEF Lapse, Stale, LInv, IInv, TypeOK
  <1>6. \/ UNCHANGED jobVars
        \/ \E w \in Workers : WorkerStep(w)
        \/ \E q \in Requesters : RequestStep(q)
        \/ RecoveryStep
        \/ \E w \in Workers, m \in Messages : Claim(w, m)
        \/ \E i \in Jobs : Lapse(i)
    BY DEF Next, Deliver, SkipUnclaimable, Raise, Crash, CrashRequest,
       StartReprocess, StartUpload, Duplicate, StopStep, StopResumes, StopJobs,
       LeaseKept
  <1> QED
    BY <1>1, <1>2, <1>3, <1>4, <1>5, <1>6 DEF jobVars, Stale

\* The rows are those of the last SELECT, fewer by those that were handled.
LEMMA RowsShrink ==
  ASSUME Next
  PROVE  Scan \/ prows' \subseteq prows
  BY DEF Next, Deliver, Claim, SkipUnclaimable, Raise, Crash, CrashRequest,
     StartReprocess, StartUpload, Duplicate, Lapse, StopStep, StopResumes,
     StopJobs, RecoveryStep, FailStaleResume, FinishStale, FailStale,
     SkipRecovered, NextRows, WorkerStep, Load, GetText, CheckRunning,
     StopQuietly, WriteText, CallAI, WriteFields, WriteScreen, WriteResult,
     WriteDone, Notify, Complete, ResetJob, Retry, FailJob, FailResume, Ack,
     RequestStep, PickJob, RequeueFailed, RequeueLost, InsertNew,
     InsertIgnored, ClearResume, Send, SendFailed, UploadInsert, UploadSelect,
     UploadSend, UploadSendFailed, recoveryVars

\* Every step keeps the rows of the recovery decided as the SELECT saw them.
LEMMA StepRows ==
  ASSUME LeaseKept, RInv, Next
  PROVE  RowInv'
  <1>1. CASE Scan
    <2>1. ASSUME NEW row \in prows'
          PROVE  \E j \in Jobs :
                    /\ row = [job |-> j, done |-> HasResult(owner[j])]
                    /\ Stale(j)
      BY <1>1 DEF Scan
    <2>2. \A row, other \in prows' : row.job = other.job => row = other
      BY <2>1
    <2>3. ASSUME NEW row \in prows'
          PROVE  Stale(row.job) /\ (row.done \/ ~HasResult(owner[row.job]))
      <3>1. PICK j \in Jobs : /\ row = [job |-> j, done |-> HasResult(owner[j])]
                             /\ Stale(j)
        BY <2>1, <2>3
      <3>2. row.job = j /\ row.done = HasResult(owner[j])
        BY <3>1
      <3> QED BY <3>1, <3>2
    <2>4. UNCHANGED <<status, owner, expired, parse, evalBy>>
      BY <1>1 DEF Scan, jobVars, resumeVars
    <2> QED BY <2>2, <2>3, <2>4 DEF RowInv, Stale, HasResult
  <1>2. CASE prows' \subseteq prows
    <2>1. \A row, other \in prows' : row.job = other.job => row = other
      BY <1>2 DEF RInv, RowInv
    <2>2. ASSUME NEW row \in prows'
          PROVE  Stale(row.job)' /\ (row.done \/ ~HasResult(owner[row.job])')
      <3>1. row \in prows /\ row.job \in Jobs
        BY <1>2, <2>2 DEF RInv, LInv, IInv, TypeOK
      <3>2. Stale(row.job) /\ (row.done \/ ~HasResult(owner[row.job]))
        BY <3>1 DEF RInv, RowInv
      <3>3. ~\E other \in prows :
               other.job = row.job /\ (FinishStale(other) \/ FailStale(other))
        <4> SUFFICES ASSUME NEW other \in prows, other.job = row.job,
                            FinishStale(other) \/ FailStale(other)
                     PROVE  FALSE
          OBVIOUS
        <4>1. other = row
          BY <3>1 DEF RInv, RowInv
        <4>2. row \notin prows'
          BY <4>1 DEF FinishStale, FailStale, NextRows
        <4> QED BY <4>2, <2>2
      <3>4. Stale(row.job)' /\ owner'[row.job] = owner[row.job]
        BY <3>1, <3>2, <3>3, StaleStays DEF RInv
      <3>5. row.done \/ ~HasResult(owner[row.job])'
        BY <3>1, <3>2, <3>4, NoNewResult DEF RInv
      <3> QED BY <3>4, <3>5
    <2> QED BY <2>1, <2>2 DEF RowInv
  <1> QED BY <1>1, <1>2, RowsShrink

\* While leases are kept, the recovery fails a job only if its resume has no
\* result: what an invocation wrote before it died is never discarded.
THEOREM RecoveryKeeps ==
  ASSUME LeaseKept
  PROVE  Spec => RecoveryKeepsResult
  <1> DEFINE Kept == ppc = "rows" /\ ppc' = "failResume" => ~HasResult(pres')
  <1>1. Init => RInv
    BY InitLease DEF RInv, RowInv, Init, OneActiveJobPerResume, ActiveStatus
  <1>2. RInv /\ [Next]_vars => RInv'
    <2> SUFFICES ASSUME RInv, [Next]_vars PROVE RInv'
      OBVIOUS
    <2>1. LInv' /\ OneActiveJobPerResume'
      BY StepLease, StepOneActive DEF RInv, LInv
    <2>2. CASE Next
      BY <2>1, <2>2, StepRows DEF RInv
    <2>3. CASE UNCHANGED vars
      BY <2>1, <2>3 DEF RInv, RowInv, Stale, HasResult, vars, jobVars, resumeVars,
         recoveryVars
    <2> QED BY <2>2, <2>3
  <1>3. RInv /\ [Next]_vars => [Kept]_vars
    <2> SUFFICES ASSUME RInv, Next, ppc = "rows", ppc' = "failResume"
                 PROVE  ~HasResult(pres')
      OBVIOUS
    <2>1. \E row \in [job : Jobs, done : BOOLEAN] : FailStale(row)
      BY DEF Next, Deliver, Claim, SkipUnclaimable, Raise, Crash, CrashRequest,
         StartReprocess, StartUpload, Duplicate, Lapse, StopStep, StopResumes,
         StopJobs, RecoveryStep, Scan, FailStaleResume, FinishStale,
         SkipRecovered, NextRows, WorkerStep, Load, GetText, CheckRunning,
         StopQuietly, WriteText, CallAI, WriteFields, WriteScreen, WriteResult,
         WriteDone, Notify, Complete, ResetJob, Retry, FailJob, FailResume, Ack,
         RequestStep, PickJob, RequeueFailed, RequeueLost, InsertNew,
         InsertIgnored, ClearResume, Send, SendFailed, UploadInsert,
         UploadSelect, UploadSend, UploadSendFailed, recoveryVars
    <2>2. PICK row \in [job : Jobs, done : BOOLEAN] : FailStale(row)
      BY <2>1
    <2>3. ~HasResult(owner[row.job])
      BY <2>2 DEF FailStale, RInv, RowInv
    <2>4. pres' = owner[row.job] /\ UNCHANGED <<parse, evalBy>>
      BY <2>2 DEF FailStale, resumeVars
    <2> QED BY <2>3, <2>4 DEF HasResult
  <1> QED BY <1>1, <1>2, <1>3, PTL DEF Spec, RecoveryKeepsResult

-----------------------------------------------------------------------------
(* Jobs are stranded only by a loss, whatever the options. *)

\* A request about to send a message for the job, or to find it; an invocation
\* about to give its message back.
Sending(q, j) ==
    \/ qjob[q] = j /\ qpc[q] \in {"clear", "send", "uploadSend"}
    \/ qres[q] = owner[j] /\ qpc[q] = "uploadSelect"
Returning(w, j) == Job(w) = j /\ wpc[w] \in {"reset", "retry"}

\* What the property asks of the step that strands the job.
Loses(j) ==
    /\ queue' = queue
    /\ \/ \E w \in Workers : Job(w) = j /\ wmsg[w].tries = MaxTries
       \/ \E q \in Requesters : qpc[q] # "idle" /\ qpc'[q] = "idle"

Safe(j) == Stranded(j)' => Stranded(j) \/ Loses(j)

\* A job that keeps its message, its requests and its invocation is not
\* stranded by the step.
LEMMA NotStranded ==
  ASSUME NEW j \in Jobs,
         status'[j] = "queued" => status[j] = "queued" /\ owner'[j] = owner[j],
         WaitingMessage(j) => WaitingMessage(j)',
         \A q \in Requesters : Sending(q, j) => Sending(q, j)',
         \A w \in Workers : Returning(w, j) => Returning(w, j)'
  PROVE  Safe(j)
  BY DEF Safe, Stranded, Sending, Returning, Job

\* A message in the queue waits for its job.
LEMMA EnqueueWaits ==
  ASSUME IInv, NEW m \in Messages, Enqueue(m)
  PROVE  /\ WaitingMessage(m.job)'
         /\ \A j \in Jobs : WaitingMessage(j) => WaitingMessage(j)'
  <1>1. queue' = [queue EXCEPT ![m] = queue[m] + 1] /\ queue \in [Messages -> Nat]
    BY DEF Enqueue, IInv, TypeOK
  <1>2. queue'[m] > 0 /\ \A n \in Messages : queue[n] > 0 => queue'[n] > 0
    BY <1>1
  <1> QED BY <1>2 DEF WaitingMessage

\* A message that is given back waits again, unless its retries are used up.
LEMMA RedeliverWaits ==
  ASSUME IInv, NEW w \in Workers, wpc[w] # "idle", Redeliver(wmsg[w])
  PROVE  /\ \A j \in Jobs : WaitingMessage(j) => WaitingMessage(j)'
         /\ \A j \in Jobs : j = Job(w) =>
               WaitingMessage(j)' \/ (queue' = queue /\ wmsg[w].tries = MaxTries)
  <1> DEFINE m == wmsg[w]
             n == [m EXCEPT !.tries = @ + 1]
  <1>1. m \in Messages /\ m.tries \in 0..MaxTries
    BY DEF IInv, References, HeldMessage, Messages
  <1>2. CASE m.tries < MaxTries
    <2>1. n \in Messages /\ n.job = m.job
      BY <1>1, <1>2, QueueAssumption DEF Messages
    <2>2. Enqueue(n)
      BY <1>2 DEF Redeliver
    <2>3. \A j \in Jobs : (WaitingMessage(j) \/ j = n.job) => WaitingMessage(j)'
      <3> HIDE DEF n
      <3> QED BY <2>1, <2>2, EnqueueWaits
    <2> QED BY <2>1, <2>3 DEF Job
  <1>3. CASE ~(m.tries < MaxTries)
    <2>1. m.tries = MaxTries
      BY <1>1, <1>3, QueueAssumption
    <2>2. queue' = queue
      BY <1>3 DEF Redeliver
    <2> QED BY <2>1, <2>2 DEF WaitingMessage
  <1> QED BY <1>2, <1>3

\* An invocation strands a job only when its message is dropped.
LEMMA WorkerStrands ==
  ASSUME IInv, NEW w \in Workers, WorkerStep(w) \/ Raise(w) \/ Crash(w), NEW j \in Jobs
  PROVE  Safe(j)
  <1>1. CASE Retry(w) \/ Crash(w)
    <2>1. /\ wpc[w] # "idle" /\ Redeliver(wmsg[w])
          /\ UNCHANGED <<jobVars, requestVars>>
          /\ \A v \in Workers \ {w} : UNCHANGED <<wpc[v], wmsg[v]>>
      BY <1>1 DEF Retry, Crash, Release, IInv, TypeOK
    <2>2. (\A i \in Jobs : WaitingMessage(i) => WaitingMessage(i)')
          /\ (j = Job(w) => WaitingMessage(j)' \/ (queue' = queue /\ wmsg[w].tries = MaxTries))
      BY <2>1, RedeliverWaits
    <2>3. CASE Job(w) = j
      <3>1. CASE WaitingMessage(j)'
        BY <3>1 DEF Safe, Stranded
      <3>2. CASE queue' = queue /\ wmsg[w].tries = MaxTries
        BY <2>3, <3>2 DEF Safe, Loses
      <3> QED BY <2>2, <2>3, <3>1, <3>2
    <2>4. CASE Job(w) # j
      BY <2>1, <2>2, <2>4, NotStranded DEF jobVars, requestVars, Sending, Returning, Job
    <2> QED BY <2>3, <2>4
  <1>2. CASE ResetJob(w)
    <2>1. /\ wpc' = [wpc EXCEPT ![w] = "retry"] /\ UNCHANGED <<wmsg, queue, requestVars, owner>>
          /\ \A i \in Jobs \ {Job(w)} : status'[i] = status[i]
      BY <1>2 DEF ResetJob, Goto, MoveIfRunning, IInv, TypeOK
    <2>2. CASE j = Job(w)
      <3>1. Returning(w, j)'
        BY <2>1, <2>2 DEF Returning, Job, IInv, TypeOK
      <3> QED BY <3>1 DEF Safe, Stranded, Returning
    <2>3. CASE j # Job(w)
      BY <2>1, <2>3, NotStranded DEF Sending, Returning, WaitingMessage, Job, requestVars, IInv, TypeOK
    <2> QED BY <2>2, <2>3
  <1>3. CASE ~(Retry(w) \/ Crash(w) \/ ResetJob(w))
    <2>1. /\ UNCHANGED <<queue, requestVars, owner>>
          /\ wpc[w] \notin {"reset", "retry"}
          /\ \A v \in Workers \ {w} : UNCHANGED <<wpc[v], wmsg[v]>>
      BY <1>3 DEF WorkerStep, Load, GetText, CheckRunning, StopQuietly, WriteText,
         CallAI, WriteFields, WriteScreen, WriteResult, WriteDone, Notify, Complete,
         FailJob, FailResume, Ack, Raise, Goto, Release, jobVars, CheckPoints, Processing,
         WritePoints, UseText, StartOcr, OcrDone, OcrPending, IInv, TypeOK
    <2>2. status'[j] = "queued" => status[j] = "queued"
      BY <1>3 DEF WorkerStep, Load, GetText, CheckRunning, StopQuietly, WriteText,
         CallAI, WriteFields, WriteScreen, WriteResult, WriteDone, Notify, Complete,
         MoveIfRunning, FailJob, FailResume, Ack, Raise, jobVars, IInv, TypeOK
    <2> QED
      BY <2>1, <2>2, NotStranded DEF Sending, Returning, WaitingMessage, Job, requestVars
  <1> QED BY <1>1, <1>2, <1>3

\* A request strands a job only by ending without having sent the message.
LEMMA RequestStrands ==
  ASSUME IInv, OneActiveJobPerResume, NEW q \in Requesters,
         RequestStep(q) \/ CrashRequest(q), NEW j \in Jobs
  PROVE  Safe(j)
  <1>0. UNCHANGED workerVars /\ \A p \in Requesters \ {q} : UNCHANGED <<qpc[p], qres[p], qjob[p]>>
    BY DEF RequestStep, CrashRequest, PickJob, RequeueFailed, RequeueLost, InsertNew,
       InsertIgnored, ClearResume, Send, SendFailed, UploadInsert, UploadSelect, UploadSend,
       UploadSendFailed, Answer, Proceed, IInv, TypeOK
  <1>1. CASE SendFailed(q) \/ UploadSendFailed(q) \/ CrashRequest(q)
    <2>1. qpc[q] # "idle" /\ qpc'[q] = "idle" /\ queue' = queue
      BY <1>1 DEF SendFailed, UploadSendFailed, CrashRequest, Answer, IInv, TypeOK
    <2> QED BY <2>1 DEF Safe, Loses
  <1>2. CASE Send(q) \/ UploadSend(q)
    <2>1. PICK again \in BOOLEAN : Enqueue([job |-> qjob[q], reprocess |-> again, tries |-> 0])
      BY <1>2 DEF Send, UploadSend
    <2> DEFINE m == [job |-> qjob[q], reprocess |-> again, tries |-> 0]
    <2>2. m \in Messages /\ m.job = qjob[q]
      BY <1>2, QueueAssumption DEF Send, UploadSend, IInv, References, KnownJob, Messages
    <2>3. WaitingMessage(j) \/ j = m.job => WaitingMessage(j)'
      <3>1. Enqueue(m)
        BY <2>1
      <3> HIDE DEF m
      <3> QED BY <2>2, <3>1, EnqueueWaits
    <2>4. CASE j = qjob[q]
      BY <2>2, <2>3, <2>4 DEF Safe, Stranded
    <2>5. CASE j # qjob[q]
      <3>1. UNCHANGED jobVars /\ qpc[q] # "uploadSelect"
        BY <1>2 DEF Send, UploadSend
      <3> QED
        BY <1>0, <2>3, <2>5, <3>1, NotStranded DEF jobVars, workerVars, Sending, Returning, Job
    <2> QED BY <2>4, <2>5
  <1>3. CASE UploadSelect(q)
    <2>1. UNCHANGED <<jobVars, queue>> /\ qpc[q] = "uploadSelect"
      BY <1>3 DEF UploadSelect
    <2>2. ASSUME status[j] = "queued", qres[q] = owner[j]
          PROVE  Sending(q, j)'
      <3>1. j \in ActiveJobs(qres[q]) /\ \A i \in ActiveJobs(qres[q]) : i = j
        BY <2>2 DEF ActiveJobs, ActiveStatus, OneActiveJobPerResume
      <3>2. qjob'[q] = j /\ qpc'[q] = "uploadSend"
        BY <1>3, <3>1 DEF UploadSelect, Proceed, IInv, TypeOK
      <3> QED BY <3>2 DEF Sending
    <2>3. CASE status[j] = "queued"
      BY <1>0, <2>1, <2>2, <2>3, NotStranded DEF Sending, Returning, WaitingMessage, Job, jobVars,
         workerVars
    <2>4. CASE status[j] # "queued"
      BY <2>1, <2>4 DEF Safe, Stranded, jobVars
    <2> QED BY <2>3, <2>4
  <1>4. CASE PickJob(q) \/ RequeueLost(q) \/ InsertIgnored(q) \/ ClearResume(q)
    <2>1. /\ UNCHANGED <<jobVars, queue>> /\ qpc[q] \notin {"send", "uploadSend", "uploadSelect"}
          /\ qpc[q] = "clear" => qjob'[q] = qjob[q] /\ qpc'[q] = "send"
      BY <1>4 DEF PickJob, RequeueLost, InsertIgnored, ClearResume, Proceed, IInv, TypeOK
    <2> QED
      BY <1>0, <2>1, NotStranded DEF Sending, Returning, WaitingMessage, Job, jobVars, workerVars
  <1>5. CASE RequeueFailed(q) \/ (\E i \in Jobs : InsertNew(q, i)) \/ UploadInsert(q)
    <2>1. /\ queue' = queue
          /\ qpc[q] \notin {"clear", "send", "uploadSend", "uploadSelect"}
      BY <1>5 DEF RequeueFailed, InsertNew, UploadInsert
    <2>2. CASE status'[j] = "queued" /\ status[j] # "queued"
      <3>1. Sending(q, j)'
        BY <1>5, <2>2 DEF RequeueFailed, InsertNew, UploadInsert, InsertJob, Proceed, Sending,
           IInv, TypeOK
      <3> QED BY <3>1 DEF Safe, Stranded, Sending
    <2>3. CASE status'[j] = "queued" => status[j] = "queued"
      <3>1. status[j] = "queued" => owner'[j] = owner[j]
        BY <1>5 DEF RequeueFailed, InsertNew, UploadInsert, InsertJob, IInv, TypeOK
      <3>2. CASE status[j] = "queued"
        BY <1>0, <2>1, <2>3, <3>1, <3>2, NotStranded DEF Sending, Returning, WaitingMessage, Job, workerVars
      <3>3. CASE status[j] # "queued"
        BY <2>3, <3>3 DEF Safe, Stranded
      <3> QED BY <3>2, <3>3
    <2> QED BY <2>2, <2>3
  <1> QED BY <1>1, <1>2, <1>3, <1>4, <1>5 DEF RequestStep

\* Nothing else strands a job: a delivery takes the message of a job that it
\* claims, or that is not queued.
LEMMA OtherStrands ==
  ASSUME IInv, Next,
         ~\E w \in Workers : WorkerStep(w) \/ Raise(w) \/ Crash(w),
         ~\E q \in Requesters : RequestStep(q) \/ CrashRequest(q),
         NEW j \in Jobs
  PROVE  Safe(j)
  <1>1. ASSUME NEW w \in Workers, NEW m \in Messages, Claim(w, m) \/ SkipUnclaimable(w, m)
        PROVE  Safe(j)
    <2>1. /\ queue' = [queue EXCEPT ![m] = @ - 1] /\ UNCHANGED <<owner, requestVars>>
          /\ wpc[w] = "idle" /\ \A v \in Workers \ {w} : UNCHANGED <<wpc[v], wmsg[v]>>
          /\ m.job \in Jobs
      BY <1>1 DEF Claim, SkipUnclaimable, jobVars, workerVars, Messages, IInv, TypeOK
    <2>2. CASE j = m.job
      <3>1. status'[j] # "queued"
        BY <1>1, <2>1, <2>2 DEF Claim, SkipUnclaimable, jobVars, IInv, TypeOK
      <3> QED BY <3>1 DEF Safe, Stranded
    <2>3. CASE j # m.job
      <3>1. status'[j] = status[j]
        BY <1>1, <2>1, <2>3 DEF Claim, SkipUnclaimable, jobVars, IInv, TypeOK
      <3>2. WaitingMessage(j) => WaitingMessage(j)'
        BY <2>1, <2>3 DEF WaitingMessage, IInv, TypeOK
      <3> QED BY <2>1, <3>1, <3>2, NotStranded DEF Sending, Returning, requestVars, Job
    <2> QED BY <2>2, <2>3
  <1>2. ASSUME NEW q \in Requesters, NEW r \in Resumes, StartReprocess(q, r) \/ StartUpload(q, r)
        PROVE  Safe(j)
    <2>1. /\ UNCHANGED <<jobVars, workerVars, queue>> /\ qpc[q] = "idle"
          /\ \A p \in Requesters \ {q} : UNCHANGED <<qpc[p], qres[p], qjob[p]>>
      BY <1>2 DEF StartReprocess, StartUpload, Proceed, IInv, TypeOK
    <2> QED
      BY <2>1, NotStranded DEF Sending, Returning, WaitingMessage, Job, jobVars, workerVars
  <1>3. ASSUME NEW m \in Messages, Duplicate(m)
        PROVE  Safe(j)
    <2>1. WaitingMessage(j) => WaitingMessage(j)'
      BY <1>3, EnqueueWaits DEF Duplicate
    <2> QED
      BY <1>3, <2>1, NotStranded DEF Duplicate, Sending, Returning, Job, jobVars, workerVars, requestVars
  <1>4. ASSUME UNCHANGED <<owner, queue, workerVars, requestVars>>,
               status'[j] = "queued" => status[j] = "queued"
        PROVE  Safe(j)
    BY <1>4, NotStranded DEF Sending, Returning, WaitingMessage, Job, workerVars, requestVars
  <1>5. \/ \E w \in Workers, m \in Messages : Claim(w, m) \/ SkipUnclaimable(w, m)
        \/ \E q \in Requesters, r \in Resumes : StartReprocess(q, r) \/ StartUpload(q, r)
        \/ \E m \in Messages : Duplicate(m)
        \/ /\ UNCHANGED <<owner, queue, workerVars, requestVars>>
           /\ status'[j] = "queued" => status[j] = "queued"
    BY DEF Next, Deliver, Lapse, RecoveryStep, Scan, FailStaleResume, FinishStale, FailStale,
       SkipRecovered, StopJobs, StopStep, StopResumes, jobVars, IInv, TypeOK
  <1> QED BY <1>1, <1>2, <1>3, <1>4, <1>5

\* Whatever the options, a queued job is left with nobody to claim it only when
\* its message is out of retries or the request that was to send one ends.
THEOREM StrandedByLoss == Spec => StrandedOnlyByLoss
  <1> DEFINE Kept == \A j \in Jobs : ~Stranded(j) /\ Stranded(j)' =>
          /\ queue' = queue
          /\ \/ \E w \in Workers : Job(w) = j /\ wmsg[w].tries = MaxTries
             \/ \E q \in Requesters : qpc[q] # "idle" /\ qpc'[q] = "idle"
  <1>1. IInv /\ OneActiveJobPerResume /\ [Next]_vars => [Kept]_vars
    <2> SUFFICES ASSUME IInv, OneActiveJobPerResume, Next, NEW j \in Jobs PROVE Safe(j)
      BY DEF Safe, Loses
    <2>1. ASSUME NEW w \in Workers, WorkerStep(w) \/ Raise(w) \/ Crash(w) PROVE Safe(j)
      BY <2>1, WorkerStrands
    <2>2. ASSUME NEW q \in Requesters, RequestStep(q) \/ CrashRequest(q) PROVE Safe(j)
      BY <2>2, RequestStrands
    <2> QED BY <2>1, <2>2, OtherStrands
  <1> QED BY <1>1, InitIInv, StepIInv, OneActive, PTL DEF Spec, StrandedOnlyByLoss

-----------------------------------------------------------------------------
(***************************************************************************)
(* Reprocessing alone: no upload, nothing crashes, is stopped, is refused  *)
(* or is delivered twice.  A queued or running job is then in one hand: a  *)
(* request that has not sent its message yet, the message, or the          *)
(* invocation that took it.                                                *)
(***************************************************************************)
ReprocessAlone ==
    /\ LeaseKept /\ ~SendMayFail /\ ~Uploads
    /\ MaxCrashes = 0 /\ MaxDuplicates = 0

Taking(q) == qpc[q] \in {"clear", "send"}
Carrying(w) == wpc[w] \in Working \cup {"retry"}
Sent(m) == queue[m] > 0

\* Nothing happens that needs an upload, a crash or a stop.
Undone ==
    /\ ppc = "idle" /\ cpc = "idle"
    /\ \A q \in Requesters : qpc[q] \notin {"upload", "uploadSelect", "uploadSend"}
    /\ \A w \in Workers : wpc[w] \notin {"checkDone", "writeDone"}
    /\ \A w \in Workers : wpc[w] # "idle" => wmsg[w].reprocess
    /\ \A m \in Messages : Sent(m) => m.reprocess

\* What is in a hand is queued, or running while it is worked on.
InHand ==
    /\ \A q \in Requesters : Taking(q) => status[qjob[q]] = "queued"
    /\ \A m \in Messages : Sent(m) => status[m.job] = "queued" /\ queue[m] = 1
    /\ \A w \in Workers : wpc[w] = "retry" => status[Job(w)] = "queued"
    /\ \A j \in Jobs : status[j] = "running" =>
          \E w \in Workers : wpc[w] \in Working /\ Job(w) = j

\* No job is in two hands.
OneHand ==
    /\ \A p, q \in Requesters : Taking(p) /\ Taking(q) /\ qjob[p] = qjob[q] => p = q
    /\ \A m, n \in Messages : Sent(m) /\ Sent(n) /\ m.job = n.job => m = n
    /\ \A v, w \in Workers : Carrying(v) /\ Carrying(w) /\ Job(v) = Job(w) => v = w
    /\ \A q \in Requesters, m \in Messages : Taking(q) /\ Sent(m) => qjob[q] # m.job
    /\ \A q \in Requesters, w \in Workers : Taking(q) /\ Carrying(w) => qjob[q] # Job(w)
    /\ \A m \in Messages, w \in Workers : Sent(m) /\ Carrying(w) => m.job # Job(w)

\* A resume shown as being processed is, or is about to be marked failed; one
\* whose job is about to be completed has its evaluation.
Shown ==
    /\ \A r \in Resumes : parse[r] \in InProgress =>
          \/ ActiveJobs(r) # {}
          \/ \E w \in Workers : wpc[w] = "failResume" /\ Resume(w) = r
    /\ \A w \in Workers : wpc[w] \in {"notify", "complete"} =>
          evalBy[Resume(w)] # NoEval /\ parse[Resume(w)] \notin InProgress

HInv == Undone /\ InHand /\ OneHand
PInv == LInv /\ OneActiveJobPerResume /\ HInv /\ Shown

-----------------------------------------------------------------------------
\* At the start there is nothing in any hand.
LEMMA ReprocessInit == Init => PInv
  <1> SUFFICES ASSUME Init PROVE PInv
    OBVIOUS
  <1>1. /\ \A w \in Workers : wpc[w] = "idle"
        /\ \A q \in Requesters : qpc[q] = "idle"
        /\ \A m \in Messages : queue[m] = 0
        /\ \A j \in Jobs : status[j] = "none"
        /\ \A r \in Resumes : parse[r] = "pending_screening"
        /\ ppc = "idle" /\ cpc = "idle"
    BY DEF Init
  <1>2. OneActiveJobPerResume
    BY <1>1 DEF OneActiveJobPerResume, ActiveStatus
  <1>3. HInv
    BY <1>1 DEF HInv, Undone, InHand, OneHand, Taking, Carrying, Sent, Working, Processing,
       CheckPoints, WritePoints
  <1>4. Shown
    BY <1>1 DEF Shown, InProgress
  <1> QED BY <1>2, <1>3, <1>4, InitLease DEF PInv

\* Nothing else can happen: a job in a hand is not stale, and a message that
\* waits can be claimed.
LEMMA OnlyReprocessing ==
  ASSUME ReprocessAlone, PInv, Next
  PROVE  \/ \E w \in Workers : WorkerStep(w) \/ Raise(w)
         \/ \E w \in Workers, m \in Messages : Claim(w, m)
         \/ \E q \in Requesters, r \in Resumes : StartReprocess(q, r)
         \/ \E q \in Requesters :
               \/ PickJob(q) \/ RequeueFailed(q) \/ RequeueLost(q)
               \/ (\E j \in Jobs : InsertNew(q, j)) \/ InsertIgnored(q)
               \/ ClearResume(q) \/ Send(q)
  <1>1. crashes = 0 /\ duplicates = 0
    BY DEF ReprocessAlone, PInv, LInv, IInv, TypeOK
  <1>2. \A j \in Jobs : status[j] = "running" => ~expired[j] /\ Held(j)
    BY DEF PInv, HInv, InHand, LInv, LeaseInv, Held, Working, Holding
  <1>3. ~RecoveryStep
    BY <1>2 DEF PInv, HInv, Undone, RecoveryStep, Scan, FailStaleResume, FinishStale, FailStale,
       SkipRecovered, Stale
  <1>4. ASSUME NEW w \in Workers, NEW m \in Messages PROVE ~SkipUnclaimable(w, m)
    BY DEF SkipUnclaimable, PInv, HInv, InHand, Sent
  <1>5. ASSUME NEW j \in Jobs PROVE ~Lapse(j)
    BY <1>2 DEF Lapse, ReprocessAlone, LeaseKept
  <1>6. ASSUME NEW q \in Requesters, RequestStep(q)
        PROVE  \/ PickJob(q) \/ RequeueFailed(q) \/ RequeueLost(q)
               \/ (\E j \in Jobs : InsertNew(q, j)) \/ InsertIgnored(q)
               \/ ClearResume(q) \/ Send(q)
    BY <1>6 DEF RequestStep, SendFailed, UploadInsert, UploadSelect, UploadSend, UploadSendFailed,
       ReprocessAlone, PInv, HInv, Undone
  <1>7. /\ \A w \in Workers : ~Crash(w)
        /\ \A q \in Requesters : ~CrashRequest(q)
        /\ \A m \in Messages : ~Duplicate(m)
        /\ \A q \in Requesters, r \in Resumes : ~StartUpload(q, r)
        /\ \A B : ~StopJobs(B)
        /\ ~StopStep
    BY <1>1 DEF Crash, CrashRequest, Duplicate, StartUpload, StopJobs, StopStep, StopResumes,
       ReprocessAlone, LeaseKept, PInv, HInv, Undone
  <1> QED BY <1>3, <1>4, <1>5, <1>6, <1>7 DEF Next, Deliver

\* A step of an invocation that settles nothing.
QuietStep(w) ==
    /\ WorkerStep(w) \/ Raise(w)
    /\ ~Complete(w) /\ ~ResetJob(w) /\ ~FailJob(w) /\ ~Retry(w)

\* Only the steps that settle a job, deliver or send change who has it.
LEMMA QuietHands ==
  ASSUME PInv, NEW w \in Workers, QuietStep(w)
  PROVE  /\ UNCHANGED <<status, owner, queue, requestVars, recoveryVars, stopVars>>
         /\ \A v \in Workers \ {w} : UNCHANGED <<wpc[v], wmsg[v]>>
         /\ wpc'[w] \notin {"checkDone", "writeDone", "retry", "failResume"}
         /\ \/ wpc[w] \in Working /\ wpc'[w] \in Working /\ wmsg'[w] = wmsg[w]
            \/ wpc[w] \in {"failResume", "ack"} /\ wpc'[w] = "ack" /\ wmsg'[w] = wmsg[w]
            \/ wpc[w] = "ack" /\ wpc'[w] = "idle"
  <1>1. ~StopQuietly(w) /\ ~WriteDone(w)
    BY DEF StopQuietly, WriteDone, PInv, HInv, Undone, LInv, LeaseInv, Working, Processing
  <1>2. ASSUME wpc[w] # "idle" PROVE ScreenOrFinish(w) = "screen"
    BY <1>2 DEF ScreenOrFinish, PInv, HInv, Undone
  <1>3. CASE Load(w) \/ GetText(w) \/ WriteScreen(w) \/ WriteResult(w) \/ Notify(w) \/ CallAI(w) \/ Raise(w)
    BY <1>3 DEF Load, GetText, UseText, StartOcr, OcrDone, OcrPending, WriteScreen, WriteResult,
       Notify, CallAI, Raise, Goto, jobVars, Working, Processing, CheckPoints, WritePoints,
       PInv, LInv, IInv, TypeOK
  <1>4. CASE WriteText(w) \/ WriteFields(w)
    <2>1. \E pc \in {"extract", "screen"} : wpc' = [wpc EXCEPT ![w] = pc]
      BY <1>2, <1>4 DEF WriteText, WriteFields, Goto
    <2> QED
      BY <1>4, <2>1 DEF WriteText, WriteFields, jobVars, Working, Processing, WritePoints,
         PInv, LInv, IInv, TypeOK
  <1>5. CASE CheckRunning(w)
    <2>1. wpc[w] # "checkDone"
      BY DEF PInv, HInv, Undone
    <2>2. \E pc \in {"writeText", "writeFields", "writeScreen", "writeResult"} : wpc' = [wpc EXCEPT ![w] = pc]
      <3>1. WriteAfter[wpc[w]] \in {"writeText", "writeFields", "writeScreen", "writeResult"}
        BY <1>5, <2>1 DEF CheckRunning, CheckPoints, WriteAfter
      <3> QED BY <1>5, <3>1 DEF CheckRunning, Goto
    <2> QED
      BY <1>5, <2>2 DEF CheckRunning, jobVars, Working, Processing, WritePoints, CheckPoints,
         PInv, LInv, IInv, TypeOK
  <1>6. CASE FailResume(w) \/ Ack(w)
    BY <1>6 DEF FailResume, Ack, Release, Goto, jobVars, PInv, LInv, IInv, TypeOK
  <1> QED BY <1>1, <1>3, <1>4, <1>5, <1>6 DEF QuietStep, WorkerStep

\* What an invocation that settles nothing writes on resumes.
LEMMA QuietShown ==
  ASSUME PInv, NEW w \in Workers, QuietStep(w)
  PROVE  Shown'
  <1> USE QuietHands
  <1>0. Working \cap {"failResume", "ack", "idle"} = {} /\ {"notify", "complete"} \subseteq Working
    BY DEF Working, Processing, CheckPoints, WritePoints
  <1>1. ASSUME NEW r \in Resumes, r # Resume(w)
        PROVE  parse'[r] = parse[r] /\ evalBy'[r] = evalBy[r]
    BY <1>1 DEF QuietStep, WorkerStep, Load, GetText, CheckRunning, StopQuietly, WriteText, CallAI,
       WriteFields, WriteScreen, WriteResult, WriteDone, Notify, FailResume, Ack, Raise, WriteParse,
       WriteEval, resumeVars, PInv, LInv, IInv, TypeOK
  <1>2. ASSUME wpc[w] \in Working
        PROVE  /\ Job(w) \in Jobs /\ status[Job(w)] = "running"
               /\ \A v \in Workers \ {w} : wpc[v] \in Working => Resume(v) # Resume(w)
    BY <1>2, WorkingJob DEF PInv, LInv, LeaseInv, OneActiveJobPerResume, ActiveStatus, Resume
  <1>3. ASSUME wpc[w] \notin Working
        PROVE  /\ evalBy' = evalBy
               /\ \/ parse' = parse /\ wpc[w] = "ack"
                  \/ parse' = [parse EXCEPT ![Resume(w)] = "failed"]
    BY <1>0, <1>3 DEF QuietStep, WorkerStep, Load, GetText, CheckRunning, StopQuietly, WriteText, CallAI,
       WriteFields, WriteScreen, WriteResult, WriteDone, Notify, FailResume, Ack, Raise, WriteParse,
       resumeVars, Working, Processing, CheckPoints, WritePoints
  <1>4. ASSUME NEW v \in Workers, v # w PROVE Resume(v)' = Resume(v) /\ wpc'[v] = wpc[v]
    BY <1>4 DEF Resume, Job
  <1>5. ASSUME NEW r \in Resumes, parse'[r] \in InProgress
        PROVE  \/ ActiveJobs(r)' # {}
               \/ \E v \in Workers : wpc'[v] = "failResume" /\ Resume(v)' = r
    <2>0. ActiveJobs(r)' = ActiveJobs(r)
      BY DEF ActiveJobs
    <2>1. CASE r = Resume(w) /\ wpc[w] \in Working
      BY <1>2, <2>0, <2>1 DEF ActiveJobs, ActiveStatus, Resume
    <2>2. CASE r = Resume(w) /\ wpc[w] \notin Working
      <3>1. parse'[r] = parse[r] /\ wpc[w] = "ack"
        BY <1>3, <1>5, <2>2 DEF InProgress, PInv, LInv, IInv, TypeOK
      <3> QED BY <1>4, <1>5, <2>0, <3>1 DEF PInv, Shown
    <2>3. CASE r # Resume(w)
      <3>1. parse'[r] = parse[r]
        BY <1>1, <2>3
      <3> QED BY <1>4, <1>5, <2>0, <2>3, <3>1 DEF PInv, Shown
    <2> QED BY <2>1, <2>2, <2>3
  <1>6. ASSUME NEW v \in Workers, wpc'[v] \in {"notify", "complete"}
        PROVE  evalBy'[Resume(v)'] # NoEval /\ parse'[Resume(v)'] \notin InProgress
    <2>1. CASE v # w
      <3>1. wpc[v] = wpc'[v] /\ Resume(v)' = Resume(v) /\ Resume(v) \in Resumes
        BY <1>0, <1>4, <1>6, <2>1, WorkingJob DEF PInv, LInv, IInv, References, JobOwned, LeaseInv, Resume
      <3>2. evalBy[Resume(v)] # NoEval /\ parse[Resume(v)] \notin InProgress
        BY <1>6, <3>1 DEF PInv, Shown
      <3>3. CASE Resume(v) # Resume(w)
        BY <1>1, <3>1, <3>2, <3>3
      <3>4. CASE Resume(v) = Resume(w)
        <4>1. wpc[w] \notin Working
          BY <1>0, <1>2, <1>6, <2>1, <3>1, <3>4
        <4> QED BY <1>3, <3>1, <3>2, <4>1 DEF InProgress, PInv, LInv, IInv, TypeOK
      <3> QED BY <3>3, <3>4
    <2>2. CASE v = w
      <3>1. wpc[w] \in Working /\ wmsg'[w] = wmsg[w] /\ Resume(w)' = Resume(w)
        BY <1>0, <1>6, <2>2 DEF Resume, Job
      <3>2. Resume(w) \in Resumes /\ Job(w) # NoJob
        BY <3>1, <1>2, QueueAssumption DEF PInv, LInv, IInv, References, JobOwned, Resume
      <3>3. CASE WriteResult(w)
        BY <3>1, <3>2, <3>3, <2>2 DEF WriteResult, WriteEval, WriteParse, NoEval, InProgress, PInv, LInv, IInv, TypeOK
      <3>4. CASE Notify(w)
        BY <3>1, <3>4, <2>2 DEF Notify, resumeVars, PInv, Shown
      <3>5. WriteResult(w) \/ Notify(w)
        <4>1. CASE WriteText(w)
          <5>1. ScreenOrFinish(w) = "screen"
            BY <4>1 DEF WriteText, ScreenOrFinish, PInv, HInv, Undone
          <5> QED BY <1>6, <2>2, <4>1, <5>1 DEF WriteText, Goto, PInv, LInv, IInv, TypeOK
        <4>2. CASE WriteFields(w)
          <5>1. ScreenOrFinish(w) = "screen"
            BY <4>2 DEF WriteFields, ScreenOrFinish, PInv, HInv, Undone
          <5> QED BY <1>6, <2>2, <4>2, <5>1 DEF WriteFields, Goto, PInv, LInv, IInv, TypeOK
        <4>3. CASE WriteDone(w)
          BY <4>3 DEF WriteDone, PInv, HInv, Undone
        <4>4. CASE CheckRunning(w)
          <5>1. wpc'[w] \in WritePoints
            BY <4>4 DEF CheckRunning, Goto, CheckPoints, WritePoints, WriteAfter, PInv, LInv, IInv, TypeOK
          <5> QED BY <1>6, <2>2, <5>1 DEF WritePoints
        <4> QED
          BY <1>6, <2>2, <4>1, <4>2, <4>3, <4>4 DEF QuietStep, WorkerStep, Load, GetText, UseText, StartOcr, OcrDone,
             OcrPending, StopQuietly, CallAI, WriteScreen, FailResume, Ack, Raise, Goto, Release,
             PInv, LInv, IInv, TypeOK
      <3> QED BY <3>3, <3>4, <3>5
    <2> QED BY <2>1, <2>2
  <1> QED BY <1>5, <1>6 DEF Shown

\* Hands that are emptied meet nobody.
LEMMA HandsKept ==
  ASSUME OneHand,
         \A q \in Requesters : Taking(q)' => Taking(q) /\ qjob'[q] = qjob[q],
         \A m \in Messages : Sent(m)' => Sent(m),
         \A w \in Workers : Carrying(w)' => Carrying(w) /\ Job(w)' = Job(w)
  PROVE  OneHand'
  BY DEF OneHand

\* A job in a hand is a row that is queued or running, on which only an
\* invocation at work is running.
LEMMA InHandActive ==
  ASSUME PInv
  PROVE  /\ \A q \in Requesters : Taking(q) => qjob[q] \in Jobs /\ status[qjob[q]] = "queued"
         /\ \A m \in Messages : m.job \in Jobs /\ (Sent(m) => status[m.job] = "queued")
         /\ \A w \in Workers : Carrying(w) =>
               /\ Job(w) \in Jobs /\ wpc[w] # "idle"
               /\ status[Job(w)] = IF wpc[w] = "retry" THEN "queued" ELSE "running"
  <1>1. \A w \in Workers : wpc[w] # "idle" => Job(w) \in Jobs
    BY DEF PInv, LInv, IInv, References, HeldMessage, Job, Messages
  <1>2. Working \cap {"retry", "idle"} = {}
    BY DEF Working, Processing, CheckPoints, WritePoints
  <1> QED
    BY <1>1, <1>2 DEF PInv, HInv, InHand, Taking, Carrying, LInv, LeaseInv, IInv, References, KnownJob,
       Messages

\* A step of an invocation that settles nothing moves no job.
LEMMA QuietKeeps ==
  ASSUME PInv, NEW w \in Workers, QuietStep(w)
  PROVE  HInv'
  <1> USE QuietHands
  <1>0. Working \cap {"failResume", "ack", "idle", "retry", "checkDone", "writeDone"} \subseteq {"checkDone", "writeDone"}
    BY DEF Working, Processing, CheckPoints, WritePoints
  <1>1. Undone'
    BY <1>0 DEF PInv, HInv, Undone, Sent, recoveryVars, stopVars, requestVars
  <1>2. OneHand'
    <2>1. \A v \in Workers : Carrying(v)' => Carrying(v) /\ Job(v)' = Job(v)
      BY <1>0 DEF Carrying, Job
    <2> QED BY <2>1, HandsKept DEF PInv, HInv, Taking, Sent, requestVars
  <1>3. InHand'
    <2>1. \A v \in Workers : wpc'[v] = "retry" => wpc[v] = "retry" /\ Job(v)' = Job(v)
      BY DEF Job
    <2>2. \A v \in Workers : wpc[v] \in Working => wpc'[v] \in Working /\ Job(v)' = Job(v)
      BY <1>0 DEF Job
    <2> QED BY <2>1, <2>2 DEF PInv, HInv, InHand, Taking, Sent, requestVars
  <1> QED BY <1>1, <1>2, <1>3 DEF HInv

\* An invocation that settles its job has it no more, or is about to give its
\* message back; what a failed one leaves to be shown it is about to write.
LEMMA SettleKeeps ==
  ASSUME PInv, NEW w \in Workers, Complete(w) \/ ResetJob(w) \/ FailJob(w)
  PROVE  HInv' /\ Shown'
  <1>0. /\ "complete" \in Working /\ "reset" \in Working /\ "fail" \in Working
        /\ Working \cap {"retry", "ack", "failResume", "idle"} = {}
    BY DEF Working, Processing, CheckPoints, WritePoints
  <1>1. /\ UNCHANGED <<owner, queue, wmsg, parse, evalBy, requestVars, recoveryVars, stopVars>>
        /\ \A v \in Workers \ {w} : wpc'[v] = wpc[v]
        /\ wpc[w] \in Working
        /\ \A v \in Workers : Job(v)' = Job(v) /\ Resume(v)' = Resume(v)
    BY <1>0 DEF Complete, ResetJob, FailJob, Goto, resumeVars, Job, Resume, PInv, LInv, IInv, TypeOK
  <1>2. /\ Job(w) \in Jobs /\ status[Job(w)] = "running"
        /\ \A j \in Jobs \ {Job(w)} : status'[j] = status[j]
    BY <1>1, InHandActive, <1>0 DEF Complete, ResetJob, FailJob, MoveIfRunning, Carrying, PInv, LInv, IInv, TypeOK
  <1>3. \/ wpc[w] = "complete" /\ wpc'[w] = "ack" /\ status'[Job(w)] = "completed"
        \/ wpc'[w] = "retry" /\ status'[Job(w)] = "queued"
        \/ wpc'[w] = "failResume" /\ status'[Job(w)] = "failed"
    BY <1>2 DEF Complete, ResetJob, FailJob, MoveIfRunning, Goto, PInv, LInv, IInv, TypeOK
  <1>4. Undone'
    BY <1>0, <1>1, <1>3 DEF PInv, HInv, Undone, Sent, recoveryVars, stopVars, requestVars
  <1>5. OneHand'
    <2>1. \A v \in Workers : Carrying(v)' => Carrying(v)
      BY <1>1 DEF Carrying
    <2> QED BY <1>1, <2>1, HandsKept DEF PInv, HInv, Taking, Sent, requestVars
  <1>6. InHand'
    <2>1. \A q \in Requesters : Taking(q) => qjob[q] # Job(w)
      BY <1>1 DEF PInv, HInv, OneHand, Carrying
    <2>2. \A m \in Messages : Sent(m) => m.job # Job(w)
      BY <1>1 DEF PInv, HInv, OneHand, Carrying
    <2>3. \A v \in Workers : v # w /\ Carrying(v) => Job(v) # Job(w)
      BY <1>1 DEF PInv, HInv, OneHand, Carrying
    <2>4. \A q \in Requesters : Taking(q)' => status'[qjob'[q]] = "queued"
      BY <1>1, <1>2, <2>1, InHandActive DEF Taking, requestVars
    <2>5. \A m \in Messages : Sent(m)' => status'[m.job] = "queued" /\ queue'[m] = 1
      BY <1>1, <1>2, <2>2, InHandActive DEF Sent, PInv, HInv, InHand
    <2>6. \A v \in Workers : wpc'[v] = "retry" => status'[Job(v)'] = "queued"
      BY <1>1, <1>2, <1>3, <2>3, InHandActive DEF Carrying
    <2>7. ASSUME NEW j \in Jobs, status'[j] = "running"
          PROVE  \E v \in Workers : wpc'[v] \in Working /\ Job(v)' = j
      <3>1. j # Job(w) /\ status[j] = "running"
        BY <1>2, <1>3, <2>7
      <3>2. PICK v \in Workers : wpc[v] \in Working /\ Job(v) = j
        BY <3>1 DEF PInv, HInv, InHand
      <3> QED BY <1>1, <3>1, <3>2
    <2> QED BY <2>4, <2>5, <2>6, <2>7 DEF InHand
  <1>7. Shown'
    <2>1. ASSUME NEW v \in Workers, wpc'[v] \in {"notify", "complete"}
          PROVE  evalBy'[Resume(v)'] # NoEval /\ parse'[Resume(v)'] \notin InProgress
      <3>1. v # w
        BY <1>3, <2>1
      <3> QED BY <1>1, <2>1, <3>1 DEF PInv, Shown
    <2>2. ASSUME NEW r \in Resumes, parse'[r] \in InProgress
          PROVE  \/ ActiveJobs(r)' # {}
                 \/ \E v \in Workers : wpc'[v] = "failResume" /\ Resume(v)' = r
      <3>1. CASE \E v \in Workers : wpc[v] = "failResume" /\ Resume(v) = r
        BY <1>0, <1>1, <3>1
      <3>2. CASE ActiveJobs(r) # {}
        <4>1. PICK j \in ActiveJobs(r) : TRUE
          BY <3>2
        <4>2. CASE j # Job(w)
          <5>1. j \in ActiveJobs(r)'
            BY <1>1, <1>2, <4>1, <4>2 DEF ActiveJobs
          <5> QED BY <5>1
        <4>3. CASE j = Job(w)
          <5>1. Resume(w) = r
            BY <4>1, <4>3 DEF ActiveJobs, Resume
          <5>2. CASE wpc[w] = "complete"
            BY <1>1, <2>2, <5>1, <5>2 DEF PInv, Shown
          <5>3. CASE wpc'[w] = "failResume"
            BY <1>1, <5>1, <5>3
          <5>4. CASE wpc'[w] = "retry" /\ status'[Job(w)] = "queued"
            <6>1. j \in ActiveJobs(r)'
              BY <1>1, <4>1, <4>3, <5>4 DEF ActiveJobs, ActiveStatus
            <6> QED BY <6>1
          <5> QED BY <1>3, <5>2, <5>3, <5>4
        <4> QED BY <4>2, <4>3
      <3> QED BY <1>1, <2>2, <3>1, <3>2 DEF PInv, Shown
    <2> QED BY <2>1, <2>2 DEF Shown
  <1> QED BY <1>4, <1>5, <1>6, <1>7 DEF HInv

\* What is shown stays true where resumes are left alone, no resume loses its
\* last job, and nobody starts to report.
LEMMA ShownKept ==
  ASSUME PInv, UNCHANGED <<parse, evalBy>>,
         \A j \in Jobs : status[j] \in ActiveStatus => status'[j] \in ActiveStatus /\ owner'[j] = owner[j],
         \A w \in Workers : wpc[w] = "failResume" => wpc'[w] = "failResume" /\ Resume(w)' = Resume(w),
         \A w \in Workers : wpc'[w] \in {"notify", "complete"} => wpc'[w] = wpc[w] /\ Resume(w)' = Resume(w)
  PROVE  Shown'
  <1>1. \A r \in Resumes : ActiveJobs(r) \subseteq ActiveJobs(r)'
    BY DEF ActiveJobs
  <1> QED BY <1>1 DEF PInv, Shown

\* Exactly the message that was enqueued is new.
LEMMA EnqueuedOnce ==
  ASSUME IInv, NEW m \in Messages, Enqueue(m)
  PROVE  /\ queue'[m] = queue[m] + 1 /\ queue[m] \in Nat
         /\ \A n \in Messages : n # m => queue'[n] = queue[n]
  BY DEF Enqueue, IInv, TypeOK

\* The invocation gives the message back, or drops it.
LEMMA RetryKeeps ==
  ASSUME PInv, NEW w \in Workers, Retry(w)
  PROVE  HInv' /\ Shown'
  <1>0. Working \cap {"retry", "idle", "notify", "complete", "failResume"} \subseteq {"notify", "complete"}
    BY DEF Working, Processing, CheckPoints, WritePoints
  <1>1. /\ UNCHANGED <<status, owner, parse, evalBy, requestVars, recoveryVars, stopVars>>
        /\ \A v \in Workers \ {w} : wpc'[v] = wpc[v] /\ wmsg'[v] = wmsg[v]
        /\ wpc[w] = "retry" /\ wpc'[w] = "idle"
        /\ Redeliver(wmsg[w])
    BY DEF Retry, Release, jobVars, resumeVars, PInv, LInv, IInv, TypeOK
  <1>2. /\ wmsg[w] \in Messages /\ wmsg[w].reprocess /\ Job(w) = wmsg[w].job
        /\ Job(w) \in Jobs /\ status[Job(w)] = "queued"
    BY <1>1, InHandActive DEF PInv, HInv, Undone, LInv, IInv, References, HeldMessage, Carrying, Job
  <1>3. ASSUME NEW m \in Messages, Sent(m)' PROVE Sent(m) \/ (m.job = Job(w) /\ m.reprocess)
    <2> DEFINE n == [wmsg[w] EXCEPT !.tries = @ + 1]
    <2>1. n.job = Job(w) /\ n.reprocess
      BY <1>2 DEF Messages
    <2>2. CASE wmsg[w].tries < MaxTries
      <3>1. n \in Messages
        BY <1>2, <2>2, QueueAssumption DEF Messages
      <3>2. Enqueue(n)
        BY <1>1, <2>2 DEF Redeliver
      <3> HIDE DEF n
      <3> QED BY <1>3, <2>1, <3>1, <3>2, EnqueuedOnce DEF Sent, PInv, LInv
    <2>3. CASE ~(wmsg[w].tries < MaxTries)
      BY <1>1, <1>3, <2>3 DEF Redeliver, Sent
    <2> QED BY <2>2, <2>3
  <1>4. ASSUME NEW m \in Messages, Sent(m)' PROVE queue'[m] = 1
    <2> DEFINE n == [wmsg[w] EXCEPT !.tries = @ + 1]
    <2>1. CASE wmsg[w].tries < MaxTries
      <3>1. n \in Messages /\ n.job = Job(w)
        BY <1>2, <2>1, QueueAssumption DEF Messages
      <3>2. Enqueue(n)
        BY <1>1, <2>1 DEF Redeliver
      <3> HIDE DEF n
      <3>3. queue[n] = 0
        BY <1>1, <3>1, <3>2, EnqueuedOnce DEF Sent, PInv, LInv, HInv, OneHand, Carrying
      <3> QED BY <1>4, <3>1, <3>2, <3>3, EnqueuedOnce DEF Sent, PInv, LInv, HInv, InHand
    <2>2. CASE ~(wmsg[w].tries < MaxTries)
      BY <1>1, <1>4, <2>2 DEF Redeliver, Sent, PInv, HInv, InHand
    <2> QED BY <2>1, <2>2
  <1>5. ASSUME NEW m \in Messages, NEW n \in Messages, Sent(m)', Sent(n)', m.job = n.job PROVE m = n
    <2>1. CASE m.job # Job(w)
      BY <1>3, <1>5, <2>1 DEF PInv, HInv, OneHand
    <2>2. CASE m.job = Job(w)
      <3>1. ~Sent(m) /\ ~Sent(n)
        BY <1>1, <1>5, <2>2 DEF PInv, HInv, OneHand, Carrying
      <3>2. wmsg[w].tries < MaxTries
        BY <1>1, <1>5, <3>1 DEF Redeliver, Sent
      <3> DEFINE k == [wmsg[w] EXCEPT !.tries = @ + 1]
      <3>3. k \in Messages /\ Enqueue(k)
        BY <1>1, <1>2, <3>2, QueueAssumption DEF Messages, Redeliver
      <3> HIDE DEF k
      <3> QED BY <1>5, <3>1, <3>3, EnqueuedOnce DEF Sent, PInv, LInv
    <2> QED BY <2>1, <2>2
  <1>6. Undone'
    BY <1>1, <1>3 DEF PInv, HInv, Undone, recoveryVars, stopVars, requestVars
  <1>7. ASSUME NEW v \in Workers, Carrying(v)' PROVE v # w /\ Carrying(v) /\ Job(v)' = Job(v) /\ Job(v) # Job(w)
    <2>1. v # w /\ Carrying(v) /\ Job(v)' = Job(v)
      BY <1>0, <1>1, <1>7 DEF Carrying, Job
    <2> QED BY <1>1, <2>1 DEF PInv, HInv, OneHand, Carrying
  <1>8. OneHand'
    <2>1. \A q \in Requesters : Taking(q)' = Taking(q) /\ qjob'[q] = qjob[q]
      BY <1>1 DEF Taking, requestVars
    <2>2. \A q \in Requesters : Taking(q) => qjob[q] # Job(w)
      BY <1>1 DEF PInv, HInv, OneHand, Carrying
    <2>3. \A q \in Requesters, m \in Messages : Taking(q)' /\ Sent(m)' => qjob'[q] # m.job
      BY <1>3, <2>1, <2>2 DEF PInv, HInv, OneHand
    <2>4. \A m \in Messages, v \in Workers : Sent(m)' /\ Carrying(v)' => m.job # Job(v)'
      BY <1>3, <1>7 DEF PInv, HInv, OneHand
    <2> QED BY <1>5, <1>7, <2>1, <2>3, <2>4 DEF PInv, HInv, OneHand
  <1>9. InHand'
    <2>1. \A m \in Messages : Sent(m)' => status[m.job] = "queued"
      BY <1>2, <1>3 DEF PInv, HInv, InHand
    <2>2. \A v \in Workers : v # w => Job(v)' = Job(v)
      BY <1>1 DEF Job
    <2>3. \A v \in Workers : wpc'[v] = "retry" => status'[Job(v)'] = "queued"
      BY <1>1, <2>2 DEF PInv, HInv, InHand
    <2>4. \A j \in Jobs : status'[j] = "running" => \E v \in Workers : wpc'[v] \in Working /\ Job(v)' = j
      <3>1. \A v \in Workers : wpc[v] \in Working => v # w
        BY <1>0, <1>1
      <3> QED BY <1>1, <2>2, <3>1 DEF PInv, HInv, InHand
    <2> QED BY <1>1, <1>4, <2>1, <2>3, <2>4 DEF PInv, HInv, InHand, Taking, requestVars
  <1>10. Shown'
    <2>1. \A v \in Workers : v # w => Resume(v)' = Resume(v)
      BY <1>1 DEF Job, Resume
    <2> QED BY <1>1, <2>1, ShownKept
  <1> QED BY <1>6, <1>8, <1>9, <1>10 DEF HInv

\* A claim hands the job from its message to the invocation.
LEMMA ClaimKeeps ==
  ASSUME PInv, NEW w \in Workers, NEW m \in Messages, Claim(w, m)
  PROVE  HInv' /\ Shown'
  <1>0. /\ "load" \in Working
        /\ Working \cap {"retry", "idle", "failResume"} = {}
    BY DEF Working, Processing, CheckPoints, WritePoints
  <1>1. /\ UNCHANGED <<owner, parse, evalBy, requestVars, recoveryVars, stopVars>>
        /\ \A v \in Workers \ {w} : wpc'[v] = wpc[v] /\ wmsg'[v] = wmsg[v]
        /\ wpc[w] = "idle" /\ wpc'[w] = "load" /\ wmsg'[w] = m
        /\ m.job \in Jobs /\ status[m.job] = "queued" /\ status'[m.job] = "running"
        /\ \A j \in Jobs : j # m.job => status'[j] = status[j]
        /\ Sent(m)
    BY DEF Claim, resumeVars, Sent, Messages, PInv, LInv, IInv, TypeOK
  <1>2. ~Sent(m)' /\ \A n \in Messages : n # m => queue'[n] = queue[n]
    <2>1. queue' = [queue EXCEPT ![m] = queue[m] - 1] /\ queue \in [Messages -> Nat] /\ queue[m] = 1
      BY <1>1 DEF Claim, PInv, LInv, IInv, TypeOK, HInv, InHand
    <2> QED BY <2>1 DEF Sent
  <1>3. \A n \in Messages : Sent(n)' => n # m /\ Sent(n) /\ n.job # m.job
    BY <1>1, <1>2 DEF Sent, PInv, HInv, OneHand
  <1>4. /\ \A v \in Workers : v # w => Job(v)' = Job(v) /\ Resume(v)' = Resume(v)
        /\ Job(w)' = m.job
        /\ \A v \in Workers : v # w => Carrying(v)' = Carrying(v)
        /\ \A v \in Workers : Carrying(v) => v # w /\ Job(v) # m.job
    BY <1>0, <1>1 DEF Job, Resume, Carrying, PInv, HInv, OneHand
  <1>5. \A q \in Requesters : Taking(q)' = Taking(q) /\ qjob'[q] = qjob[q] /\ (Taking(q) => qjob[q] # m.job)
    BY <1>1 DEF Taking, requestVars, PInv, HInv, OneHand
  <1>6. Undone'
    BY <1>1, <1>3 DEF PInv, HInv, Undone, recoveryVars, stopVars, requestVars
  <1>7. OneHand'
    <2>1. \A p, q \in Requesters : Taking(p)' /\ Taking(q)' /\ qjob'[p] = qjob'[q] => p = q
      BY <1>5 DEF PInv, HInv, OneHand
    <2>2. \A k, n \in Messages : Sent(k)' /\ Sent(n)' /\ k.job = n.job => k = n
      BY <1>3 DEF PInv, HInv, OneHand
    <2>3. \A u, v \in Workers : Carrying(u)' /\ Carrying(v)' /\ Job(u)' = Job(v)' => u = v
      BY <1>4 DEF PInv, HInv, OneHand
    <2>4. \A q \in Requesters, n \in Messages : Taking(q)' /\ Sent(n)' => qjob'[q] # n.job
      BY <1>3, <1>5 DEF PInv, HInv, OneHand
    <2>5. \A q \in Requesters, v \in Workers : Taking(q)' /\ Carrying(v)' => qjob'[q] # Job(v)'
      BY <1>4, <1>5 DEF PInv, HInv, OneHand
    <2>6. \A n \in Messages, v \in Workers : Sent(n)' /\ Carrying(v)' => n.job # Job(v)'
      BY <1>3, <1>4 DEF PInv, HInv, OneHand
    <2> QED BY <2>1, <2>2, <2>3, <2>4, <2>5, <2>6 DEF OneHand
  <1>8. InHand'
    <2>1. \A q \in Requesters : Taking(q)' => status'[qjob'[q]] = "queued"
      BY <1>1, <1>5, InHandActive
    <2>2. \A n \in Messages : Sent(n)' => status'[n.job] = "queued" /\ queue'[n] = 1
      BY <1>1, <1>2, <1>3, InHandActive DEF PInv, HInv, InHand
    <2>3. \A v \in Workers : wpc'[v] = "retry" => status'[Job(v)'] = "queued"
      <3> SUFFICES ASSUME NEW v \in Workers, wpc'[v] = "retry" PROVE status'[Job(v)'] = "queued"
        OBVIOUS
      <3>1. v # w /\ wpc[v] = "retry" /\ Carrying(v)
        BY <1>1 DEF Carrying
      <3> QED BY <1>1, <1>4, <3>1, InHandActive
    <2>4. \A j \in Jobs : status'[j] = "running" => \E v \in Workers : wpc'[v] \in Working /\ Job(v)' = j
      <3> SUFFICES ASSUME NEW j \in Jobs, status'[j] = "running"
                   PROVE  \E v \in Workers : wpc'[v] \in Working /\ Job(v)' = j
        OBVIOUS
      <3>1. CASE j = m.job
        BY <1>0, <1>1, <1>4, <3>1
      <3>2. CASE j # m.job
        <4>1. PICK v \in Workers : wpc[v] \in Working /\ Job(v) = j
          BY <1>1, <3>2 DEF PInv, HInv, InHand
        <4>2. v # w
          BY <1>0, <1>1, <4>1
        <4> QED BY <1>1, <1>4, <4>1, <4>2
      <3> QED BY <3>1, <3>2
    <2> QED BY <2>1, <2>2, <2>3, <2>4 DEF InHand
  <1>9. Shown'
    <2>1. \A j \in Jobs : status[j] \in ActiveStatus => status'[j] \in ActiveStatus /\ owner'[j] = owner[j]
      BY <1>1 DEF ActiveStatus
    <2>2. \A v \in Workers : wpc[v] = "failResume" => wpc'[v] = "failResume" /\ Resume(v)' = Resume(v)
      BY <1>1, <1>4
    <2>3. \A v \in Workers : wpc'[v] \in {"notify", "complete"} => wpc'[v] = wpc[v] /\ Resume(v)' = Resume(v)
      BY <1>1, <1>4
    <2> QED BY <1>1, <2>1, <2>2, <2>3, ShownKept
  <1> QED BY <1>6, <1>7, <1>8, <1>9 DEF HInv

\* A request moves no job of another; the row it takes was in nobody's hand.
LEMMA RequestKeeps ==
  ASSUME PInv, NEW q \in Requesters,
         \/ PickJob(q) \/ RequeueFailed(q) \/ RequeueLost(q)
         \/ (\E j \in Jobs : InsertNew(q, j)) \/ InsertIgnored(q)
         \/ (\E r \in Resumes : StartReprocess(q, r))
  PROVE  HInv' /\ Shown'
  <1>1. /\ UNCHANGED <<queue, workerVars, parse, evalBy, recoveryVars, stopVars>>
        /\ \A p \in Requesters \ {q} : qpc'[p] = qpc[p] /\ qjob'[p] = qjob[p]
        /\ ~Taking(q)
        /\ qpc'[q] \in {"idle", "pick", "requeue", "insert", "clear"}
    BY DEF PickJob, RequeueFailed, RequeueLost, InsertNew, InsertIgnored, StartReprocess, Proceed,
       Answer, resumeVars, Taking, PInv, LInv, IInv, TypeOK
  <1>2. /\ \A j \in Jobs : status[j] \in ActiveStatus => status'[j] = status[j] /\ owner'[j] = owner[j]
        /\ \A j \in Jobs : status'[j] = "running" => status[j] = "running"
        /\ Taking(q)' => /\ qjob'[q] \in Jobs
                         /\ status'[qjob'[q]] = "queued" /\ status[qjob'[q]] \notin ActiveStatus
    BY DEF PickJob, RequeueFailed, RequeueLost, InsertNew, InsertJob, InsertIgnored, StartReprocess,
       Proceed, Answer, Taking, jobVars, ActiveStatus, PInv, LInv, IInv, TypeOK, References, KnownJob
  <1>3. /\ \A w \in Workers : Carrying(w)' = Carrying(w) /\ Job(w)' = Job(w)
        /\ \A m \in Messages : Sent(m)' = Sent(m)
        /\ \A p \in Requesters : p # q => Taking(p)' = Taking(p) /\ qjob'[p] = qjob[p]
    BY <1>1 DEF workerVars, Carrying, Job, Sent, Taking
  <1>4. Undone'
    BY <1>1 DEF workerVars, PInv, HInv, Undone, Sent, recoveryVars, stopVars
  <1>5. ASSUME Taking(q)'
        PROVE  /\ \A p \in Requesters : Taking(p) => qjob[p] # qjob'[q]
               /\ \A m \in Messages : Sent(m) => m.job # qjob'[q]
               /\ \A w \in Workers : Carrying(w) => Job(w) # qjob'[q]
    BY <1>2, <1>5, InHandActive DEF ActiveStatus
  <1>6. OneHand'
    <2>1. ASSUME NEW p \in Requesters, NEW s \in Requesters, Taking(p)', Taking(s)', qjob'[p] = qjob'[s]
          PROVE  p = s
      <3>1. CASE p # q /\ s # q
        BY <1>3, <2>1, <3>1 DEF PInv, HInv, OneHand
      <3>2. CASE p = q \/ s = q
        BY <1>3, <1>5, <2>1, <3>2
      <3> QED BY <3>1, <3>2
    <2>2. ASSUME NEW p \in Requesters, NEW m \in Messages, Taking(p)', Sent(m)'
          PROVE  qjob'[p] # m.job
      BY <1>3, <1>5, <2>2 DEF PInv, HInv, OneHand
    <2>3. ASSUME NEW p \in Requesters, NEW w \in Workers, Taking(p)', Carrying(w)'
          PROVE  qjob'[p] # Job(w)'
      BY <1>3, <1>5, <2>3 DEF PInv, HInv, OneHand
    <2> QED BY <1>3, <2>1, <2>2, <2>3 DEF PInv, HInv, OneHand
  <1>7. InHand'
    <2>1. ASSUME NEW p \in Requesters, Taking(p)' PROVE status'[qjob'[p]] = "queued"
      BY <1>2, <1>3, <2>1, InHandActive DEF ActiveStatus
    <2>2. ASSUME NEW m \in Messages, Sent(m)' PROVE status'[m.job] = "queued" /\ queue'[m] = 1
      BY <1>1, <1>2, <1>3, <2>2, InHandActive DEF ActiveStatus, PInv, HInv, InHand
    <2>3. ASSUME NEW w \in Workers, wpc'[w] = "retry" PROVE status'[Job(w)'] = "queued"
      BY <1>1, <1>2, <1>3, <2>3, InHandActive DEF ActiveStatus, workerVars, Carrying
    <2>4. ASSUME NEW j \in Jobs, status'[j] = "running"
          PROVE  \E w \in Workers : wpc'[w] \in Working /\ Job(w)' = j
      BY <1>1, <1>2, <1>3, <2>4 DEF workerVars, PInv, HInv, InHand
    <2> QED BY <2>1, <2>2, <2>3, <2>4 DEF InHand
  <1>8. Shown'
    <2>1. ASSUME NEW w \in Workers, wpc[w] \in {"failResume", "notify", "complete"}
          PROVE  Resume(w)' = Resume(w)
      <3>1. /\ Job(w) \in Jobs /\ Job(w)' = Job(w)
            /\ status[Job(w)] # "none" /\ owner[Job(w)] \in Resumes
        BY <1>1, <2>1 DEF workerVars, PInv, LInv, IInv, References, HeldMessage, JobOwned, Job, Messages
      <3>2. owner'[Job(w)] = owner[Job(w)]
        BY <3>1 DEF PickJob, RequeueFailed, RequeueLost, InsertNew, InsertJob, InsertIgnored,
           StartReprocess, jobVars, PInv, LInv, IInv, TypeOK
      <3> QED BY <3>1, <3>2 DEF Resume
    <2>2. \A j \in Jobs : status[j] \in ActiveStatus => status'[j] \in ActiveStatus /\ owner'[j] = owner[j]
      BY <1>2
    <2> QED BY <1>1, <2>1, <2>2, ShownKept DEF workerVars
  <1> QED BY <1>4, <1>6, <1>7, <1>8 DEF HInv

\* The request that took a job clears its resume before anybody can claim the
\* job, so no other job of the resume is being worked on.
LEMMA ClearKeeps ==
  ASSUME PInv, NEW q \in Requesters, ClearResume(q)
  PROVE  HInv' /\ Shown'
  <1>1. /\ UNCHANGED <<status, owner, queue, workerVars, qjob, recoveryVars, stopVars>>
        /\ \A p \in Requesters \ {q} : qpc'[p] = qpc[p]
        /\ qpc[q] = "clear" /\ qpc'[q] = "send"
        /\ qres[q] \in Resumes
    BY DEF ClearResume, Proceed, jobVars, PInv, LInv, IInv, TypeOK, References, KnownJob
  <1>2. /\ qjob[q] \in ActiveJobs(qres[q]) /\ status[qjob[q]] = "queued"
    BY <1>1, InHandActive DEF Taking, ActiveJobs, ActiveStatus, PInv, LInv, IInv, References, KnownJob
  <1>3. /\ \A w \in Workers : Carrying(w)' = Carrying(w) /\ Job(w)' = Job(w) /\ Resume(w)' = Resume(w)
        /\ \A m \in Messages : Sent(m)' = Sent(m)
        /\ \A p \in Requesters : Taking(p)' = Taking(p) /\ qjob'[p] = qjob[p]
    BY <1>1 DEF workerVars, Carrying, Job, Resume, Sent, Taking
  <1>4. Undone'
    BY <1>1 DEF workerVars, PInv, HInv, Undone, Sent, recoveryVars, stopVars
  <1>5. OneHand'
    BY <1>3, HandsKept DEF PInv, HInv
  <1>6. InHand'
    BY <1>1, <1>3 DEF workerVars, PInv, HInv, InHand
  <1>7. Shown'
    <2>1. ASSUME NEW r \in Resumes, parse'[r] \in InProgress
          PROVE  \/ ActiveJobs(r)' # {}
                 \/ \E w \in Workers : wpc'[w] = "failResume" /\ Resume(w)' = r
      <3>1. ActiveJobs(r)' = ActiveJobs(r)
        BY <1>1 DEF ActiveJobs
      <3>2. CASE r = qres[q]
        BY <1>2, <3>1, <3>2
      <3>3. CASE r # qres[q]
        <4>1. parse'[r] = parse[r]
          BY <3>3 DEF ClearResume, PInv, LInv, IInv, TypeOK
        <4> QED BY <1>1, <1>3, <2>1, <3>1, <4>1 DEF workerVars, PInv, Shown
      <3> QED BY <3>2, <3>3
    <2>2. ASSUME NEW w \in Workers, wpc'[w] \in {"notify", "complete"}
          PROVE  evalBy'[Resume(w)'] # NoEval /\ parse'[Resume(w)'] \notin InProgress
      <3>1. wpc[w] \in {"notify", "complete"} /\ Carrying(w)
        BY <1>1, <2>2 DEF workerVars, Carrying, Working, Processing
      <3>2. Job(w) \in Jobs /\ status[Job(w)] = "running"
        BY <3>1, InHandActive
      <3>3. Resume(w) # qres[q]
        BY <1>2, <3>2 DEF ActiveJobs, ActiveStatus, Resume, PInv, OneActiveJobPerResume
      <3>4. evalBy'[Resume(w)] = evalBy[Resume(w)] /\ parse'[Resume(w)] = parse[Resume(w)]
        BY <3>3 DEF ClearResume, PInv, LInv, IInv, TypeOK
      <3> QED BY <1>3, <3>1, <3>4 DEF PInv, Shown
    <2> QED BY <2>1, <2>2 DEF Shown
  <1> QED BY <1>4, <1>5, <1>6, <1>7 DEF HInv

\* The request hands the job to its message.
LEMMA SendKeeps ==
  ASSUME PInv, NEW q \in Requesters, Send(q)
  PROVE  HInv' /\ Shown'
  <1> DEFINE m == [job |-> qjob[q], reprocess |-> TRUE, tries |-> 0]
  <1>1. /\ UNCHANGED <<status, owner, parse, evalBy, workerVars, recoveryVars, stopVars>>
        /\ \A p \in Requesters \ {q} : qpc'[p] = qpc[p] /\ qjob'[p] = qjob[p]
        /\ Taking(q) /\ qpc'[q] = "idle"
        /\ Enqueue(m)
    BY DEF Send, Answer, jobVars, resumeVars, Taking, PInv, LInv, IInv, TypeOK
  <1>2. m \in Messages /\ m.job = qjob[q] /\ m.reprocess
    BY <1>1, InHandActive, QueueAssumption DEF Messages
  <1> HIDE DEF m
  <1>3. /\ \A n \in Messages : Sent(n) => n.job # qjob[q]
        /\ \A w \in Workers : Carrying(w) => Job(w) # qjob[q]
        /\ \A p \in Requesters : Taking(p) /\ p # q => qjob[p] # qjob[q]
        /\ status[qjob[q]] = "queued"
    BY <1>1, InHandActive DEF PInv, HInv, OneHand
  <1>4. \A n \in Messages : Sent(n)' => (n = m \/ Sent(n)) /\ queue'[n] = 1
    <2>1. ~Sent(m)
      BY <1>2, <1>3
    <2> QED BY <1>1, <1>2, <2>1, EnqueuedOnce DEF Sent, PInv, LInv, HInv, InHand
  <1>5. /\ \A w \in Workers : Carrying(w)' = Carrying(w) /\ Job(w)' = Job(w) /\ Resume(w)' = Resume(w)
        /\ \A p \in Requesters : Taking(p)' => p # q /\ Taking(p) /\ qjob'[p] = qjob[p]
    BY <1>1 DEF workerVars, Carrying, Job, Resume, Taking
  <1>6. Undone'
    BY <1>1, <1>2, <1>4 DEF workerVars, PInv, HInv, Undone, recoveryVars, stopVars
  <1>7. OneHand'
    <2>1. \A k, n \in Messages : Sent(k)' /\ Sent(n)' /\ k.job = n.job => k = n
      BY <1>2, <1>3, <1>4 DEF PInv, HInv, OneHand
    <2>2. \A p \in Requesters, n \in Messages : Taking(p)' /\ Sent(n)' => qjob'[p] # n.job
      BY <1>2, <1>3, <1>4, <1>5 DEF PInv, HInv, OneHand
    <2>3. \A n \in Messages, w \in Workers : Sent(n)' /\ Carrying(w)' => n.job # Job(w)'
      BY <1>2, <1>3, <1>4, <1>5 DEF PInv, HInv, OneHand
    <2> QED BY <1>5, <2>1, <2>2, <2>3 DEF PInv, HInv, OneHand
  <1>8. InHand'
    BY <1>1, <1>2, <1>3, <1>4, <1>5 DEF workerVars, PInv, HInv, InHand
  <1>9. Shown'
    BY <1>1, <1>5, ShownKept DEF workerVars
  <1> QED BY <1>6, <1>7, <1>8, <1>9 DEF HInv

\* The invariant of reprocessing alone is inductive.
LEMMA ReprocessStep ==
  ASSUME ReprocessAlone
  PROVE  PInv /\ [Next]_vars => PInv'
  <1> SUFFICES ASSUME PInv, [Next]_vars PROVE PInv'
    OBVIOUS
  <1>1. LInv' /\ OneActiveJobPerResume'
    BY StepLease, StepOneActive DEF PInv, LInv, ReprocessAlone
  <1>2. CASE UNCHANGED vars
    BY <1>1, <1>2 DEF PInv, HInv, Undone, InHand, OneHand, Shown, Taking, Carrying, Sent, Job, Resume,
       ActiveJobs, vars, jobVars, resumeVars, workerVars, requestVars, recoveryVars, stopVars
  <1>3. ASSUME NEW w \in Workers, WorkerStep(w) \/ Raise(w) PROVE HInv' /\ Shown'
    BY <1>3, QuietKeeps, QuietShown, SettleKeeps, RetryKeeps DEF QuietStep
  <1>4. CASE Next
    <2>1. HInv' /\ Shown'
      BY <1>3, <1>4, OnlyReprocessing, ClaimKeeps, RequestKeeps, ClearKeeps, SendKeeps
    <2> QED BY <1>1, <2>1 DEF PInv
  <1> QED BY <1>2, <1>4

\* While only reprocessing happens, nothing at rest is shown as being processed
\* for ever.
THEOREM NoPhantom ==
  ASSUME ReprocessAlone
  PROVE  Spec => []NoPhantomProgress
  <1>1. PInv => NoPhantomProgress
    BY DEF PInv, Shown, NoPhantomProgress, Quiescent
  <1> QED BY <1>1, ReprocessInit, ReprocessStep, PTL DEF Spec

\* While only reprocessing happens, a job is completed only after its resume
\* got an evaluation, which the request that cleared the old one cannot wipe.
THEOREM CompletedResult ==
  ASSUME ReprocessAlone
  PROVE  Spec => CompletedHasResult
  <1> DEFINE Kept == \A j \in Jobs : status[j] # "completed" /\ status'[j] = "completed" =>
          evalBy'[owner[j]] # NoEval
  <1>1. PInv /\ [Next]_vars => [Kept]_vars
    <2> SUFFICES ASSUME PInv, Next, NEW j \in Jobs, status[j] # "completed", status'[j] = "completed"
                 PROVE  evalBy'[owner[j]] # NoEval
      OBVIOUS
    <2>1. PICK w \in Workers : Complete(w) /\ Job(w) = j
      <3>1. ASSUME NEW w \in Workers, WorkerStep(w) \/ Raise(w) PROVE Complete(w) /\ Job(w) = j
        BY <3>1 DEF WorkerStep, Load, GetText, CheckRunning, StopQuietly, WriteText, CallAI, WriteFields,
           WriteScreen, WriteResult, WriteDone, Notify, Complete, ResetJob, MoveIfRunning, Retry, FailJob,
           FailResume, Ack, Raise, jobVars, PInv, LInv, IInv, TypeOK
      <3>2. ~\E w \in Workers, m \in Messages : Claim(w, m)
        BY DEF Claim, PInv, LInv, IInv, TypeOK
      <3>3. ~\E q \in Requesters, r \in Resumes : StartReprocess(q, r)
        BY DEF StartReprocess, jobVars
      <3>4. ~\E q \in Requesters :
               \/ PickJob(q) \/ RequeueFailed(q) \/ RequeueLost(q)
               \/ (\E i \in Jobs : InsertNew(q, i)) \/ InsertIgnored(q)
               \/ ClearResume(q) \/ Send(q)
        BY DEF PickJob, RequeueFailed, RequeueLost, InsertNew, InsertJob, InsertIgnored, ClearResume, Send,
           jobVars, PInv, LInv, IInv, TypeOK
      <3> QED BY <3>1, <3>2, <3>3, <3>4, OnlyReprocessing
    <2>2. evalBy[owner[j]] # NoEval /\ evalBy' = evalBy
      BY <2>1 DEF Complete, resumeVars, PInv, Shown, Resume
    <2> QED BY <2>2
  <1> QED BY <1>1, ReprocessInit, ReprocessStep, PTL DEF Spec, CompletedHasResult

=============================================================================
