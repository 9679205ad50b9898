----------------------------- MODULE ResumeQueue -----------------------------
(***************************************************************************)
(* The resume-processing queue: request handlers that create or requeue a  *)
(* job and send its message, consumer invocations that claim a job and     *)
(* write its results, the stale-job recovery run by the cron trigger and   *)
(* by progress polls, and the batch stop that cancels jobs.                *)
(*                                                                         *)
(* Each D1 statement is one step, because D1 gives no transaction around   *)
(* two of them and every process here interleaves with the others.  A read *)
(* or a remote call is merged with the statement before it when no other   *)
(* process can tell the difference.                                        *)
(***************************************************************************)
EXTENDS Naturals, FiniteSets

CONSTANTS
    Resumes, Jobs,    \* rows of resumes; identifiers for rows of resume_processing_jobs
    Workers,          \* concurrent consumer invocations (max_concurrency)
    Requesters,       \* HTTP requests that may be under way at once
    NoJob, NoResume,  \* no row
    MaxTries,         \* redeliveries of one message before the queue drops it
    MaxAsked,         \* bound: user requests (upload, reprocess, stop) in a behaviour
    MaxCrashes,       \* bound: invocations that die in a behaviour
    MaxDuplicates,    \* bound: messages the queue delivers once more than sent
    SlowWorkers,      \* a live invocation may go longer than the lease without a heartbeat
    Stoppable,        \* the user may stop a batch
    SendMayFail,      \* queue.send may be refused
    Uploads           \* resumes are uploaded or synchronised, not only reprocessed

ASSUME QueueAssumption ==
    /\ MaxTries \in Nat /\ MaxAsked \in Nat
    /\ MaxCrashes \in Nat /\ MaxDuplicates \in Nat
    /\ SlowWorkers \in BOOLEAN /\ Stoppable \in BOOLEAN /\ SendMayFail \in BOOLEAN
    /\ Uploads \in BOOLEAN
    /\ NoJob \notin Jobs /\ NoResume \notin Resumes

VARIABLES
    \* resume_processing_jobs, column by column
    status, owner, attempt,
    expired,          \* expired[j]: updated_at of j is older than the ten-minute lease
    \* resumes, column by column
    parse,            \* parse_status
    evalBy,           \* ai_evaluation: which claim of which job wrote it, or NoEval
    text,             \* raw_text / ocr_markdown / ocr_task_id
    \* the queue: how many copies of each message wait for delivery
    queue,
    \* consumer invocations
    wpc, wmsg, wrun, wsnap,
    \* request handlers
    qpc, qres, qjob,
    \* stale-job recovery
    ppc, prows, pres,
    \* batch stop
    cpc, cset,
    \* what the bounds count
    asked, crashes, duplicates

jobVars == <<status, owner, attempt, expired>>
resumeVars == <<parse, evalBy, text>>
workerVars == <<wpc, wmsg, wrun, wsnap>>
requestVars == <<qpc, qres, qjob>>
recoveryVars == <<ppc, prows, pres>>
stopVars == <<cpc, cset>>
boundVars == <<asked, crashes, duplicates>>
vars == <<jobVars, resumeVars, queue, workerVars, requestVars, recoveryVars,
          stopVars, boundVars>>

-----------------------------------------------------------------------------
ActiveStatus == {"queued", "running"}
JobStatus == {"none", "queued", "running", "completed", "failed", "cancelled"}

ParseStatus == {"pending_screening", "queued", "extracting_fields", "screening",
                "ai_screened", "failed"}

\* parse_status values the resume list keeps polling
InProgress == {"queued", "extracting_fields", "screening"}

TextState == {"none", "task", "ready"}

\* Every claim raises attempt_count, so <<job, attempt>> names one claim.
NoEval == <<NoJob, 0>>
Claims == Jobs \X (Nat \ {0})

Messages == [job : Jobs, reprocess : BOOLEAN, tries : 0..MaxTries]

Idle == [job |-> NoJob, reprocess |-> FALSE, tries |-> 0]

\* What the invocation remembers of the row it loaded.
Snapshot == [evaluated : BOOLEAN, text : TextState]
NoSnapshot == [evaluated |-> FALSE, text |-> "none"]

ActiveJobs(r) == {j \in Jobs : owner[j] = r /\ status[j] \in ActiveStatus}

\* Program counters at which the assertion comes before a write, the write
\* that follows it, and the steps of processResume and of the consumer round it.
CheckPoints == {"checkText", "checkFields", "checkScreen", "checkResult", "checkDone"}
WritePoints == {"writeText", "writeFields", "writeScreen", "writeResult", "writeDone"}
WriteAfter == [checkText |-> "writeText", checkFields |-> "writeFields",
               checkScreen |-> "writeScreen", checkResult |-> "writeResult",
               checkDone |-> "writeDone"]
Processing == {"load", "text", "extract", "screen", "notify", "complete"}
              \cup CheckPoints \cup WritePoints
Holding == Processing \cup {"reset", "retry", "fail", "failResume", "ack"}

RequestPoints == {"pick", "requeue", "insert", "clear", "send",
                  "upload", "uploadSelect", "uploadSend"}

-----------------------------------------------------------------------------
Init ==
    /\ status = [j \in Jobs |-> "none"]
    /\ owner = [j \in Jobs |-> NoResume]
    /\ attempt = [j \in Jobs |-> 0]
    /\ expired = [j \in Jobs |-> FALSE]
    /\ parse = [r \in Resumes |-> "pending_screening"]
    /\ evalBy = [r \in Resumes |-> NoEval]
    /\ text \in [Resumes -> {"none", "ready"}]
    /\ queue = [m \in Messages |-> 0]
    /\ wpc = [w \in Workers |-> "idle"]
    /\ wmsg = [w \in Workers |-> Idle]
    /\ wrun = [w \in Workers |-> 0]
    /\ wsnap = [w \in Workers |-> NoSnapshot]
    /\ qpc = [q \in Requesters |-> "idle"]
    /\ qres = [q \in Requesters |-> NoResume]
    /\ qjob = [q \in Requesters |-> NoJob]
    /\ ppc = "idle" /\ prows = {} /\ pres = NoResume
    /\ cpc = "idle" /\ cset = {}
    /\ asked = 0 /\ crashes = 0 /\ duplicates = 0

-----------------------------------------------------------------------------
(* The queue: at least once, in any order. *)

Enqueue(m) == queue' = [queue EXCEPT ![m] = @ + 1]

\* message.retry, or the redelivery of a message whose invocation died: the
\* queue delivers it again until its retries are used up, then drops it (no
\* dead-letter queue is configured for resume-processing).
Redeliver(m) ==
    IF m.tries < MaxTries
    THEN Enqueue([m EXCEPT !.tries = @ + 1])
    ELSE UNCHANGED queue

Duplicate(m) ==
    /\ duplicates < MaxDuplicates
    /\ queue[m] > 0
    /\ duplicates' = duplicates + 1
    /\ Enqueue(m)
    /\ UNCHANGED <<jobVars, resumeVars, workerVars, requestVars, recoveryVars,
                   stopVars, asked, crashes>>

-----------------------------------------------------------------------------
(* Consumer: handleResumeQueueMessage around processResume. *)

Goto(w, pc) == wpc' = [wpc EXCEPT ![w] = pc]

Forget(w) == wsnap' = [wsnap EXCEPT ![w] = NoSnapshot]

\* The message is settled and the invocation forgets it.
Release(w) ==
    /\ wpc' = [wpc EXCEPT ![w] = "idle"]
    /\ wmsg' = [wmsg EXCEPT ![w] = Idle]
    /\ wrun' = [wrun EXCEPT ![w] = 0]
    /\ Forget(w)

Job(w) == wmsg[w].job
Resume(w) == owner[Job(w)]

\* Every statement on a job row sets updated_at; setJobStep does nothing else
\* that matters here, and only to a running job.  (Only those can be stale.)
Touch(j) == expired' = [expired EXCEPT ![j] = FALSE]
Heartbeat(j) == Touch(j)

\* Mutant of Claim: the UPDATE forgets AND status='queued'.
ClaimAnyActive(w, m) ==
    /\ wpc[w] = "idle"
    /\ queue[m] > 0
    /\ status[m.job] \in ActiveStatus
    /\ queue' = [queue EXCEPT ![m] = @ - 1]
    /\ status' = [status EXCEPT ![m.job] = "running"]
    /\ attempt' = [attempt EXCEPT ![m.job] = @ + 1]
    /\ Touch(m.job)
    /\ wpc' = [wpc EXCEPT ![w] = "load"]
    /\ wmsg' = [wmsg EXCEPT ![w] = m]
    /\ wrun' = [wrun EXCEPT ![w] = attempt[m.job] + 1]
    /\ UNCHANGED <<owner, resumeVars, wsnap, requestVars, recoveryVars,
                   stopVars, boundVars>>

\* Mutant of Claim: a job is claimed once only (AND attempt_count=0).
ClaimFirstAttempt(w, m) ==
    /\ wpc[w] = "idle"
    /\ queue[m] > 0
    /\ status[m.job] = "queued" /\ attempt[m.job] = 0
    /\ queue' = [queue EXCEPT ![m] = @ - 1]
    /\ status' = [status EXCEPT ![m.job] = "running"]
    /\ attempt' = [attempt EXCEPT ![m.job] = @ + 1]
    /\ Touch(m.job)
    /\ wpc' = [wpc EXCEPT ![w] = "load"]
    /\ wmsg' = [wmsg EXCEPT ![w] = m]
    /\ wrun' = [wrun EXCEPT ![w] = attempt[m.job] + 1]
    /\ UNCHANGED <<owner, resumeVars, wsnap, requestVars, recoveryVars,
                   stopVars, boundVars>>

\* A delivery starts with claimJob; a job that is not queued is not claimed,
\* and its message is acknowledged at once.
Claim(w, m) ==
    /\ wpc[w] = "idle"
    /\ queue[m] > 0
    /\ status[m.job] = "queued"
    /\ queue' = [queue EXCEPT ![m] = @ - 1]
    /\ status' = [status EXCEPT ![m.job] = "running"]
    /\ attempt' = [attempt EXCEPT ![m.job] = @ + 1]
    /\ Touch(m.job)
    /\ wpc' = [wpc EXCEPT ![w] = "load"]
    /\ wmsg' = [wmsg EXCEPT ![w] = m]
    /\ wrun' = [wrun EXCEPT ![w] = attempt[m.job] + 1]
    /\ UNCHANGED <<owner, resumeVars, wsnap, requestVars, recoveryVars,
                   stopVars, boundVars>>

SkipUnclaimable(w, m) ==
    /\ wpc[w] = "idle"
    /\ queue[m] > 0
    /\ status[m.job] # "queued"
    /\ queue' = [queue EXCEPT ![m] = @ - 1]
    /\ UNCHANGED <<jobVars, resumeVars, workerVars, requestVars, recoveryVars,
                   stopVars, boundVars>>

\* getResume, then setJobStep('extracting_text').
Load(w) ==
    /\ wpc[w] = "load"
    /\ wsnap' = [wsnap EXCEPT ![w] = [evaluated |-> evalBy[Resume(w)] # NoEval,
                                      text |-> text[Resume(w)]]]
    /\ Heartbeat(Job(w))
    /\ Goto(w, "text")
    /\ UNCHANGED <<status, owner, attempt, resumeVars, queue, wmsg, wrun,
                   requestVars, recoveryVars, stopVars, boundVars>>

\* resolveResumeText decides on the row that was loaded, not on the row as it
\* is now.  A text long enough is used; without one an OCR task is started, and
\* a started task is polled.
UseText(w) ==
    /\ wsnap[w].text = "ready"
    /\ wsnap' = [wsnap EXCEPT ![w].text = "none"]
    /\ Goto(w, "checkText")
    /\ UNCHANGED text

StartOcr(w) ==
    /\ wsnap[w].text = "none"
    /\ text' = [text EXCEPT ![Resume(w)] = "task"]
    /\ Forget(w)
    /\ Goto(w, "reset")

OcrDone(w) ==
    /\ wsnap[w].text = "task"
    /\ text' = [text EXCEPT ![Resume(w)] = "ready"]
    /\ wsnap' = [wsnap EXCEPT ![w].text = "none"]
    /\ Goto(w, "checkText")

\* The task is still processing, or a sign / upload / status / download
\* request failed: RetryableResumeError.
OcrPending(w) ==
    /\ wsnap[w].text \in {"none", "task"}
    /\ Forget(w)
    /\ Goto(w, "reset")
    /\ UNCHANGED text

GetText(w) ==
    /\ wpc[w] = "text"
    /\ UseText(w) \/ StartOcr(w) \/ OcrDone(w) \/ OcrPending(w)
    /\ UNCHANGED <<jobVars, parse, evalBy, queue, wmsg, wrun, requestVars,
                   recoveryVars, stopVars, boundVars>>

\* assertJobRunning: a job that is not running raises
\* ResumeProcessingCancelledError, on which the consumer only acknowledges.
CheckRunning(w) ==
    /\ wpc[w] \in CheckPoints
    /\ status[Job(w)] = "running"
    /\ Goto(w, WriteAfter[wpc[w]])
    /\ UNCHANGED <<jobVars, resumeVars, queue, wmsg, wrun, wsnap, requestVars,
                   recoveryVars, stopVars, boundVars>>

StopQuietly(w) ==
    /\ wpc[w] \in CheckPoints
    /\ status[Job(w)] # "running"
    /\ Release(w)
    /\ UNCHANGED <<jobVars, resumeVars, queue, requestVars, recoveryVars,
                   stopVars, boundVars>>


\* After the text (and the fields, if they were extracted): a reprocess always
\* screens, a first run only when the row that was loaded had no evaluation.
ScreenOrFinish(w) ==
    IF wmsg[w].reprocess \/ ~wsnap[w].evaluated THEN "screen" ELSE "checkDone"

WriteParse(w, value) == parse' = [parse EXCEPT ![Resume(w)] = value]
WriteEval(w) == evalBy' = [evalBy EXCEPT ![Resume(w)] = <<Job(w), wrun[w]>>]

\* Whether reusable fields exist in parsed_data is left open.
WriteText(w) ==
    /\ wpc[w] = "writeText"
    /\ WriteParse(w, "extracting_fields")
    /\ \E next \in {"extract", ScreenOrFinish(w)} : Goto(w, next)
    /\ UNCHANGED <<jobVars, evalBy, text, queue, wmsg, wrun, wsnap, requestVars,
                   recoveryVars, stopVars, boundVars>>

\* setJobStep, then an AI call that answers.
CallAI(w) ==
    /\ wpc[w] \in {"extract", "screen"}
    /\ Heartbeat(Job(w))
    /\ Goto(w, IF wpc[w] = "extract" THEN "checkFields" ELSE "checkScreen")
    /\ UNCHANGED <<status, owner, attempt, resumeVars, queue, wmsg, wrun, wsnap,
                   requestVars, recoveryVars, stopVars, boundVars>>

WriteFields(w) ==
    /\ wpc[w] = "writeFields"
    /\ WriteParse(w, "screening")
    /\ Goto(w, ScreenOrFinish(w))
    /\ UNCHANGED <<jobVars, evalBy, text, queue, wmsg, wrun, wsnap, requestVars,
                   recoveryVars, stopVars, boundVars>>

\* The write inside deps.screen: the evaluation without parse_status.
WriteScreen(w) ==
    /\ wpc[w] = "writeScreen"
    /\ WriteEval(w)
    /\ Goto(w, "checkResult")
    /\ UNCHANGED <<jobVars, parse, text, queue, wmsg, wrun, wsnap, requestVars,
                   recoveryVars, stopVars, boundVars>>

WriteResult(w) ==
    /\ wpc[w] = "writeResult"
    /\ WriteEval(w)
    /\ WriteParse(w, "ai_screened")
    /\ Goto(w, "notify")
    /\ UNCHANGED <<jobVars, text, queue, wmsg, wrun, wsnap, requestVars,
                   recoveryVars, stopVars, boundVars>>

\* Mutant of WriteDone: the parse_status of the Feishu import is written.
WriteDoneAsCompleted(w) ==
    /\ wpc[w] = "writeDone"
    /\ WriteParse(w, "completed")
    /\ Goto(w, "complete")
    /\ UNCHANGED <<jobVars, evalBy, text, queue, wmsg, wrun, wsnap, requestVars,
                   recoveryVars, stopVars, boundVars>>

WriteDone(w) ==
    /\ wpc[w] = "writeDone"
    /\ WriteParse(w, "ai_screened")
    /\ Goto(w, "complete")
    /\ UNCHANGED <<jobVars, evalBy, text, queue, wmsg, wrun, wsnap, requestVars,
                   recoveryVars, stopVars, boundVars>>

\* onScreened: enqueueAutoBusinessScreeningIfEnabled returns.
Notify(w) ==
    /\ wpc[w] = "notify"
    /\ Goto(w, "complete")
    /\ UNCHANGED <<jobVars, resumeVars, queue, wmsg, wrun, wsnap, requestVars,
                   recoveryVars, stopVars, boundVars>>

\* UPDATE ... WHERE id AND status='running'; nobody looks at meta.changes.
MoveIfRunning(j, to) ==
    /\ status' = [status EXCEPT ![j] = IF @ = "running" THEN to ELSE @]
    /\ Touch(j)

Complete(w) ==
    /\ wpc[w] = "complete"
    /\ MoveIfRunning(Job(w), "completed")
    /\ Goto(w, "ack")
    /\ UNCHANGED <<owner, attempt, resumeVars, queue, wmsg, wrun, wsnap,
                   requestVars, recoveryVars, stopVars, boundVars>>

ResetJob(w) ==
    /\ wpc[w] = "reset"
    /\ MoveIfRunning(Job(w), "queued")
    /\ Goto(w, "retry")
    /\ UNCHANGED <<owner, attempt, resumeVars, queue, wmsg, wrun, wsnap,
                   requestVars, recoveryVars, stopVars, boundVars>>

\* Mutant of Retry: the message is acknowledged after the job was reset.
RetryAsAck(w) ==
    /\ wpc[w] = "retry"
    /\ Release(w)
    /\ UNCHANGED <<jobVars, resumeVars, queue, requestVars, recoveryVars, stopVars,
                   boundVars>>

Retry(w) ==
    /\ wpc[w] = "retry"
    /\ Redeliver(wmsg[w])
    /\ Release(w)
    /\ UNCHANGED <<jobVars, resumeVars, requestVars, recoveryVars, stopVars,
                   boundVars>>

\* Anything that throws and is neither retryable nor a cancellation: the row or
\* the file is gone, the OCR task failed, the text is too short, the AI gave no
\* usable answer, onScreened or a D1 statement failed.
Raise(w) ==
    /\ wpc[w] \in Processing
    /\ Goto(w, "fail")
    /\ Forget(w)
    /\ UNCHANGED <<jobVars, resumeVars, queue, wmsg, wrun, requestVars,
                   recoveryVars, stopVars, boundVars>>

\* Mutant of FailJob: the second statement of deps.fail is missing.
FailJobOnly(w) ==
    /\ wpc[w] = "fail"
    /\ status' = [status EXCEPT ![Job(w)] = "failed"]
    /\ Touch(Job(w))
    /\ Goto(w, "ack")
    /\ UNCHANGED <<owner, attempt, resumeVars, queue, wmsg, wrun, wsnap,
                   requestVars, recoveryVars, stopVars, boundVars>>

\* deps.fail: two statements, neither of which looks at the status it replaces.
FailJob(w) ==
    /\ wpc[w] = "fail"
    /\ status' = [status EXCEPT ![Job(w)] = "failed"]
    /\ Touch(Job(w))
    /\ Goto(w, "failResume")
    /\ UNCHANGED <<owner, attempt, resumeVars, queue, wmsg, wrun, wsnap,
                   requestVars, recoveryVars, stopVars, boundVars>>

FailResume(w) ==
    /\ wpc[w] = "failResume"
    /\ WriteParse(w, "failed")
    /\ Goto(w, "ack")
    /\ UNCHANGED <<jobVars, evalBy, text, queue, wmsg, wrun, wsnap, requestVars,
                   recoveryVars, stopVars, boundVars>>

Ack(w) ==
    /\ wpc[w] = "ack"
    /\ Release(w)
    /\ UNCHANGED <<jobVars, resumeVars, queue, requestVars, recoveryVars,
                   stopVars, boundVars>>

\* The invocation dies between two statements, or throws out of the handler:
\* nothing is rolled back and the queue delivers the message again.
Crash(w) ==
    /\ wpc[w] # "idle"
    /\ crashes < MaxCrashes
    /\ crashes' = crashes + 1
    /\ Redeliver(wmsg[w])
    /\ Release(w)
    /\ UNCHANGED <<jobVars, resumeVars, requestVars, recoveryVars, stopVars,
                   asked, duplicates>>

WorkerStep(w) ==
    \/ Load(w) \/ GetText(w) \/ CheckRunning(w) \/ StopQuietly(w)
    \/ WriteText(w) \/ CallAI(w) \/ WriteFields(w) \/ WriteScreen(w)
    \/ WriteResult(w) \/ WriteDone(w) \/ Notify(w) \/ Complete(w)
    \/ ResetJob(w) \/ Retry(w) \/ FailJob(w) \/ FailResume(w) \/ Ack(w)

Deliver(w) == \E m \in Messages : Claim(w, m) \/ SkipUnclaimable(w, m)

-----------------------------------------------------------------------------
(* Requests: enqueueResumeReprocess, and createOrGetActiveJob with the send  *)
(* that its callers (uploads, Feishu synchronisation) make.                  *)

Answer(q) ==
    /\ qpc' = [qpc EXCEPT ![q] = "idle"]
    /\ qres' = [qres EXCEPT ![q] = NoResume]
    /\ qjob' = [qjob EXCEPT ![q] = NoJob]

Proceed(q, pc) == qpc' = [qpc EXCEPT ![q] = pc]

\* A request about a resume with an active job returns that job; only the
\* request that finds none goes on.
StartReprocess(q, r) ==
    /\ qpc[q] = "idle"
    /\ asked < MaxAsked
    /\ ActiveJobs(r) = {}
    /\ asked' = asked + 1
    /\ Proceed(q, "pick")
    /\ qres' = [qres EXCEPT ![q] = r]
    /\ UNCHANGED <<jobVars, resumeVars, queue, workerVars, qjob, recoveryVars,
                   stopVars, crashes, duplicates>>

FailedJobs(r) == {j \in Jobs : owner[j] = r /\ status[j] = "failed"}

\* A failed job is taken up again (any of them: updated_at order is left out);
\* without one a new row will be inserted.
PickJob(q) ==
    /\ qpc[q] = "pick"
    /\ \/ \E j \in FailedJobs(qres[q]) :
             /\ qjob' = [qjob EXCEPT ![q] = j]
             /\ Proceed(q, "requeue")
       \/ /\ FailedJobs(qres[q]) = {}
          /\ Proceed(q, "insert")
          /\ UNCHANGED qjob
    /\ UNCHANGED <<jobVars, resumeVars, queue, workerVars, qres, recoveryVars,
                   stopVars, boundVars>>

\* UPDATE ... SET status='queued' WHERE id AND status='failed'
RequeueFailed(q) ==
    /\ qpc[q] = "requeue"
    /\ status[qjob[q]] = "failed"
    /\ ActiveJobs(qres[q]) = {}
    /\ status' = [status EXCEPT ![qjob[q]] = "queued"]
    /\ Proceed(q, "clear")
    /\ UNCHANGED <<owner, attempt, expired, resumeVars, queue, workerVars, qres,
                   qjob, recoveryVars, stopVars, boundVars>>

\* Mutant of RequeueLost: meta.changes is not looked at.
RequeueLostUnnoticed(q) ==
    /\ qpc[q] = "requeue"
    /\ status[qjob[q]] # "failed" \/ ActiveJobs(qres[q]) # {}
    /\ Proceed(q, "clear")
    /\ UNCHANGED <<jobVars, resumeVars, queue, workerVars, qres, qjob,
                   recoveryVars, stopVars, boundVars>>

\* No row changed, or the unique index refused the change.
RequeueLost(q) ==
    /\ qpc[q] = "requeue"
    /\ status[qjob[q]] # "failed" \/ ActiveJobs(qres[q]) # {}
    /\ Answer(q)
    /\ UNCHANGED <<jobVars, resumeVars, queue, workerVars, recoveryVars,
                   stopVars, boundVars>>

\* Mutant of InsertJob: there is no unique index on active jobs.
InsertWithoutIndex(j, r) ==
    /\ status[j] = "none"
    /\ status' = [status EXCEPT ![j] = "queued"]
    /\ owner' = [owner EXCEPT ![j] = r]

\* INSERT OR IGNORE under idx_resume_jobs_one_active, with a fresh id.
InsertJob(j, r) ==
    /\ status[j] = "none"
    /\ ActiveJobs(r) = {}
    /\ status' = [status EXCEPT ![j] = "queued"]
    /\ owner' = [owner EXCEPT ![j] = r]

InsertNew(q, j) ==
    /\ qpc[q] = "insert"
    /\ InsertJob(j, qres[q])
    /\ qjob' = [qjob EXCEPT ![q] = j]
    /\ Proceed(q, "clear")
    /\ UNCHANGED <<attempt, expired, resumeVars, queue, workerVars, qres,
                   recoveryVars, stopVars, boundVars>>

InsertIgnored(q) ==
    /\ qpc[q] = "insert"
    /\ ActiveJobs(qres[q]) # {}
    /\ Answer(q)
    /\ UNCHANGED <<jobVars, resumeVars, queue, workerVars, recoveryVars,
                   stopVars, boundVars>>

\* resetResumeForReprocess: the job is already visible as queued.
ClearResume(q) ==
    /\ qpc[q] = "clear"
    /\ evalBy' = [evalBy EXCEPT ![qres[q]] = NoEval]
    /\ parse' = [parse EXCEPT ![qres[q]] = "queued"]
    /\ Proceed(q, "send")
    /\ UNCHANGED <<jobVars, text, queue, workerVars, qres, qjob, recoveryVars,
                   stopVars, boundVars>>

Send(q) ==
    /\ qpc[q] = "send"
    /\ Enqueue([job |-> qjob[q], reprocess |-> TRUE, tries |-> 0])
    /\ Answer(q)
    /\ UNCHANGED <<jobVars, resumeVars, workerVars, recoveryVars, stopVars,
                   boundVars>>

\* The job is failed again if it is still queued; the resume keeps what
\* resetResumeForReprocess wrote.
SendFailed(q) ==
    /\ SendMayFail
    /\ qpc[q] = "send"
    /\ status' = [status EXCEPT ![qjob[q]] = IF @ = "queued" THEN "failed" ELSE @]
    /\ Answer(q)
    /\ UNCHANGED <<owner, attempt, expired, resumeVars, queue, workerVars,
                   recoveryVars, stopVars, boundVars>>

\* The row is inserted, or overwritten by a synchronisation of a resume that
\* exists: parse_status goes back to pending_screening whatever is running.
StartUpload(q, r) ==
    /\ Uploads
    /\ qpc[q] = "idle"
    /\ asked < MaxAsked
    /\ asked' = asked + 1
    /\ parse' = [parse EXCEPT ![r] = "pending_screening"]
    /\ Proceed(q, "upload")
    /\ qres' = [qres EXCEPT ![q] = r]
    /\ UNCHANGED <<jobVars, evalBy, text, queue, workerVars, qjob, recoveryVars,
                   stopVars, crashes, duplicates>>

UploadInsert(q) ==
    /\ qpc[q] = "upload"
    /\ \/ \E j \in Jobs : InsertJob(j, qres[q])
       \/ ActiveJobs(qres[q]) # {} /\ UNCHANGED <<status, owner>>
    /\ Proceed(q, "uploadSelect")
    /\ UNCHANGED <<attempt, expired, resumeVars, queue, workerVars, qres, qjob,
                   recoveryVars, stopVars, boundVars>>

\* The active job, perhaps another request's; when it has already ended
\* createOrGetActiveJob throws.
UploadSelect(q) ==
    /\ qpc[q] = "uploadSelect"
    /\ \/ \E j \in ActiveJobs(qres[q]) :
             /\ qjob' = [qjob EXCEPT ![q] = j]
             /\ Proceed(q, "uploadSend")
             /\ UNCHANGED qres
       \/ ActiveJobs(qres[q]) = {} /\ Answer(q)
    /\ UNCHANGED <<jobVars, resumeVars, queue, workerVars, recoveryVars,
                   stopVars, boundVars>>

UploadSend(q) ==
    /\ qpc[q] = "uploadSend"
    /\ Enqueue([job |-> qjob[q], reprocess |-> FALSE, tries |-> 0])
    /\ Answer(q)
    /\ UNCHANGED <<jobVars, resumeVars, workerVars, recoveryVars, stopVars,
                   boundVars>>

\* No caller of createOrGetActiveJob takes the job back when its send fails.
UploadSendFailed(q) ==
    /\ SendMayFail
    /\ qpc[q] = "uploadSend"
    /\ Answer(q)
    /\ UNCHANGED <<jobVars, resumeVars, queue, workerVars, recoveryVars,
                   stopVars, boundVars>>

\* The invocation that serves the request dies.
CrashRequest(q) ==
    /\ qpc[q] # "idle"
    /\ crashes < MaxCrashes
    /\ crashes' = crashes + 1
    /\ Answer(q)
    /\ UNCHANGED <<jobVars, resumeVars, queue, workerVars, recoveryVars,
                   stopVars, asked, duplicates>>

RequestStep(q) ==
    \/ PickJob(q) \/ RequeueFailed(q) \/ RequeueLost(q)
    \/ (\E j \in Jobs : InsertNew(q, j)) \/ InsertIgnored(q)
    \/ ClearResume(q) \/ Send(q) \/ SendFailed(q)
    \/ UploadInsert(q) \/ UploadSelect(q) \/ UploadSend(q) \/ UploadSendFailed(q)

-----------------------------------------------------------------------------
(* Stale-job recovery: recoverStaleResumeProcessingJobs, run by the cron     *)
(* trigger and by every progress poll.                                       *)

Held(j) == \E w \in Workers : wpc[w] \in Holding /\ Job(w) = j

\* Ten minutes pass without a heartbeat.  With one AI call bounded below the
\* lease this happens only to a job whose invocation is gone; a chain of calls
\* between two heartbeats (SlowWorkers) can outlast it.
Lapse(j) ==
    /\ status[j] = "running"
    /\ ~expired[j]
    /\ SlowWorkers \/ ~Held(j)
    /\ expired' = [expired EXCEPT ![j] = TRUE]
    /\ UNCHANGED <<status, owner, attempt, resumeVars, queue, workerVars,
                   requestVars, recoveryVars, stopVars, boundVars>>

\* Mutant of Stale: the lease is not compared with updated_at.
StaleAtOnce(j) == status[j] = "running"

Stale(j) == status[j] = "running" /\ expired[j]

HasResult(r) == parse[r] = "ai_screened" /\ evalBy[r] # NoEval

\* Mutant of Scan: the evaluation of the resume is not looked at.
ScanWithoutResult ==
    /\ ppc = "idle"
    /\ \E j \in Jobs : Stale(j)
    /\ prows' = {[job |-> j, done |-> FALSE] : j \in {k \in Jobs : Stale(k)}}
    /\ ppc' = "rows"
    /\ UNCHANGED <<jobVars, resumeVars, queue, workerVars, requestVars, pres,
                   stopVars, boundVars>>

\* Mutant of Scan: an inner join with evaluated resumes.
ScanResultsOnly ==
    /\ ppc = "idle"
    /\ \E j \in Jobs : Stale(j) /\ HasResult(owner[j])
    /\ prows' = {[job |-> j, done |-> TRUE] :
                    j \in {k \in Jobs : Stale(k) /\ HasResult(owner[k])}}
    /\ ppc' = "rows"
    /\ UNCHANGED <<jobVars, resumeVars, queue, workerVars, requestVars, pres,
                   stopVars, boundVars>>

\* The SELECT joins each stale job with its resume: what is done about a row
\* is decided on the evaluation as it was then.
Scan ==
    /\ ppc = "idle"
    /\ \E j \in Jobs : Stale(j)
    /\ prows' = {[job |-> j, done |-> HasResult(owner[j])] : j \in {k \in Jobs : Stale(k)}}
    /\ ppc' = "rows"
    /\ UNCHANGED <<jobVars, resumeVars, queue, workerVars, requestVars, pres,
                   stopVars, boundVars>>

NextRows(row) ==
    /\ prows' = prows \ {row}
    /\ ppc' = IF prows = {row} THEN "idle" ELSE "rows"

FinishStale(row) ==
    /\ ppc = "rows" /\ row \in prows
    /\ row.done
    /\ Stale(row.job)
    /\ status' = [status EXCEPT ![row.job] = "completed"]
    /\ Touch(row.job)
    /\ NextRows(row)
    /\ UNCHANGED <<owner, attempt, resumeVars, queue, workerVars,
                   requestVars, pres, stopVars, boundVars>>

FailStale(row) ==
    /\ ppc = "rows" /\ row \in prows
    /\ ~row.done
    /\ Stale(row.job)
    /\ status' = [status EXCEPT ![row.job] = "failed"]
    /\ Touch(row.job)
    /\ prows' = prows \ {row}
    /\ ppc' = "failResume"
    /\ pres' = owner[row.job]
    /\ UNCHANGED <<owner, attempt, resumeVars, queue, workerVars,
                   requestVars, stopVars, boundVars>>

\* The guarded UPDATE changed nothing: the job moved on since the SELECT.
SkipRecovered(row) ==
    /\ ppc = "rows" /\ row \in prows
    /\ ~Stale(row.job)
    /\ NextRows(row)
    /\ UNCHANGED <<jobVars, resumeVars, queue, workerVars, requestVars, pres,
                   stopVars, boundVars>>

FailStaleResume ==
    /\ ppc = "failResume"
    /\ parse' = [parse EXCEPT ![pres] = IF @ \in InProgress THEN "failed" ELSE @]
    /\ pres' = NoResume
    /\ ppc' = IF prows = {} THEN "idle" ELSE "rows"
    /\ UNCHANGED <<jobVars, evalBy, text, queue, workerVars, requestVars, prows,
                   stopVars, boundVars>>

RecoveryStep ==
    \/ Scan \/ FailStaleResume
    \/ \E row \in [job : Jobs, done : BOOLEAN] :
         FinishStale(row) \/ FailStale(row) \/ SkipRecovered(row)

-----------------------------------------------------------------------------
(* cancelReprocessBatch, as it touches jobs and resumes.  Which resumes are  *)
(* unfinished members of the batch is left open.                             *)

StopJobs(B) ==
    /\ Stoppable
    /\ cpc = "idle"
    /\ asked < MaxAsked
    /\ asked' = asked + 1
    /\ status' = [j \in Jobs |-> IF owner[j] \in B /\ status[j] \in ActiveStatus
                                 THEN "cancelled" ELSE status[j]]
    /\ expired' = [j \in Jobs |-> expired[j] /\ status'[j] = "running"]
    /\ cpc' = "resumes"
    /\ cset' = B
    /\ UNCHANGED <<owner, attempt, resumeVars, queue, workerVars,
                   requestVars, recoveryVars, crashes, duplicates>>

\* Members that became terminal between the two statements are left alone.
StopResumes(R) ==
    /\ cpc = "resumes"
    /\ R \subseteq cset
    /\ parse' = [r \in Resumes |-> IF r \in R THEN "failed" ELSE parse[r]]
    /\ cpc' = "idle"
    /\ cset' = {}
    /\ UNCHANGED <<jobVars, evalBy, text, queue, workerVars, requestVars,
                   recoveryVars, boundVars>>

StopStep == \E R \in SUBSET Resumes : StopResumes(R)

-----------------------------------------------------------------------------
Next ==
    \/ \E w \in Workers : WorkerStep(w) \/ Deliver(w) \/ Raise(w) \/ Crash(w)
    \/ \E q \in Requesters : RequestStep(q) \/ CrashRequest(q)
    \/ \E q \in Requesters, r \in Resumes : StartReprocess(q, r) \/ StartUpload(q, r)
    \/ \E m \in Messages : Duplicate(m)
    \/ \E j \in Jobs : Lapse(j)
    \/ RecoveryStep
    \/ \E B \in SUBSET Resumes \ {{}} : StopJobs(B)
    \/ StopStep

\* Started code runs, the queue delivers, time passes and the cron trigger
\* fires; users, failures and duplicates owe nothing.
Fairness ==
    /\ \A w \in Workers : WF_vars(WorkerStep(w)) /\ WF_vars(Deliver(w))
    /\ \A q \in Requesters : WF_vars(RequestStep(q))
    /\ \A j \in Jobs : WF_vars(Lapse(j))
    /\ WF_vars(RecoveryStep)
    /\ WF_vars(StopStep)

Spec == Init /\ [][Next]_vars /\ Fairness

-----------------------------------------------------------------------------
(* Types *)

\* The values every variable ranges over.
TypeOK ==
    /\ status \in [Jobs -> JobStatus]
    /\ owner \in [Jobs -> Resumes \cup {NoResume}]
    /\ attempt \in [Jobs -> Nat]
    /\ expired \in [Jobs -> BOOLEAN]
    /\ parse \in [Resumes -> ParseStatus]
    /\ evalBy \in [Resumes -> {NoEval} \cup Claims]
    /\ text \in [Resumes -> TextState]
    /\ queue \in [Messages -> Nat]
    /\ wpc \in [Workers -> {"idle"} \cup Holding]
    /\ wmsg \in [Workers -> Messages \cup {Idle}]
    /\ wrun \in [Workers -> Nat]
    /\ wsnap \in [Workers -> Snapshot]
    /\ qpc \in [Requesters -> {"idle"} \cup RequestPoints]
    /\ qres \in [Requesters -> Resumes \cup {NoResume}]
    /\ qjob \in [Requesters -> Jobs \cup {NoJob}]
    /\ ppc \in {"idle", "rows", "failResume"}
    /\ prows \in SUBSET [job : Jobs, done : BOOLEAN]
    /\ pres \in Resumes \cup {NoResume}
    /\ cpc \in {"idle", "resumes"}
    /\ cset \in SUBSET Resumes
    /\ asked \in 0..MaxAsked
    /\ crashes \in 0..MaxCrashes
    /\ duplicates \in 0..MaxDuplicates

-----------------------------------------------------------------------------
(* Properties that hold of every instance *)

\* However requests, uploads and retries interleave, a resume never has two
\* jobs that are queued or running (createOrGetActiveJob and
\* enqueueResumeReprocess decide on a read made before they write).
OneActiveJobPerResume ==
    \A i, j \in Jobs :
        /\ owner[i] = owner[j]
        /\ status[i] \in ActiveStatus /\ status[j] \in ActiveStatus
        => i = j

\* A job does not stay "running" for ever: its invocation settles it, or the
\* stale-job recovery does, whatever crashes, stalls or is cancelled.
RunningEnds == \A j \in Jobs : status[j] = "running" ~> status[j] # "running"

\* A queued job for which a message waits is claimed, or settled otherwise: no
\* other message can starve it.
WaitingMessage(j) == \E m \in Messages : m.job = j /\ queue[m] > 0
QueuedIsServed ==
    \A j \in Jobs : status[j] = "queued" /\ WaitingMessage(j) ~> status[j] # "queued"

-----------------------------------------------------------------------------
(* Properties that hold while live invocations keep their lease (SlowWorkers *)
(* is FALSE) and no batch is stopped                                         *)

\* An invocation between its claim and the statement that settles the job
\* holds the job's latest claim, and no other invocation works on that job:
\* duplicates, retries, crashes and the recovery never give a job to two.
Working == Processing \cup {"reset", "fail"}
ExclusiveClaim ==
    /\ \A w \in Workers : wpc[w] \in Working =>
          status[Job(w)] = "running" /\ attempt[Job(w)] = wrun[w]
    /\ \A v, w \in Workers :
          wpc[v] \in Working /\ wpc[w] \in Working /\ Job(v) = Job(w) => v = w

\* An evaluation is written only for a job that is running, by its latest
\* claim, on the job's own resume (assertJobRunning's contract).
EvaluationByRunningClaim ==
    [][\A r \in Resumes :
          LET job == evalBy'[r][1]
              claim == evalBy'[r][2]
          IN  evalBy'[r] \notin {evalBy[r], NoEval} =>
                 status[job] = "running" /\ attempt[job] = claim /\ owner[job] = r]_vars

\* The recovery does not discard a result: it never fails a job whose resume
\* has been given its evaluation, although it decides on an earlier SELECT.
RecoveryKeepsResult ==
    [][ppc = "rows" /\ ppc' = "failResume" => ~HasResult(pres')]_vars

\* Nobody will claim a stranded job: it is queued, no message for it waits, and
\* no request or invocation is about to send one.
Stranded(j) ==
    /\ status[j] = "queued"
    /\ ~WaitingMessage(j)
    /\ ~\E q \in Requesters :
          \/ qjob[q] = j /\ qpc[q] \in {"clear", "send", "uploadSend"}
          \/ qres[q] = owner[j] /\ qpc[q] = "uploadSelect"
    /\ ~\E w \in Workers : Job(w) = j /\ wpc[w] \in {"reset", "retry"}

\* A job is stranded only when its message runs out of retries, or when the
\* request that created it dies or cannot send: acknowledging a message that
\* cannot be claimed never loses the last one.  This needs no assumption on the
\* leases.
StrandedOnlyByLoss ==
    [][\A j \in Jobs : ~Stranded(j) /\ Stranded(j)' =>
          /\ queue' = queue
          /\ \/ \E w \in Workers : Job(w) = j /\ wmsg[w].tries = MaxTries
             \/ \E q \in Requesters : qpc[q] # "idle" /\ qpc'[q] = "idle"]_vars

\* Seen through status and owner alone the queue is the strict lifecycle: in
\* particular no step takes a job out of completed or cancelled.
Lifecycle == INSTANCE JobLifecycle
               WITH Jobs <- Jobs, Resumes <- Resumes, NoResume <- NoResume,
                    status <- status, owner <- owner
LifecycleSpec == Lifecycle!Spec

-----------------------------------------------------------------------------
(* Properties of reprocessing alone: no upload overlaps it, nothing crashes  *)
(* and nothing is delivered twice                                            *)

\* A job that becomes completed leaves its resume with an evaluation: clearing
\* the old result never wipes the new one.
CompletedHasResult ==
    [][\A j \in Jobs : status[j] # "completed" /\ status'[j] = "completed" =>
          evalBy'[owner[j]] # NoEval]_vars

Quiescent ==
    /\ \A w \in Workers : wpc[w] = "idle"
    /\ \A q \in Requesters : qpc[q] = "idle"
    /\ ppc = "idle" /\ cpc = "idle"

\* When everything has come to rest, a resume without an active job is not
\* shown as being processed (the list would poll it for ever).
NoPhantomProgress ==
    Quiescent =>
        \A r \in Resumes : ActiveJobs(r) = {} => parse[r] \notin InProgress

=============================================================================
