--------------------------- MODULE ReprocessBatch ---------------------------
(***************************************************************************)
(* Batches of re-evaluations: the coordinator that walks through the       *)
(* resumes page by page and enqueues a job for each, the consumers that    *)
(* copy the state of a job to its batch item, the progress poll that       *)
(* repairs stalled coordinators and items that missed an update, and the   *)
(* user who stops a batch.                                                 *)
(*                                                                         *)
(* A job is seen here as JobLifecycle describes it (ResumeQueue has it     *)
(* statement by statement).  Items and batches are written by everybody    *)
(* after reads of their own, so these are steps of their own.              *)
(***************************************************************************)
EXTENDS Naturals, FiniteSets

CONSTANTS
    N,                \* the resumes are 1..N, in the order of their ids
    PageSize,         \* resumes per coordinator message
    Batches,          \* batches of one owner
    MaxJobs,          \* bound: job rows one resume is given
    Coordinators, Workers,   \* invocations for coordinator messages and for jobs
    NoBatch, NoJob,
    Steps,            \* setJobStep calls of one claim
    StallTimeout,     \* time without an update after which a batch counts as stalled
    PollPeriod,       \* time between two progress polls of an open page
    PageMayClose,     \* the page may be closed, or its timers held back, for a while
    MaxCrashes,       \* bound: invocations that die
    CrashAnywhere,    \* a coordinator may die in mid-page, not only round a page
    MaxRetries,       \* bound: jobs sent back to the queue by their consumer
    MaxOutside,       \* bound: changes of the scope and re-evaluations outside a batch
    MaxLate,          \* bound: periods in which a coordinator message is not delivered
    MaxOvertakes,     \* bound: changes of a batch between read and write of a refresh
    MaxFaults,        \* bound: all of these together
    Stoppable,        \* the user may stop a batch
    CallsMayFail      \* a D1 statement or a queue.send of the coordinator may fail

ASSUME BatchAssumption ==
    /\ {N, PageSize, MaxJobs, StallTimeout, PollPeriod} \subseteq Nat \ {0}
    /\ {Steps, MaxCrashes, MaxRetries, MaxOutside, MaxLate,
        MaxOvertakes, MaxFaults} \subseteq Nat
    /\ {CrashAnywhere, Stoppable, CallsMayFail, PageMayClose} \subseteq BOOLEAN
    /\ IsFiniteSet(Batches) /\ NoBatch \notin Batches

Resumes == 1..N
Jobs == Resumes \X (1..MaxJobs)
Poll == "poll"        \* the progress request; one page never has two under way
Refreshers == Coordinators \cup Workers \cup {Poll}

ASSUME ProcessAssumption ==
    /\ IsFiniteSet(Coordinators) /\ IsFiniteSet(Workers)
    /\ Coordinators \cap Workers = {} /\ Poll \notin Coordinators \cup Workers
    /\ NoJob \notin Jobs

VARIABLES
    \* resume_reprocess_batches, column by column
    bstat, cursor, total,
    age,              \* age[b]: time since updated_at of an active batch, up to the timeout
    \* resume_reprocess_batch_items, column by column
    istat, ijob,
    \* resume_processing_jobs; jobs a message waits for; resumes in the scope
    jstat, sent, scope,
    coord,            \* coordinator messages waiting, per batch
    \* coordinators: the batch, the page, the row of it and the row's job
    cpc, cbatch, cpage, crow, cjob, cput,
    \* consumers: the job, the status to report to its items, reports to come
    wpc, wjob, wnews, wsteps,
    \* refreshReprocessBatchStatus: the batch, and the status it will be given
    rpc, rbatch, rnew,
    \* the progress request, the rows it will correct, and the time since the last
    ppc, pbatch, prows, since,
    \* the user who stops a batch
    spc, sbatch,
    crashes, retries, outside, late, overtakes

batchVars == <<bstat, cursor, total, age>>
itemVars == <<istat, ijob>>
jobVars == <<jstat, sent>>
coordVars == <<cpc, cbatch, cpage, crow, cjob, cput>>
workerVars == <<wpc, wjob, wnews, wsteps>>
refreshVars == <<rpc, rbatch, rnew>>
pollVars == <<ppc, pbatch, prows, since>>
stopVars == <<spc, sbatch>>
boundVars == <<crashes, retries, outside, late, overtakes>>
vars == <<batchVars, itemVars, jobVars, scope, coord, coordVars, workerVars,
          refreshVars, pollVars, stopVars, boundVars>>

-----------------------------------------------------------------------------
Active == {"queued", "running"}
BatchStatus == Active \cup {"none", "completed", "failed"}
Unfinished == Active \cup {"pending"}
Terminal == {"completed", "failed", "skipped"}
ItemStatus == Unfinished \cup Terminal \cup {"none"}
JobStatus == Active \cup {"none", "completed", "failed", "cancelled"}

Items(b) == {r \in Resumes : istat[b][r] # "none"}
UnfinishedItems(b) == {r \in Resumes : istat[b][r] \in Unfinished}
ActiveBatches == {b \in Batches : bstat[b] \in Active}
ActiveJobs(r) == {j \in Jobs : j[1] = r /\ jstat[j] \in Active}
FailedJobs(r) == {j \in Jobs : j[1] = r /\ jstat[j] = "failed"}
NewJobs(r) == {j \in Jobs : j[1] = r /\ jstat[j] = "none"
                            /\ \A i \in 1..(j[2] - 1) : jstat[<<r, i>>] # "none"}

\* The job a new evaluation of r is given: a failed one, or else a new row.
JobsFor(r) == IF FailedJobs(r) # {} THEN FailedJobs(r) ELSE NewJobs(r)

\* attachReprocessBatchItemToJob: every job status that is not named is "queued".
AsItem(s) == IF s \in {"running", "completed", "failed"} THEN s ELSE "queued"

Init ==
    /\ bstat = [b \in Batches |-> "none"]
    /\ cursor = [b \in Batches |-> 0]
    /\ total = [b \in Batches |-> 0]
    /\ age = [b \in Batches |-> 0]
    /\ istat = [b \in Batches |-> [r \in Resumes |-> "none"]]
    /\ ijob = [b \in Batches |-> [r \in Resumes |-> NoJob]]
    /\ jstat = [j \in Jobs |-> "none"]
    /\ sent = {} /\ scope = Resumes
    /\ coord = [b \in Batches |-> 0]
    /\ cpc = [c \in Coordinators |-> "idle"]
    /\ cbatch = [c \in Coordinators |-> NoBatch]
    /\ cpage = [c \in Coordinators |-> {}]
    /\ crow = [c \in Coordinators |-> 0]
    /\ cjob = [c \in Coordinators |-> NoJob]
    /\ cput = [c \in Coordinators |-> "none"]
    /\ wpc = [w \in Workers |-> "idle"]
    /\ wjob = [w \in Workers |-> NoJob]
    /\ wnews = [w \in Workers |-> "none"]
    /\ wsteps = [w \in Workers |-> 0]
    /\ rpc = [p \in Refreshers |-> "off"]
    /\ rbatch = [p \in Refreshers |-> NoBatch]
    /\ rnew = [p \in Refreshers |-> "none"]
    /\ ppc = "idle" /\ pbatch = NoBatch /\ prows = {} /\ since = 0
    /\ spc = "idle" /\ sbatch = NoBatch
    /\ crashes = 0 /\ retries = 0 /\ outside = 0
    /\ late = 0 /\ overtakes = 0

\* The bound on all faults leaves room for n more.
Room(n) == crashes + retries + outside + late + overtakes + n <= MaxFaults

-----------------------------------------------------------------------------
(* Rows of the two tables.  Every statement on a batch sets its updated_at;   *)
(* the age of a batch that is not active is of no interest.                   *)

SetBatch(b, s) ==
    /\ bstat' = [bstat EXCEPT ![b] = s]
    /\ age' = [age EXCEPT ![b] = 0]

SetItem(b, r, s) == istat' = [istat EXCEPT ![b][r] = s]

\* idx_resume_reprocess_one_active_owner
IndexAllows(b, s) == s \in Active => ActiveBatches \subseteq {b}

\* failHistoricalResumeReprocessBatch
FailBatch(b) == IF bstat[b] \in Active THEN SetBatch(b, "failed")
                                       ELSE UNCHANGED <<bstat, age>>

-----------------------------------------------------------------------------
(* startHistoricalResumeReprocess *)

\* No batch of the owner is active (the index decides between two requests; one
\* that finds a batch active reconciles it as the poll does, and starts none).
\* The message is sent, or refused and the batch fails, or the request dies.
Start(b) ==
    /\ bstat[b] = "none" /\ ActiveBatches = {} /\ scope # {}
    /\ total' = [total EXCEPT ![b] = Cardinality(scope)]
    /\ \/ /\ SetBatch(b, "queued")
          /\ coord' = [coord EXCEPT ![b] = @ + 1]
          /\ UNCHANGED crashes
       \/ CallsMayFail /\ SetBatch(b, "failed") /\ UNCHANGED <<coord, crashes>>
       \/ /\ crashes < MaxCrashes /\ Room(1)
          /\ crashes' = crashes + 1
          /\ SetBatch(b, "queued")
          /\ UNCHANGED coord
    /\ UNCHANGED <<cursor, itemVars, jobVars, scope, coordVars, workerVars,
                   refreshVars, pollVars, stopVars, retries, outside, late, overtakes>>

-----------------------------------------------------------------------------
(* runHistoricalReprocessCoordinator *)

GoCoord(c, pc) == cpc' = [cpc EXCEPT ![c] = pc]

Leave(c) ==
    /\ cpc' = [cpc EXCEPT ![c] = "idle"]
    /\ cbatch' = [cbatch EXCEPT ![c] = NoBatch]
    /\ cpage' = [cpage EXCEPT ![c] = {}]
    /\ crow' = [crow EXCEPT ![c] = 0]
    /\ cjob' = [cjob EXCEPT ![c] = NoJob]
    /\ cput' = [cput EXCEPT ![c] = "none"]

\* The first PageSize resumes of the scope behind the cursor.
Page(from) ==
    {r \in scope : r > from /\ Cardinality({s \in scope : from < s /\ s < r}) < PageSize}

FirstOf(S) == CHOOSE r \in S : \A s \in S : r <= s
LastOf(S) == CHOOSE r \in S : \A s \in S : s <= r

\* A refresh that is overtaken will write what it read before.
Overtake(b) ==
    LET overtaken == {p \in Refreshers : rpc[p] = "write" /\ rbatch[p] = b}
    IN  /\ overtakes + Cardinality(overtaken) <= MaxOvertakes /\ Room(Cardinality(overtaken))
        /\ overtakes' = overtakes + Cardinality(overtaken)

\* claimBatch, shouldContinue and loadPage.  A stop that comes between them has
\* the effect of one before the claim or after the page was loaded.
CoordClaim(c, b) ==
    /\ cpc[c] = "idle" /\ rpc[c] = "off" /\ coord[b] > 0
    /\ bstat[b] = "queued"
    /\ coord' = [coord EXCEPT ![b] = @ - 1]
    /\ SetBatch(b, "running") /\ Overtake(b)
    /\ cbatch' = [cbatch EXCEPT ![c] = b]
    /\ cpage' = [cpage EXCEPT ![c] = Page(cursor[b])]
    /\ GoCoord(c, IF Page(cursor[b]) = {} THEN "complete" ELSE "insert")
    /\ UNCHANGED <<cursor, total, itemVars, jobVars, scope, crow, cjob, cput,
                   workerVars, refreshVars, pollVars, stopVars,
                   crashes, retries, outside, late>>

\* A batch that is not queued: the message is acknowledged.
CoordIgnore(c, b) ==
    /\ cpc[c] = "idle" /\ rpc[c] = "off" /\ coord[b] > 0
    /\ bstat[b] # "queued"
    /\ coord' = [coord EXCEPT ![b] = @ - 1]
    /\ UNCHANGED <<batchVars, itemVars, jobVars, scope, coordVars, workerVars,
                   refreshVars, pollVars, stopVars, boundVars>>

\* insertReprocessBatchItems: INSERT OR IGNORE of the whole page.
CoordInsert(c) ==
    /\ cpc[c] = "insert"
    /\ istat' = [istat EXCEPT ![cbatch[c]] =
                    [r \in Resumes |-> IF r \in cpage[c] /\ @[r] = "none"
                                       THEN "pending" ELSE @[r]]]
    /\ crow' = [crow EXCEPT ![c] = FirstOf(cpage[c])]
    /\ GoCoord(c, "row")
    /\ UNCHANGED <<batchVars, ijob, jobVars, scope, coord, cbatch, cpage, cjob, cput,
                   workerVars, refreshVars, pollVars, stopVars, boundVars>>

\* On to the next row; behind the last one a full page is followed by another.
NextRow(c) ==
    LET rest == {r \in cpage[c] : r > crow[c]}
    IN  /\ crow' = [crow EXCEPT ![c] = IF rest = {} THEN 0 ELSE FirstOf(rest)]
        /\ cjob' = [cjob EXCEPT ![c] = NoJob]
        /\ cput' = [cput EXCEPT ![c] = "none"]
        /\ GoCoord(c, IF rest # {} THEN "row"
                      ELSE IF Cardinality(cpage[c]) = PageSize THEN "save"
                      ELSE "complete")
        /\ UNCHANGED <<cbatch, cpage>>

\* The item as an earlier delivery of the page, or a consumer, left it.
CoordRow(c) ==
    /\ cpc[c] = "row"
    /\ LET s == istat[cbatch[c]][crow[c]]
           attached == ijob[cbatch[c]][crow[c]] # NoJob
       IN  IF s \in {"completed", "skipped"} \/ (attached /\ s \in Active)
           THEN NextRow(c)
           ELSE GoCoord(c, "enqueue") /\ UNCHANGED <<cbatch, cpage, crow, cjob, cput>>
    /\ UNCHANGED <<batchVars, itemVars, jobVars, scope, coord, workerVars,
                   refreshVars, pollVars, stopVars, boundVars>>

\* enqueueResumeReprocess up to resetResumeForReprocess: a resume with an
\* active job is left to that job.  (Its races with itself are ResumeQueue's.)
CoordEnqueue(c) ==
    /\ cpc[c] = "enqueue"
    /\ ActiveJobs(crow[c]) = {}
    /\ \E j \in JobsFor(crow[c]) :
          /\ jstat' = [jstat EXCEPT ![j] = "queued"]
          /\ cjob' = [cjob EXCEPT ![c] = j]
    /\ GoCoord(c, "attach")
    /\ UNCHANGED <<batchVars, itemVars, sent, scope, coord, cbatch, cpage, crow, cput,
                   workerVars, refreshVars, pollVars, stopVars, boundVars>>

\* already_processing: the item is skipped, whatever it says by now.
CoordSkip(c) ==
    /\ cpc[c] = "enqueue"
    /\ ActiveJobs(crow[c]) # {}
    /\ SetItem(cbatch[c], crow[c], "skipped")
    /\ NextRow(c)
    /\ UNCHANGED <<batchVars, ijob, jobVars, scope, coord, workerVars,
                   refreshVars, pollVars, stopVars, boundVars>>

\* attachReprocessBatchItemToJob reads the item and the job: a terminal item is
\* left alone, the status is written only when it differs from the one read.
CoordAttachRead(c) ==
    /\ cpc[c] = "attach"
    /\ LET s == istat[cbatch[c]][crow[c]]
           mapped == AsItem(jstat[cjob[c]])
       IN  /\ cput' = [cput EXCEPT ![c] = IF mapped # s THEN mapped ELSE "none"]
           /\ GoCoord(c, IF s \in Terminal THEN "send" ELSE "write")
    /\ UNCHANGED <<batchVars, itemVars, jobVars, scope, coord, cbatch, cpage, crow, cjob,
                   workerVars, refreshVars, pollVars, stopVars, boundVars>>

CoordAttachWrite(c) ==
    /\ cpc[c] = "write"
    /\ ijob' = [ijob EXCEPT ![cbatch[c]][crow[c]] = cjob[c]]
    /\ IF cput[c] = "none" THEN UNCHANGED istat
                           ELSE SetItem(cbatch[c], crow[c], cput[c])
    /\ GoCoord(c, "send")
    /\ UNCHANGED <<batchVars, jobVars, scope, coord, cbatch, cpage, crow, cjob, cput,
                   workerVars, refreshVars, pollVars, stopVars, boundVars>>

CoordSend(c) ==
    /\ cpc[c] = "send"
    /\ sent' = sent \cup {cjob[c]}
    /\ NextRow(c)
    /\ UNCHANGED <<batchVars, itemVars, jstat, scope, coord, workerVars,
                   refreshVars, pollVars, stopVars, boundVars>>

\* The resume is gone, a statement fails, or the send is refused.  Only a send
\* that is refused takes the job back.
CoordRowError(c) ==
    /\ \/ cpc[c] = "enqueue" /\ crow[c] \notin scope
       \/ CallsMayFail /\ cpc[c] \in {"row", "enqueue", "attach", "write", "send"}
    /\ jstat' = [j \in Jobs |-> IF cpc[c] = "send" /\ j = cjob[c] /\ jstat[j] = "queued"
                                THEN "failed" ELSE jstat[j]]
    /\ GoCoord(c, "rowFailed")
    /\ UNCHANGED <<batchVars, itemVars, sent, scope, coord, cbatch, cpage, crow, cjob,
                   cput, workerVars, refreshVars, pollVars, stopVars, boundVars>>

\* The catch of the row: the item fails, whatever it says by now.
CoordRowFailed(c) ==
    /\ cpc[c] = "rowFailed"
    /\ SetItem(cbatch[c], crow[c], "failed")
    /\ NextRow(c)
    /\ UNCHANGED <<batchVars, ijob, jobVars, scope, coord, workerVars,
                   refreshVars, pollVars, stopVars, boundVars>>

\* saveProgress: nothing is saved unless the batch is still running.
CoordSave(c) ==
    /\ cpc[c] = "save"
    /\ IF bstat[cbatch[c]] = "running"
       THEN /\ SetBatch(cbatch[c], "queued") /\ Overtake(cbatch[c])
            /\ cursor' = [cursor EXCEPT ![cbatch[c]] = LastOf(cpage[c])]
       ELSE UNCHANGED <<bstat, age, cursor, overtakes>>
    /\ GoCoord(c, "next")
    /\ UNCHANGED <<total, itemVars, jobVars, scope, coord, cbatch, cpage, crow, cjob,
                   cput, workerVars, refreshVars, pollVars, stopVars,
                   crashes, retries, outside, late>>

\* shouldContinue, then sendNext (a stop between them is one after the send).
CoordNext(c) ==
    /\ cpc[c] = "next"
    /\ coord' = IF bstat[cbatch[c]] \in Active
                THEN [coord EXCEPT ![cbatch[c]] = @ + 1] ELSE coord
    /\ Leave(c)
    /\ UNCHANGED <<batchVars, itemVars, jobVars, scope, workerVars,
                   refreshVars, pollVars, stopVars, boundVars>>

\* complete leaves the batch running; the refresh behind it decides.
CoordComplete(c) ==
    /\ cpc[c] = "complete"
    /\ IF bstat[cbatch[c]] \in Active THEN SetBatch(cbatch[c], "running")
                                      ELSE UNCHANGED <<bstat, age>>
    /\ rpc' = [rpc EXCEPT ![c] = "read"]
    /\ rbatch' = [rbatch EXCEPT ![c] = cbatch[c]]
    /\ Leave(c)
    /\ UNCHANGED <<cursor, total, itemVars, jobVars, scope, coord, workerVars, rnew,
                   pollVars, stopVars, boundVars>>

\* An error outside the rows fails the batch; the message is acknowledged.
CoordError(c) ==
    /\ CallsMayFail
    /\ cpc[c] \in {"insert", "rowFailed", "save", "next", "complete"}
    /\ FailBatch(cbatch[c])
    /\ Leave(c)
    /\ UNCHANGED <<cursor, total, itemVars, jobVars, scope, coord, workerVars,
                   refreshVars, pollVars, stopVars, boundVars>>

\* Does the page have rows without a job that nobody else will ever look at?
MidPage(c) == cpc[c] \in {"row", "enqueue", "attach", "write", "send", "rowFailed"}

CoordCrash(c) ==
    /\ cpc[c] # "idle"
    /\ CrashAnywhere \/ ~MidPage(c)
    /\ crashes < MaxCrashes /\ Room(1)
    /\ crashes' = crashes + 1
    /\ coord' = [coord EXCEPT ![cbatch[c]] = @ + 1]
    /\ Leave(c)
    /\ UNCHANGED <<batchVars, itemVars, jobVars, scope, workerVars,
                   refreshVars, pollVars, stopVars, retries, outside, late, overtakes>>

CoordStep(c) ==
    \/ \E b \in Batches : CoordClaim(c, b) \/ CoordIgnore(c, b)
    \/ CoordInsert(c) \/ CoordRow(c) \/ CoordEnqueue(c) \/ CoordSkip(c)
    \/ CoordAttachRead(c) \/ CoordAttachWrite(c) \/ CoordSend(c) \/ CoordRowFailed(c)
    \/ CoordSave(c) \/ CoordNext(c) \/ CoordComplete(c)

-----------------------------------------------------------------------------
(* refreshReprocessBatchStatus.  The status and the counts are read together: *)
(* the counts alone decide "completed", the status the other outcomes.        *)

\* Mutant of AllDone: terminal_total === itemTotal alone.
AllTerminal(b) == UnfinishedItems(b) = {}

AllDone(b) == Cardinality(Items(b)) >= total[b] /\ UnfinishedItems(b) = {}

RefreshDone(p) ==
    /\ rpc' = [rpc EXCEPT ![p] = "off"]
    /\ rbatch' = [rbatch EXCEPT ![p] = NoBatch]
    /\ rnew' = [rnew EXCEPT ![p] = "none"]

\* "queued" is the coordinator's own and is kept; a batch that has completed and
\* is found unfinished again is "running" if one of its items is.
Outcome(b) ==
    IF AllDone(b) THEN "completed"
    ELSE IF bstat[b] = "completed" /\ \A r \in Resumes : istat[b][r] # "running" THEN "queued"
    ELSE IF bstat[b] = "queued" THEN "queued" ELSE "running"

RefreshRead(p) ==
    /\ rpc[p] = "read"
    /\ \/ bstat[rbatch[p]] = "failed" /\ RefreshDone(p)
       \/ /\ bstat[rbatch[p]] # "failed"
          /\ rnew' = [rnew EXCEPT ![p] = Outcome(rbatch[p])]
          /\ rpc' = [rpc EXCEPT ![p] = "write"]
          /\ UNCHANGED rbatch
    /\ UNCHANGED <<batchVars, itemVars, jobVars, scope, coord, coordVars, workerVars,
                   pollVars, stopVars, boundVars>>

\* Mutant of RefreshWrite: the UPDATE forgets AND status != 'failed'.
RefreshAnyStatus(p) ==
    /\ rpc[p] = "write"
    /\ IF IndexAllows(rbatch[p], rnew[p])
       THEN SetBatch(rbatch[p], rnew[p])
       ELSE UNCHANGED <<bstat, age>>
    /\ RefreshDone(p)
    /\ UNCHANGED <<cursor, total, itemVars, jobVars, scope, coord, coordVars,
                   workerVars, pollVars, stopVars, boundVars>>

\* The write is made on what was read, unless the batch has failed since, or
\* the index refuses a second active batch (all callers drop that error).
RefreshWrite(p) ==
    /\ rpc[p] = "write"
    /\ IF bstat[rbatch[p]] # "failed" /\ IndexAllows(rbatch[p], rnew[p])
       THEN SetBatch(rbatch[p], rnew[p])
       ELSE UNCHANGED <<bstat, age>>
    /\ RefreshDone(p)
    /\ UNCHANGED <<cursor, total, itemVars, jobVars, scope, coord, coordVars,
                   workerVars, pollVars, stopVars, boundVars>>

RefreshStep(p) == RefreshRead(p) \/ RefreshWrite(p)

-----------------------------------------------------------------------------
(* The consumer of a job, and syncReprocessBatchItemByJob *)

GoWorker(w, pc) == wpc' = [wpc EXCEPT ![w] = pc]

Settle(w) ==
    /\ wpc' = [wpc EXCEPT ![w] = "idle"]
    /\ wjob' = [wjob EXCEPT ![w] = NoJob]
    /\ wnews' = [wnews EXCEPT ![w] = "none"]
    /\ wsteps' = [wsteps EXCEPT ![w] = 0]

\* claimJob; the items hear of it with the first setJobStep.
WorkerClaim(w, j) ==
    /\ wpc[w] = "idle" /\ rpc[w] = "off" /\ j \in sent
    /\ jstat[j] = "queued"
    /\ jstat' = [jstat EXCEPT ![j] = "running"]
    /\ sent' = sent \ {j}
    /\ wjob' = [wjob EXCEPT ![w] = j]
    /\ wsteps' = [wsteps EXCEPT ![w] = Steps]
    /\ GoWorker(w, "work")
    /\ UNCHANGED <<batchVars, itemVars, scope, coord, coordVars, wnews, refreshVars,
                   pollVars, stopVars, boundVars>>

WorkerIgnore(w, j) ==
    /\ wpc[w] = "idle" /\ rpc[w] = "off" /\ j \in sent
    /\ jstat[j] # "queued"
    /\ sent' = sent \ {j}
    /\ UNCHANGED <<batchVars, itemVars, jstat, scope, coord, coordVars, workerVars,
                   refreshVars, pollVars, stopVars, boundVars>>

\* The items of the job are to be told the news.
GoReport(w, news) ==
    /\ wnews' = [wnews EXCEPT ![w] = news]
    /\ GoWorker(w, "report")

\* assertJobRunning: the message is acknowledged, nothing is reported.
WorkerStop(w) ==
    /\ wpc[w] = "work" /\ rpc[w] = "off"
    /\ jstat[wjob[w]] # "running"
    /\ Settle(w)
    /\ UNCHANGED <<batchVars, itemVars, jobVars, scope, coord, coordVars,
                   refreshVars, pollVars, stopVars, boundVars>>

\* complete changes a running job only, onComplete reports in any case.
WorkerFinish(w) ==
    /\ wpc[w] = "work" /\ rpc[w] = "off" /\ wsteps[w] = 0
    /\ jstat' = [jstat EXCEPT ![wjob[w]] = IF @ = "running" THEN "completed" ELSE @]
    /\ GoReport(w, "completed")
    /\ UNCHANGED <<batchVars, itemVars, sent, scope, coord, coordVars, wjob, wsteps,
                   refreshVars, pollVars, stopVars, boundVars>>

\* Mutant of WorkerFail: onFail is given the callback of onComplete.
WorkerFailAsDone(w) ==
    /\ wpc[w] = "work" /\ rpc[w] = "off"
    /\ jstat' = [jstat EXCEPT ![wjob[w]] = "failed"]
    /\ GoReport(w, "completed")
    /\ UNCHANGED <<batchVars, itemVars, sent, scope, coord, coordVars, wjob, wsteps,
                   refreshVars, pollVars, stopVars, boundVars>>

WorkerFail(w) ==
    /\ wpc[w] = "work" /\ rpc[w] = "off"
    /\ jstat' = [jstat EXCEPT ![wjob[w]] = "failed"]
    /\ GoReport(w, "failed")
    /\ UNCHANGED <<batchVars, itemVars, sent, scope, coord, coordVars, wjob, wsteps,
                   refreshVars, pollVars, stopVars, boundVars>>

WorkerRetry(w) ==
    /\ wpc[w] = "work" /\ rpc[w] = "off"
    /\ retries < MaxRetries /\ Room(1)
    /\ retries' = retries + 1
    /\ jstat' = [jstat EXCEPT ![wjob[w]] = IF @ = "running" THEN "queued" ELSE @]
    /\ GoReport(w, "queued")
    /\ UNCHANGED <<batchVars, itemVars, sent, scope, coord, coordVars, wjob, wsteps,
                   refreshVars, pollVars, stopVars, crashes, outside, late, overtakes>>

ItemsOf(j) == {b \in Batches : ijob[b][j[1]] = j}

\* The SELECT looks at one of the job's items; a terminal one ends the report.
ItemSeen(w, b) == b \in ItemsOf(wjob[w]) /\ istat[b][wjob[w][1]] \in Unfinished
NoneSeen(w) ==
    ItemsOf(wjob[w]) = {} \/ \E b \in ItemsOf(wjob[w]) : istat[b][wjob[w][1]] \in Terminal

ReportTo(w, b) ==
    /\ ItemSeen(w, b)
    /\ rbatch' = [rbatch EXCEPT ![w] = b]
    /\ GoWorker(w, "write")

\* setJobStep reports that the job is running, whatever has become of it.
ReportStep(w) ==
    /\ wpc[w] = "work" /\ rpc[w] = "off" /\ wsteps[w] > 0
    /\ wsteps' = [wsteps EXCEPT ![w] = @ - 1]
    /\ \/ /\ \E b \in Batches : ReportTo(w, b)
          /\ wnews' = [wnews EXCEPT ![w] = "running"]
       \/ NoneSeen(w) /\ UNCHANGED <<wpc, wnews, rbatch>>
    /\ UNCHANGED <<batchVars, itemVars, jobVars, scope, coord, coordVars, wjob,
                   rpc, rnew, pollVars, stopVars, boundVars>>

\* Behind a report the work goes on, the message goes back to the queue (once
\* the refresh is done), or it is acknowledged.
AfterReport(w) ==
    \/ /\ wnews[w] = "running"
       /\ GoWorker(w, "work")
       /\ wnews' = [wnews EXCEPT ![w] = "none"]
       /\ UNCHANGED <<wjob, wsteps>>
    \/ wnews[w] = "queued" /\ GoWorker(w, "retry") /\ UNCHANGED <<wjob, wnews, wsteps>>
    \/ wnews[w] \in {"completed", "failed"} /\ Settle(w)

\* onComplete, onFail and onRetry
ReportEnd(w) ==
    /\ wpc[w] = "report"
    /\ \/ (\E b \in Batches : ReportTo(w, b)) /\ UNCHANGED <<wjob, wnews, wsteps>>
       \/ NoneSeen(w) /\ AfterReport(w) /\ UNCHANGED rbatch
    /\ UNCHANGED <<batchVars, itemVars, jobVars, scope, coord, coordVars,
                   rpc, rnew, pollVars, stopVars, boundVars>>

\* The UPDATE goes to all items of the job, whatever they say by now.
ReportWrite(w) ==
    /\ wpc[w] = "write"
    /\ istat' = [b \in Batches |->
                    IF b \in ItemsOf(wjob[w])
                    THEN [istat[b] EXCEPT ![wjob[w][1]] = wnews[w]] ELSE istat[b]]
    /\ rpc' = [rpc EXCEPT ![w] = "read"]
    /\ AfterReport(w)
    /\ UNCHANGED <<batchVars, ijob, jobVars, scope, coord, coordVars,
                   rbatch, rnew, pollVars, stopVars, boundVars>>

SendBack(w) ==
    /\ wpc[w] = "retry" /\ rpc[w] = "off"
    /\ sent' = sent \cup {wjob[w]}
    /\ Settle(w)
    /\ UNCHANGED <<batchVars, itemVars, jstat, scope, coord, coordVars,
                   refreshVars, pollVars, stopVars, boundVars>>

\* The message is delivered again, and ignored unless the job is queued.
WorkerCrash(w) ==
    /\ wpc[w] # "idle"
    /\ crashes < MaxCrashes /\ Room(1)
    /\ crashes' = crashes + 1
    /\ sent' = sent \cup {wjob[w]}
    /\ Settle(w)
    /\ RefreshDone(w)
    /\ UNCHANGED <<batchVars, itemVars, jstat, scope, coord, coordVars, pollVars,
                   stopVars, retries, outside, late, overtakes>>

WorkerStep(w) ==
    \/ \E j \in Jobs : WorkerClaim(w, j) \/ WorkerIgnore(w, j)
    \/ ReportStep(w) \/ WorkerStop(w) \/ WorkerFinish(w)
    \/ ReportEnd(w) \/ ReportWrite(w) \/ SendBack(w)

\* recoverStaleResumeProcessingJobs: the job of an invocation that died.  No
\* item hears of it until the next poll.
RecoverStale(j) ==
    /\ jstat[j] = "running"
    /\ ~\E w \in Workers : wpc[w] # "idle" /\ wjob[w] = j
    /\ \E s \in {"completed", "failed"} : jstat' = [jstat EXCEPT ![j] = s]
    /\ UNCHANGED <<batchVars, itemVars, sent, scope, coord, coordVars, workerVars,
                   refreshVars, pollVars, stopVars, boundVars>>

-----------------------------------------------------------------------------
(* The progress poll: recoverStalledHistoricalResumeReprocess, then          *)
(* reconcileReprocessBatchItems.                                             *)

\* Mutant of Stalled: only a batch that has saved a page is recovered.
StalledBehindPage(b) ==
    /\ bstat[b] \in Active /\ age[b] >= StallTimeout
    /\ UnfinishedItems(b) = {} /\ cursor[b] > 0
    /\ Cardinality(Items(b)) < total[b]

Stalled(b) ==
    /\ bstat[b] \in Active /\ age[b] >= StallTimeout
    /\ UnfinishedItems(b) = {}
    /\ Cardinality(Items(b)) < total[b]

\* Mutant of Correction: the poll copies the status of a cancelled job.
CorrectionOfAny(b, r) ==
    IF ijob[b][r] # NoJob /\ istat[b][r] \in Unfinished
       /\ jstat[ijob[b][r]] \in JobStatus \ {"none", istat[b][r]}
    THEN {<<r, jstat[ijob[b][r]]>>} ELSE {}

\* What the poll would write to the item of r: nothing for a cancelled job.
Correction(b, r) ==
    IF ijob[b][r] # NoJob /\ istat[b][r] \in Unfinished
       /\ jstat[ijob[b][r]] \in JobStatus \ {"cancelled", "none", istat[b][r]}
    THEN {<<r, jstat[ijob[b][r]]>>} ELSE {}

\* reconcile reads all items at once; its last statement is a refresh.
Reconcile(b, rows) ==
    /\ prows' = rows
    /\ IF rows # {}
       THEN ppc' = "rows" /\ pbatch' = b /\ UNCHANGED <<since, rpc, rbatch>>
       ELSE /\ ppc' = "idle" /\ pbatch' = NoBatch /\ since' = 0
            /\ rpc' = [rpc EXCEPT ![Poll] = "read"]
            /\ rbatch' = [rbatch EXCEPT ![Poll] = b]
    /\ UNCHANGED rnew

ReconcileRead(b) == Reconcile(b, UNION {Correction(b, r) : r \in Resumes})

PollStart(b) ==
    /\ ppc = "idle" /\ rpc[Poll] = "off" /\ since >= PollPeriod
    /\ bstat[b] \in Active
    /\ \/ /\ Stalled(b)
          /\ ppc' = "recover" /\ pbatch' = b
          /\ UNCHANGED <<refreshVars, prows, since>>
       \/ ~Stalled(b) /\ ReconcileRead(b)
    /\ UNCHANGED <<batchVars, itemVars, jobVars, scope, coord, coordVars, workerVars,
                   stopVars, boundVars>>

\* UPDATE ... WHERE status is active AND updated_at is the one that was read
PollRecover ==
    /\ ppc = "recover"
    /\ \/ /\ bstat[pbatch] \in Active /\ age[pbatch] >= StallTimeout
          /\ SetBatch(pbatch, "queued")
          /\ ppc' = "send"
          /\ UNCHANGED <<refreshVars, pbatch, prows, since>>
       \/ /\ bstat[pbatch] \notin Active \/ age[pbatch] < StallTimeout
          /\ ReconcileRead(pbatch)
          /\ UNCHANGED <<bstat, age>>
    /\ UNCHANGED <<cursor, total, itemVars, jobVars, scope, coord, coordVars,
                   workerVars, stopVars, boundVars>>

\* A send that is refused fails the batch; the poll goes on in either case.
PollSend ==
    /\ ppc = "send"
    /\ \/ coord' = [coord EXCEPT ![pbatch] = @ + 1] /\ UNCHANGED <<bstat, age>>
       \/ CallsMayFail /\ FailBatch(pbatch) /\ UNCHANGED coord
    /\ ReconcileRead(pbatch)
    /\ UNCHANGED <<cursor, total, itemVars, jobVars, scope, coordVars, workerVars,
                   stopVars, boundVars>>

\* The items that were read are written one by one, whatever they say by now.
PollRow ==
    /\ ppc = "rows"
    /\ \E row \in prows :
          /\ SetItem(pbatch, row[1], row[2])
          /\ Reconcile(pbatch, prows \ {row})
    /\ UNCHANGED <<batchVars, ijob, jobVars, scope, coord, coordVars, workerVars,
                   stopVars, boundVars>>

PollStep ==
    \/ \E b \in Batches : PollStart(b)
    \/ PollRecover \/ PollSend \/ PollRow

\* Time passes while no poll is under way, and none is due unless the page is
\* closed.  A page of resumes is done before its batch counts as stalled; a
\* message may come later than that.
AtWork(b) == \E c \in Coordinators : cbatch[c] = b
Tick ==
    /\ ppc = "idle" /\ rpc[Poll] = "off"
    /\ since < PollPeriod \/ (PageMayClose /\ since < StallTimeout)
    /\ since' = since + 1
    /\ \E slow \in SUBSET {b \in Batches : coord[b] > 0} :
          /\ late + Cardinality(slow) <= MaxLate /\ Room(Cardinality(slow))
          /\ late' = late + Cardinality(slow)
          /\ age' = [b \in Batches |->
                        IF /\ bstat[b] \in Active /\ ~AtWork(b) /\ age[b] < StallTimeout
                           /\ coord[b] = 0 \/ b \in slow
                        THEN age[b] + 1 ELSE age[b]]
    /\ UNCHANGED <<bstat, cursor, total, itemVars, jobVars, scope, coord, coordVars,
                   workerVars, refreshVars, ppc, pbatch, prows, stopVars,
                   crashes, retries, outside, overtakes>>

-----------------------------------------------------------------------------
(* cancelReprocessBatch, and what happens outside the batches *)

StopBatch(b) ==
    /\ Stoppable
    /\ spc = "idle" /\ bstat[b] \in Active
    /\ SetBatch(b, "failed")
    /\ spc' = "jobs" /\ sbatch' = b
    /\ UNCHANGED <<cursor, total, itemVars, jobVars, scope, coord, coordVars,
                   workerVars, refreshVars, pollVars, boundVars>>

StopJobs ==
    /\ spc = "jobs"
    /\ LET doomed == {ijob[sbatch][r] : r \in UnfinishedItems(sbatch)}
       IN  jstat' = [j \in Jobs |-> IF j \in doomed /\ jstat[j] \in Active
                                    THEN "cancelled" ELSE jstat[j]]
    /\ spc' = "items"
    /\ UNCHANGED <<batchVars, itemVars, sent, scope, coord, coordVars, workerVars,
                   refreshVars, pollVars, sbatch, boundVars>>

StopItems ==
    /\ spc = "items"
    /\ istat' = [istat EXCEPT ![sbatch] =
                    [r \in Resumes |-> IF @[r] \in Unfinished THEN "skipped" ELSE @[r]]]
    /\ spc' = "idle" /\ sbatch' = NoBatch
    /\ UNCHANGED <<batchVars, ijob, jobVars, scope, coord, coordVars, workerVars,
                   refreshVars, pollVars, boundVars>>

StopStep == StopJobs \/ StopItems

\* A resume is deleted, changes hands, or comes to meet the scope's conditions.
Drift(r) ==
    /\ outside < MaxOutside /\ Room(1)
    /\ outside' = outside + 1
    /\ scope' = IF r \in scope THEN scope \ {r} ELSE scope \cup {r}
    /\ UNCHANGED <<batchVars, itemVars, jobVars, coord, coordVars, workerVars,
                   refreshVars, pollVars, stopVars, crashes, retries, late, overtakes>>

\* The resume is re-evaluated by a request of its own.
Alone(r) ==
    /\ outside < MaxOutside /\ Room(1)
    /\ outside' = outside + 1
    /\ ActiveJobs(r) = {}
    /\ \E j \in JobsFor(r) :
          /\ jstat' = [jstat EXCEPT ![j] = "queued"]
          /\ sent' = sent \cup {j}
    /\ UNCHANGED <<batchVars, itemVars, scope, coord, coordVars, workerVars,
                   refreshVars, pollVars, stopVars, crashes, retries, late, overtakes>>

-----------------------------------------------------------------------------
Next ==
    \/ \E b \in Batches : Start(b) \/ StopBatch(b)
    \/ \E c \in Coordinators :
          CoordStep(c) \/ CoordRowError(c) \/ CoordError(c) \/ CoordCrash(c)
    \/ \E w \in Workers : WorkerStep(w) \/ WorkerFail(w) \/ WorkerRetry(w) \/ WorkerCrash(w)
    \/ \E p \in Refreshers : RefreshStep(p)
    \/ \E j \in Jobs : RecoverStale(j)
    \/ PollStep \/ StopStep \/ Tick
    \/ \E r \in Resumes : Drift(r) \/ Alone(r)

\* Started code runs, messages are delivered, time passes, the page polls while
\* a batch is active and the cron trigger fires.  (Only the bounds disable a
\* coordinator that could go on, so strong fairness asks no more of the code.)
Fairness ==
    /\ \A c \in Coordinators : SF_vars(CoordStep(c))
    /\ \A w \in Workers : WF_vars(WorkerStep(w))
    /\ \A p \in Refreshers : WF_vars(RefreshStep(p))
    /\ \A j \in Jobs : WF_vars(RecoverStale(j))
    /\ WF_vars(PollStep) /\ WF_vars(StopStep) /\ WF_vars(Tick)

Spec == Init /\ [][Next]_vars /\ Fairness

-----------------------------------------------------------------------------
(* Properties *)

\* The values every variable ranges over.
TypeOK ==
    /\ bstat \in [Batches -> BatchStatus]
    /\ cursor \in [Batches -> 0..N] /\ total \in [Batches -> 0..N]
    /\ age \in [Batches -> 0..StallTimeout]
    /\ istat \in [Batches -> [Resumes -> ItemStatus]]
    /\ ijob \in [Batches -> [Resumes -> Jobs \cup {NoJob}]]
    /\ jstat \in [Jobs -> JobStatus]
    /\ sent \subseteq Jobs /\ scope \subseteq Resumes
    /\ coord \in [Batches -> Nat]
    /\ cpc \in [Coordinators -> {"idle", "insert", "row", "enqueue", "attach", "write",
                                 "send", "rowFailed", "save", "next", "complete"}]
    /\ cbatch \in [Coordinators -> Batches \cup {NoBatch}]
    /\ cpage \in [Coordinators -> SUBSET Resumes]
    /\ crow \in [Coordinators -> 0..N]
    /\ cjob \in [Coordinators -> Jobs \cup {NoJob}]
    /\ cput \in [Coordinators -> ItemStatus]
    /\ wpc \in [Workers -> {"idle", "work", "report", "write", "retry"}]
    /\ wjob \in [Workers -> Jobs \cup {NoJob}]
    /\ wnews \in [Workers -> {"none", "queued", "running", "completed", "failed"}]
    /\ wsteps \in [Workers -> 0..Steps]
    /\ rpc \in [Refreshers -> {"off", "read", "write"}]
    /\ rbatch \in [Refreshers -> Batches \cup {NoBatch}]
    /\ rnew \in [Refreshers -> BatchStatus]
    /\ ppc \in {"idle", "recover", "send", "rows"}
    /\ pbatch \in Batches \cup {NoBatch}
    /\ prows \subseteq Resumes \X ItemStatus
    /\ since \in 0..(PollPeriod + StallTimeout)
    /\ spc \in {"idle", "jobs", "items"} /\ sbatch \in Batches \cup {NoBatch}
    /\ crashes \in 0..MaxCrashes /\ retries \in 0..MaxRetries
    /\ outside \in 0..MaxOutside /\ late \in 0..MaxLate
    /\ overtakes \in 0..MaxOvertakes

\* A batch that was stopped, or that failed, is not revived by a refresh that
\* read it before, by a save or by the recovery.
StoppedStaysStopped ==
    [][\A b \in Batches : bstat[b] = "failed" => bstat'[b] = "failed"]_vars

\* A batch is declared complete only when as many resumes as it started with
\* have been given an item: not between two pages whose items happen to be done.
CompletedReachesTarget ==
    [][\A b \in Batches : bstat[b] # "completed" /\ bstat'[b] = "completed" =>
          Cardinality(Items(b)) >= total[b]]_vars

\* An item is reported completed only when a job of its resume was completed,
\* although the report is made by callbacks, by the poll and by the coordinator.
CompletedItemIsDone ==
    [][\A b \in Batches, r \in Resumes :
          istat[b][r] # "completed" /\ istat'[b][r] = "completed" =>
             \E j \in Jobs : j[1] = r /\ jstat[j] = "completed"]_vars

\* No coordinator will come to batch b, whose scope it has not walked through.
Abandoned(b) ==
    /\ bstat[b] \in Active /\ coord[b] = 0 /\ ~AtWork(b)
    /\ Cardinality(Items(b)) < total[b]

\* Nobody will look at an item of b: it was given no job, or one that is queued
\* without a message, by a coordinator that died in mid-page.
Stuck(b) ==
    /\ ~AtWork(b)
    /\ \E r \in UnfinishedItems(b) :
          LET j == ijob[b][r] IN
          \/ j = NoJob
          \/ jstat[j] = "queued" /\ j \notin sent /\ \A w \in Workers : wjob[w] # j

\* A batch ends, although consumers and coordinators die, jobs are retried and a
\* refresh writes what it read before: a report that is lost is made good by the
\* next poll.  A coordinator's message that is lost, or ignored, is made good
\* only by a poll that comes a stall timeout after the one before it, so a batch
\* may be abandoned for good while polls keep coming; and nothing makes good what
\* a coordinator left undone in mid-page.
RarelyPolled == since >= StallTimeout
BatchEnds ==
    \A b \in Batches :
        \/ bstat[b] \in Active ~> bstat[b] \notin Active \/ Stuck(b)
        \/ <>[](Abandoned(b) /\ ~RarelyPolled)

\* What the comment of recoverStalledHistoricalResumeReprocess promises: the page
\* polls a batch while it is active, so one whose coordinator message disappeared
\* after a page was persisted is recovered.
AbandonedIsRecovered ==
    \A b \in Batches : Abandoned(b) /\ cursor[b] > 0 ~> ~Abandoned(b)

=============================================================================
