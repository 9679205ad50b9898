# AI-Interview: TLA+ models and proofs

This directory holds TLA+ models of the AI-Interview Worker, the TLC runs that
check them and TLAPS proofs about them. The definitions are translated from the
TypeScript (and the database schema) under `src/worker`, and from the pages of
`src/frontend` where a page takes part in a protocol; `PROJECT.json` gives, for
each definition, the lines it stands for, for each property a mutation of the
code that breaks it, and the hazards the properties are about.

## 1. The system

A recruiting service on Cloudflare Workers: an HTTP API, two queue consumers and
a cron trigger share one D1 (SQLite) database. D1 executes one statement (or one
`db.batch`) at a time and gives no transaction over two statements separated by an
`await`; the queues deliver at least once and in any order; an invocation may die
between any two statements. Nearly every protocol of the service is therefore a
sequence of conditional `UPDATE`s, and what can go wrong lies between them.

| component | state | operations | hard part |
|---|---|---|---|
| resume processing: `resume-consumer.ts`, `resume-processing/job-repository.ts`, `processor.ts`, `ocr.ts` | `resume_processing_jobs`, `resumes.parse_status`, `ai_evaluation`, text and OCR task, queue `resume-processing` | create or get a job, claim, extract, screen, complete, fail, retry, recover stale jobs | duplicates, crashes, leases, check-then-write, lost retries |
| re-evaluation: `resume-processing/reprocess.ts`, `batch-repository.ts` | the same tables, `resume_reprocess_batches`, `resume_reprocess_batch_items` | single re-evaluation; batch start, coordinator page, attach, sync, refresh, reconcile, stall recovery, stop | races between requests; stale reads; progress polls; stop |
| screening algorithms: `weighted-screening.ts`, `screening-rules.ts`, `dimension-scores.ts`, `structured-output.ts` | none | choice of the answer, completeness, weights, gates, rules | rounding, clamping, boundaries |
| LLM configurations and rules: `llm-slots.ts`, the settings routes of `index.ts`, the settings page | `system_configs` | load, edit, merge, save | keys the page never sees; pages that are out of date; two first saves |
| interview automation: `interview-automation/`, `interview-automation-consumer.ts` | `interview_automation_jobs`, `interviews`, the calendar | enqueue by idempotency key, claim, schedule, reschedule, cancel, next round, advance | attempts, versions, external calendar, crash while running |
| interview routes and cards: `index.ts` | `interviews`, candidate's stage | result, advance, evaluate, confirm, start, direct scheduling, cancel, delete | routes that go round the automation |
| business screening: `business-screening/` | push batches, items, the outcome columns of `resumes` | push, resend, consolidate, remove, eliminate, reject, decide through a link, expire, renew | decisions against revocations, removals and each other |
| talent review and daily reports: `daily-reports/service.ts`, `approveBatch`/`rejectBatch` and the decision routes of `index.ts` | `resume_screening_queue`, `talent_pool`, status and decision timestamps of `resumes` | claim, commit, release; decisions in batch and singly | two statements per decision; lost answers; claims |
| uploads and storage: `resume-uploads/`, `resume-storage/` | `resume_upload_sessions`, artifacts in R2 | initiate, complete, fail, expire | two completions, expiry against completion, a message without a job |
| front end: `Resumes/List.tsx`, the settings page | - | polls progress every 4 seconds while a batch is active; edits the settings | the poll also repairs |
| the rest (recruitment events, dashboards, search, maintenance, mail, Feishu, public API, the legacy backend) | | | no protocol between processes, or only calls of external services |

How they interact: a request writes a job row and sends a message; a consumer
claims the row and writes the resume; its callbacks copy the outcome to a batch
item and refresh the batch; the cron trigger and every progress poll recover
stale jobs. A screening reads the rules and configurations administrators save,
and its verdict makes a resume one that can be pushed to interviewers; a passed
decision creates an automation job for the first interview; the verdict on an
interview creates the job for the next round or the offer; the date of an
interview is set by jobs and by routes that write the row without one. The daily
report counts the timestamps every decision on a resume leaves behind.

What makes each component correct:

- processing: one active job per resume; a job belongs to one invocation; a result
  is written by the claim that holds the job; every running job ends.
- re-evaluation: two requests create one job and clear the resume once; a
  completed job leaves a result; a resume is not shown as in progress for ever.
- batches: a stopped batch stays stopped; completion means the target was
  reached; an item tells the truth about its job; a batch ends.
- screening and settings: a verdict follows from the rules in force and the exact
  scores of a complete answer; a save neither loses nor mixes up keys.
- automation: one invocation executes a job; jobs keep a lifecycle; no stale
  version is executed; one calendar event; no opposite verdicts; a pass leads to an
  interview.
- business screening: one decision is applied and reported; it stands; a rejection
  by HR holds.
- talent review: a record is decided once; a claim ends; the timestamps agree with
  the status.

## 2. Modules

| module | what it is |
|---|---|
| `JobLifecycle` | abstract specification: what the resume job table promises to its readers |
| `ResumeQueue` | requests, uploads, consumers, stale-job recovery and stop, one action per D1 statement |
| `ReprocessBatch` | batch, items, coordinator, sync and refresh, progress poll, stall recovery, stop |
| `AutomationLifecycle` | abstract specification: what an interview-automation job promises |
| `AutomationQueue` | automation jobs: idempotency key, send, queue, claim, settlement, retries, deaths |
| `InterviewSchedule` | the date of one interview: its row, the calendar, requests and handlers; composes `AutomationQueue` |
| `InterviewRounds` | the rounds of one candidate: verdicts, next rounds, offers; composes `AutomationQueue` |
| `BusinessScreening` | pushes to interviewers, links, decisions and what HR does meanwhile |
| `LlmSlots` | pure: `mergeLlmSlots` and the ids of the slots |
| `ScreeningScore` | pure: from the answers of a model to a verdict |
| `SystemSettings` | administrators, their pages and requests, and a screening; extends the two above |
| `TalentReview` | the records of the screening queue, and the decisions on resumes |
| `MC...` | symmetry and the values of constants for TLC |
| `...Proofs` | theorems, see section 4 |

The two abstract specifications are checked as properties of the runs
(`LifecycleSpec`) and proved to be implemented. `InterviewSchedule` and
`InterviewRounds` take `AutomationQueue` with `INSTANCE ... WITH Jobs <- ...`, so
that their handlers are built from its actions; `QueueRefined` says that the
schedule keeps to it, and `JobsAssumption` that its assumptions hold of their jobs.

### ResumeQueue

`status`, `owner`, `attempt`, `expired` are the columns of
`resume_processing_jobs`; `expired[j]` says that `updated_at` is older than the
ten-minute lease, `Lapse` lets it become so and every statement on the row resets
it. `parse`, `evalBy` and `text` are columns of `resumes`; `evalBy` names the claim
`<<job, attempt_count>>` that wrote `ai_evaluation`, the payload itself does not
matter. `queue` counts the copies of each message. The process variables are:
`w*` a consumer invocation (`wpc` is where it is between two statements, `wsnap`
what it remembers of the row it loaded), `q*` a request, `p*` the recovery, `c*` a
stop.

Each D1 statement that changes state is an action. A read or a remote call is
merged with the statement before it only when nobody can tell. `assertJobRunning`
is an action of its own (`CheckRunning`), because another process can act between
it and the write behind it. `Redeliver` drops a message whose retries are used up,
as no dead-letter queue is configured for this queue.

Several statements of one update that nobody separates are one step, and what the
LLM or the OCR service answers is a choice (`CallAI`, `OcrDone`, `Raise`).

### ReprocessBatch

`bstat`, `cursor`, `total`, `age` are columns of `resume_reprocess_batches`
(`age` is the time since `updated_at`, counted up to the stall timeout), `istat`
and `ijob` of the items. Jobs are seen as `JobLifecycle` describes them (`jstat`),
`sent` holds the jobs a message waits for, `coord` counts coordinator messages.
`c*` is a coordinator invocation, `w*` the consumer of a job, `r*` one call of
`refreshReprocessBatchStatus` (it reads, then writes, and any coordinator,
consumer or poll can be in one), `p*` the progress poll, `s*` the stop.

`CoordClaim` ... `CoordComplete` are `runHistoricalReprocessCoordinator` and
`enqueueResumeReprocessBatchPage` statement by statement; `CoordEnqueue` takes
`enqueueResumeReprocess` up to the reset in one step, because ResumeQueue has its
races. `ReportStep`, `ReportEnd` and `ReportWrite` are
`syncReprocessBatchItemByJob`, with its read and its write apart. `PollStart`,
`PollRecover`, `PollSend` and `PollRow` are the poll: recovery, then
reconciliation. `StopBatch`, `StopJobs`, `StopItems` are `cancelReprocessBatch`.

Time: `Tick` lets it pass while no poll is due. A batch does not age while a
coordinator works on it or its message is about to be delivered, except in
`MaxLate` periods. The poll is due every `PollPeriod`; `PageMayClose` lets the page
stay away for up to a stall timeout (its tab is closed, or throttled), which is the
only way a batch of it can age enough to be recovered.

### AutomationQueue

A job is its idempotency key, which is UNIQUE, so `CreateJob` and `FindJob` are the
two outcomes of `enqueueInterviewAutomation`: only the first is followed by a send
(`SendMessage`, `LoseMessage`), the caller is between the two while `sending` names
the job. An invocation is given up to `BatchSize` messages (`Batches`, `Delivered`) and
goes through them one after the other (`Reach`). `ClaimJob` is the conditional
`UPDATE` of `claimJob`, `SkipJob` the message that changed no row and is acknowledged. `CompleteJob`, `FailJob` and `RetryJob`
settle by id alone, as the code does. `Die` is a death of the invocation, or a
statement outside the `try` that throws, which ends the loop the same way: the job at
work stays as it is and the messages that were not acknowledged go back to the queue
as far as they have retries left. `MaxRetries` is the queue's `max_retries`: 0, as
deployed, in every run, so that they are gone. (With more, the message of a job that
dies between `failJob` and the acknowledgement would come back too, which the model
leaves out.)

### InterviewSchedule

`row` has the columns that the requests and handlers read or write; `cal` and `fs`
are two columns for one event id because the code keeps two, and the routes that go
round the automation know only the second. `calendar[e]` is what the calendar
holds. A request (`req`) remembers the row it read; `Ask`, the `Prepare...` actions
and `Enqueue` are the three steps of an automated request, the other actions of
`CallerStep` those of the direct routes. An invocation (`exec`) goes through
`Check` (`isStaleVersion`), `Load`, a call of the calendar, `MarkScheduled` or
`MarkCancelled`, `Notify`; a call may succeed, fail, or take effect and look failed,
and any statement of the handler may throw (`StatementFails`), which fails the job.
`orphans` is a history: the events of invocations that ended, by a death, a lost
answer or such a failure, between their creation and `markScheduled`. The row does not
know them.

### InterviewRounds

`rows` are the interviews of a candidate (`Allowed` is the partial unique index: at
most one row of a round is not cancelled), `cand` his stage and status. `Approve`
stands for a pass of the business screening that `recordDecision` applied, after which
the request creates the job (`Enqueue`, `Send`) and, after a single decision, also
looks for an open interview (`ensureApprovedInterview`). Between any two of these
statements the request may die, or the next one throw (`RequestDies`); `cutShort`
records what was then not done. `Judge` and `SaveResult` are the read and the write of
`saveResultOnce`. The handlers are `LoadCreate`, `LoadAdvance`, `Look`, `Insert`,
`Link`, `Review`, `MoveCandidate`; each of them may throw (`StatementFails`), and
`Fail` and `Flag` are the two statements of a failure.

### BusinessScreening

`resume`, `batch` and `item` are the three tables. A push reads, groups by
interviewer, then reopens, extends, appends or creates batch after batch
(`PushReads` ... `Mark`); `Gather` ... `Relink` consolidate, `Delete` and `Reset`
remove, `RejectChecks` ... `RejectRevokes` reject. A decision goes through
`OpenLink`, `DecideReads`, `DecideWrites` (one batch of three statements: the resume
under the conditions of `Decides`, then the item of the link and its siblings if the
resume carries the decision, `Stands`), `DecideReports`, and closes the link when
nothing is pending. The code tells a decision from another by nothing but verdict and
millisecond (`business_screened_at`, `processed_at`), and so does the model: a decision
takes a member of `Stamps`, which two of them, or a rejection by HR, may share. A
dispatch group is a number; the groups that the code derives from a batch are
negative. `HrWrites` are the routes of the resume list that write the same row.

### LlmSlots, ScreeningScore, SystemSettings

`MergeLlmSlots` and `WithIds` are folds over the list. A slot's key is named after
its model, so that a key that ended in the wrong slot shows. In `ScreeningScore` an
answer is a partial map from dimensions to integer scores, possibly with a second
one where its summary should be; scores are integers of 0 to 5 after clamping,
thresholds are tenths. `SystemSettings` has the two requests that save (`Find`,
`Read`, `Write`; `SaveRules`, `Find`, `WriteRules`), the `GET` that gives ids to
slots and writes them back (`Load`, `Fill`), what a user does to the list (`Edit`)
and a screening: `ReadRules`, `ReadPosition`, then `Judge`, one step because what
follows reads nothing the others write. The code swallows the failure of four of these
statements, which are actions of their own: `FillFails`; `ReadFails`, which makes
the merge start from no list; `RulesFail`, after which the rules of the system count
as never saved; and `PositionFails`, after which the position has no rules of its own.

### TalentReview

`op` is what a request or card callback is doing. The queue's side is `Claim` (a
compare-and-set), `Commit` (one `db.batch`, of which only one statement looks at the
claim), and in the catch `Release`; `CommitFails` lets the batch be rolled back, or
take effect and look failed. The other side is `WriteStatus` and `WriteStamp`, the
two statements of a decision on a resume, for one resume (`Decide`) or a list of them
(`DecideBatch`, which goes on after a failure). Claim tokens are milliseconds, so two
claims may share one.

## 3. Runs

All runs set `CHECK_DEADLOCK FALSE`: the bounds on requests, crashes and so on end
every behaviour. All are expected to pass but one, `batch_stall`, which shows a comment
of the code wrong (section 5).

| run | instance | shows |
|---|---|---|
| `queue_lease` | 1 resume, 2 jobs, 2 consumers, 2 requests, 1 crash, 1 duplicate, 1 retry, refused sends, uploads | one active job, exclusive claims, evaluations by the running claim, recovery keeps results, jobs are stranded only by a loss, the lifecycle is implemented |
| `queue_reprocess` | 4 requests, 2 retries, no crash or duplicate | a completed job leaves a result; at rest no resume is shown as in progress without a job |
| `queue_live` | 2 consumers, 2 requests one after the other, 1 crash, stop | types; running jobs end; queued jobs with a message are served |
| `batch_safe` | 2 resumes in pages of 1, 2 coordinators, 1 late message, failing calls, stop | types; a stopped batch stays stopped; completion only at the target |
| `batch_live` | 2 resumes, 1 fault: a death anywhere, a retry or an overtaken refresh; polls every period, or the page away for a while; no stop | a batch ends, or is one of those that section 5 names; an item says completed only if a job of its resume completed |
| `batch_stall` | 2 resumes, 1 death between pages, a poll every period, 2 periods to a stall timeout | violated: the stall recovery does not recover a batch while its page is open |
| `automation_jobs` | 2 jobs, 2 callers, 2 consumers with up to 2 messages each, 2 attempts, no redelivery, 2 deaths or throws, 2 duplicates | one invocation per job; the lifecycle is implemented; waiting jobs are served and running jobs end, unless an invocation died that held a message of them |
| `interview_schedule` | 2 requests of any of 8 kinds, 2 consumers, 2 times, 2 events, 1 death, 1 duplicate, 1 lost answer, any number of failing statements | one live event and none after a cancellation, but for those never recorded; reschedules tell the truth, cancellations stay, all as long as nothing goes round the version check; the handlers keep to the job machinery |
| `interview_rounds` | 3 requests of any of 8 kinds, 2 interviews, 2 consumers, 1 fault (a death of a request or an invocation, a failing statement, a duplicate), items with and without a position | no two jobs for opposite verdicts, an offer only after two passes; a pass leads to a first round unless its request, or the job that alone is left to create it, was cut short or failed |
| `screening_decisions` | 1 resume, 2 responsible interviewers, 2 requests of HR, 2 decisions in 2 milliseconds or in one, 2 batches, 1 request cut short | one decision applied and reported, siblings closed with it, decisions stand, HR's rejection holds |
| `system_settings` | 2 administrators, 2 models, 2 saves, 5 ids, 1 edit per page, 3 first rows, 10 answers, 2 weightings | an up-to-date page keeps every key; the rules that judge are those in force, or what the code falls back to when a read fails; a verdict is what they say of the exact mean |
| `talent_review` | 2 resumes, 2 records, 2 clerks, 2 tokens, 2 requests, 2 faults, 1 death | records are decided once, timestamps agree with the status, claims end |

Type invariants that no run lists are still definitions of their modules and
document the values of the variables; those of `AutomationQueue`, `TalentReview` and
`BusinessScreening` are proved.

### What the histories say

Several protocols of the code do not hold without qualification, and the models say
where they stop. A history variable records the one thing that breaks the promise,
and the property is stated for everything else:

- `InterviewSchedule!disturbed`: a direct route handled the interview, or a request
  wrote its row while a job was past its version check or after another had changed
  what it read. The version check gives no more. Deaths, lost answers and failing
  statements disturb nothing; what they leave behind is in `orphans`.
- `AutomationQueue!struck`: the jobs of which an invocation held a message when it died
  or threw, whether it had reached them or not. Nothing takes such a job up again.
- `InterviewRounds`: `disputed` is set when a verdict replaces the opposite one
  because check and `UPDATE` are two statements; `bypassed` when a route that never
  looks at the stored verdict was used; `cutShort` when a request that recorded a pass
  ended before the message of its job was sent (`"job"`), or before it looked for an
  interview (`"look"`). `PassGetsInterview` exempts the first, which nothing makes up
  for, and, where the job alone is left to create the round, a job that failed or was
  struck. `Unchecked = {"passed"}` lets only passes come by those routes, where they
  matter.
- `ReprocessBatch`: `BatchEnds` names its two exceptions as states: `Abandoned`, no
  coordinator will come to the batch, and `Stuck`, nobody will look at an item of it.
  The second may be for good; the first only together with polls that keep coming from
  some time on (`~RarelyPolled`).
- `BusinessScreening!meddled`: a consolidation wrote a status it had read before over
  an item that has been decided since, that was decided when it was read and is no
  more, or that HR's approval made look decided (`DecidedAs` is what a link decided).
  `again`: HR's rejection of the resume was taken back and the resume pushed again; a
  decision that was applied before the rejection is then no longer the resume's.
- `SystemSettings`: `fresh` is a page that shows the stored list (nobody has
  written it since, and the ids it was given are stored), `raced` that two first
  saves each made a row. "Each with its key" is relative to what is stored: a wrong key
  that an outdated page left is kept by later saves, so `SaveKeepsModels` compares with
  the list before the save and not with the key a model should have. A save that could
  not read that list is left out. `screen.unread` names the rules a screening failed to
  read: they count as none.
- `TalentReview!torn`: a decision was written between the two statements of another,
  or never got its second one.

### Bounds

- Resumes do not interact in ResumeQueue (every guard looks at one resume's jobs),
  so one resume is enough; two jobs are needed for a job that replaces another,
  two consumers and two requests for every race between a pair. `MaxAsked`,
  `MaxTries`, `MaxCrashes` and `MaxDuplicates` are as small as lets each event
  follow each other event.
- In ReprocessBatch two pages of one resume give every position of a page (first,
  between, last), and one batch suffices for what the properties say;
  `IndexAllows` matters only with a second batch, which no run has.
- `MaxOvertakes` bounds how often the coordinator changes a batch between the read
  and the write of a refresh. Each time, the page may be walked again, so the jobs
  of a resume are bounded with it.
- `batch_live` and `batch_stall` have two poll periods to a stall timeout; in the code
  it is seven, and two are enough for a poll to come before the timeout does.
- `MaxFaults` bounds deaths, retries and overtaken refreshes together: one of any kind,
  at any statement.
- AutomationQueue: two of everything let any two requests, messages and invocations
  meet, on one job or on two; two deaths reach the attempt limit. Two messages in a
  batch (in the code five) let one be lost with the other. In InterviewRounds, whose
  properties do not tell why a message is lost, and in InterviewSchedule, which is about
  safety alone, an invocation takes one: what is lost with a batch is there a message
  that is never delivered.
- InterviewSchedule, InterviewRounds: requests of all kinds meet in pairs (in threes
  for the rounds: a verdict, an opposite one, and what happens to the interview).
  Two events or two rows are one more than there may be.
- BusinessScreening: the races are about one resume, and two interviewers give it
  two links. Two stamps let two decisions share a millisecond or not. The run has one request of HR at a time, two of them one after the
  other, against two decisions; two overlapping requests of HR, more resumes and
  the kinds the run does not offer (`manual`, `temp`, `auto`, `remove`) are in the
  model and covered by the theorems, which hold for any of them.
- SystemSettings: five ids let two first `GET`s of a row with two slots both give ids and
  a save add one (the theorems have no such bound); two models make every mix-up of
  keys; the answers are on both sides
  of each gate, of the range and of the threshold, complete and not, and hide the real
  answer in the summary or not.
- TalentReview: two records of one resume, or of two, and two decisions at once.

### Fairness

Weak fairness for each process that runs: a Worker that has started a handler runs
on or dies; a queue delivers a message that waits; the cron trigger fires; the page
polls while a batch is active. Nothing makes a user ask, stop or change anything, and
nothing makes a call fail or succeed. The page may stay away for up to a stall
timeout before it polls again; nothing makes it do so, and that a batch is abandoned for
good where it does not is the second alternative of `BatchEnds`. (A page that never polls
again is left out: then nothing recovers its batch.) In ReprocessBatch the coordinator has strong
fairness because the bound `MaxOvertakes` can disable a step of it that the code
would take; the code itself is only asked for weak fairness.

`AutomationQueue` asks it of each delivery and of the conclusion of each execution
(`QueueFairness`). `InterviewRounds` asks only that something that can go on does
(`WF_vars(Progress)`): the bounds end what could keep one process from its turn, so
this weaker assumption suffices for `PassGetsInterview`; a request that may die either
goes on or dies, and both are steps. `TalentReview` asks it of
each clerk. `InterviewSchedule`, `BusinessScreening` and `SystemSettings` state
safety only.

## 4. Proofs

The theorems hold for every value of the constants, from the named assumptions on
them alone unless something else is said here.

`ResumeQueueProofs`:

- `TypeCorrect`: `Spec => []TypeOK`. The inductive invariant `IInv` adds
  `References`: exactly the rows that exist have an owner, messages name existing
  rows, an invocation at work holds such a message, and a request under way holds
  a row of its own resume. Without it a step could write the row of no resume.
- `OneActive`: `Spec => []OneActiveJobPerResume`. The inductive step uses that only
  the insert and the requeue create an active job, both under the unique index.

Its second part assumes, as a hypothesis of each theorem, that live invocations
keep their lease (`SlowWorkers = FALSE`) and that no batch is stopped
(`Stoppable = FALSE`). Both are needed: without the first two invocations can work
on one job, and what the second does is in section 5.

- `ClaimExclusive`: `Spec => []ExclusiveClaim`. `LeaseInv` says that a working
  invocation holds the latest claim (`attempt` is its `wrun`) of a running job
  whose lease has not lapsed, and that two working invocations never share a job:
  exclusiveness alone does not survive a second claim, the lease does.
- `EvaluationExclusive`: every write of an evaluation is by the latest claim of a
  running job; it follows from the invariant step by step.
- `ImplementsLifecycle`: `Spec => Lifecycle!Spec`; each action maps to one of
  `JobLifecycle` or to a stutter. This is where the unguarded `fail` matters: with
  exclusive claims it only meets running jobs.
- `RecoveryKeeps`: `Spec => RecoveryKeepsResult`. `RInv` adds to the above
  `OneActiveJobPerResume` and `RowInv`: a row the recovery remembers is still stale
  and, if it was selected without a result, its resume still has none, because
  only a working invocation writes one and nobody holds a stale job.

Its third part needs no hypothesis:

- `StrandedByLoss`: `Spec => StrandedOnlyByLoss`, with slow invocations, crashes,
  duplicates, refused sends, stops and uploads. It is shown action by action from
  `IInv` and `OneActiveJobPerResume`. The second is needed because `UploadSelect` takes
  the active job it finds: only when there is no other does it take the one that its
  request inserted and that waits for a message.

Its fourth part is about reprocessing alone (`ReprocessAlone`: leases are kept, no
stop, no upload, no crash, no duplicate, no refused send), the conditions of the run
`queue_reprocess`:

- `NoPhantom`: `Spec => []NoPhantomProgress`, and `CompletedResult`:
  `Spec => CompletedHasResult`. The invariant `PInv` says that every job in a hand is in
  one only (`OneHand`): a request that has not sent its message, the message, or the
  invocation that took it. So `ClearResume` cannot run while an invocation works on the
  same job, and a redelivered message cannot meet a claim. `Shown` says what `parse` and
  the evaluation are in between, the step between `FailJob` and `FailResume` included.
  Every hypothesis excludes something: a crash between these two statements, a refused
  send (section 5) or a recovery that dies leaves a resume shown as being processed; a
  duplicate or an upload's own message puts a job in two hands, so that the clearing
  can come after the evaluation.

`ReprocessBatchProofs`, for any numbers of resumes, coordinators, consumers, crashes,
retries and late messages:

- `BatchTypes`: `Spec => []TypeOK`. `IInv` adds, group of variables by group, that
  whoever is at work refers to a batch, a row of its page and a job of that row, and
  `Reporting` that a consumer refreshes nothing while it reports. (That a page has a
  first and a last row is derived from the well-foundedness of strict inclusion on
  finite sets, for want of induction.)
- `BatchStoppedStays`: every statement that writes a batch finds it active, or not
  failed, when it writes (`BatchMoves`).
- `BatchReachesTarget`: `Counted` says that a refresh about to complete a batch counted
  enough items; it survives because items never disappear (`ItemMoves`) and the target
  of a batch that was started never changes (`Begun`, `BatchMoves`).
- `CompletedItemsDone`, under the hypothesis that nobody stops a batch: a stop cancels
  jobs under their consumers, and the code reports a cancelled job as completed
  (section 5). `OneAtWork` says that a consumer at work is alone on a running job,
  `Truthful` that a report, an attachment or a correction of "completed" that was read
  and not yet written is about a completed job. The run has one crash, retry or overtaken
  refresh; the theorem has any number.

`AutomationQueueProofs` (for `QueueSafety`, so whatever the fairness):

- `QueueTypesHold`: types, and with them at most `MaxAttempts` claims of a job.
- `QueueOneRunner`: `[]OneRunner`. `OneRunner` counts invocations; the invariant
  `QInv` says the same without counting, `Marked` (what is executed is running) and
  `Alone` (two invocations of one job are one), and the count follows from the
  theorems about finite sets.
- `QueueIsLifecycle`: the queue implements `AutomationLifecycle`. A claim maps to
  `Start` because `Marked` makes a claimable job one that nobody executes; a
  settlement maps to `Finish` because the executing set is this invocation alone.

`InterviewScheduleProofs`:

- `VersionsHold`: `Spec => []SInv`. `Shapes` types the requests and invocations as far
  as a job's key needs, `Versions` says that no request and no job has a version the
  bound does not know; without it `Enqueue` could name no job.
- `ScheduleRefinesQueue`: `Spec => QueueRefined`: every step of the composed module is a
  step of `AutomationQueue` or leaves the jobs alone.
- `ScheduleOneRunner`: `Spec => []OneRunner`, the theorem of the queue carried over with
  the schedule's keys for its jobs (an instance of `AutomationQueueProofs`).
- `ScheduleTypes`: `Spec => []TypeOK`. `TInv` adds that an invocation works exactly when
  it holds a job (`Held`) and that whoever needs a time has one (`Timed`).
- `ScheduleOrdered`: `Spec => []EInv`, where `EInv` is `~disturbed => Ordered`.
  `disturbed` once true stays true (`DisturbanceStays`), so the step may assume it
  before and after. The core of `Ordered` is `Keys`: a version belongs to one request and
  to its one job, and a job that will be inserted is older than the row. From it only the
  newest job passes its check, and by `QFacts` (the queue's theorems) one invocation
  holds it (`OneWorks`). `Current` says what that one may rely on: the row is as it loaded
  it. `Known` says that a live event is the row's, the one it is about to record, or one of
  `orphans`, and `Outcome` what it leaves when it is done. Deaths, lost answers and
  failing statements are all in it: each may add an orphan and changes nothing else.
- `ScheduleOneEvent`, `RescheduleTells`, `CancellationEmpties` (`OneLiveEvent`,
  `RescheduleAgrees`, `CancelledIsEmpty`) are read off `Ordered`; `CancellationStays`
  (`CancelledStays`) needs in addition that an undisturbed request does not schedule a
  cancelled interview (`Quiet`) and that an invocation about to mark one holds the newest
  job, which for a cancelled one is the cancellation.

`InterviewRoundsProofs`, in three layers, each an inductive invariant over the last:

- `RoundsTypes`: `Spec => []TypeOK`. `WInv` adds the queue's `QInv`, that a request under
  way is about something (`Asked`), and that an invocation works on a job (`Busy`).
  `RowsEvolve` says what any step may do to an interview (`Touched`, `Born`, `Saved`,
  `Named`); what follows argues from that and not from the actions.
- `RoundsOneVerdict`: `Spec => []OneVerdict`. A job for a verdict exists only while its
  interview holds the verdict (`Backed`), and a request about to create one has saved it
  (`Saving`). Without `Saving` a save that overlaps the creation could take it away.
- `RoundsOfferAfterTwoPasses`: `Spec => []OfferAfterTwoPasses`. A second round names a
  passed first one (`Rooted`); an invocation between its `SELECT` and its `INSERT`, link
  or offer still carries the passed interview it read (`Carrying`), because verdicts do
  not change any more; the offer rests on a passed second round (`Earned`).

`BusinessScreeningProofs`. Only five actions write the outcome columns of a resume;
`RowWriters` lists them and each has a lemma on what becomes of a row.

- `RejectionOverrules`: `Spec => []DInv`: rows keep their columns (`RowShape`), and a
  resume that HR rejected is never one that passed the screening (`Overruled`), which
  is what keeps a later step from taking it for decided by a link.
- `LinkDecisionStands` (`DecisionStands`) and `RejectionHolds` (`HrRejectionHolds`):
  the two action properties from it. They cover what the run leaves out: two
  requests of HR at once, any number of resumes, and all nine kinds.
- `ScreeningTypes`: `Spec => []TypeOK`. `TInv` adds that requests refer to batches and
  resumes that are there (`Placed`) and that a dispatch group is no newer than the
  requests (`Young`), so that the group of a push is new.
- `ScreeningSafe`: `Spec => []SInv`. The steps of requests, decisions and the AI are
  reduced to what they may do to a resume (`RowsGo`), to an item (`ItemsGo`) and to a
  decision under way (`GoesOn`); what follows argues from these and not from the actions.
  `LinkInv`: a decided item has the verdict and the millisecond of its resume (`Stamped`),
  and so has what a link reported as applied (`Told`). `PushInv`: while a resume has no outcome no item
  of it is decided (`Clean`), and after the decision no request under way can add an item
  to the push (`Over`); without either, an item written later could disagree.
  `ReportInv`: a decision finds the row and the item it wrote until it has reported
  (`Finds`).
- `OneIsApplied` (`OneApplied`): two decisions that were both reported as applied have the
  verdict and the millisecond of one resume, so they are one, or cannot be told apart by
  anything the code stores. No assumption keeps two decisions out of one millisecond.
  `SiblingsClose` (`SiblingsAgree`) and
  `DecisionReported` (`DecisionIsReported`) from it.

Two exceptions of these properties came out of the proof. With three requests of HR a
resume is approved, a consolidation shows its items as passed, HR takes the approval
back, and a link's rejection finds the items closed; `meddled` covers it. And a decision
may be applied, overruled by a rejection, and made anew through a later push; `again`
covers it. The run has two requests of HR and meets neither.

`SystemSettingsProofs`:

- `VerdictsStand`: `Spec => []VerdictStands`. `Rounding` is the arithmetic: rounding to
  the nearest tenth and comparing with k tenths is comparing the exact quotient with
  half a tenth less; `WeightsCount` shows that the divisor is not zero whatever the
  position gives; `VerdictExact` lifts them to `evaluateWeightedScreening`. The
  invariant `VInv` adds that there is one row unless two first saves raced (`OneRow`)
  and that the rules read are those saved last, or none where the read failed
  (`ReadRight`).
- `ModelsKept`: `Spec => SaveKeepsModels`, for lists of any length. `MergeLlmSlots` and
  `WithIds` are folds, and the proof unfolds them without induction over data:
  `FoldExists` shows that the function which the fold chooses exists, as a sequence of
  partial results each one step after the last (`MergeSteps`, `FillSteps`), and
  `CountUp` carries a property along it, the set of the places where it holds having
  no least one missing. `MergeIds` then shows that a merge gives no id twice, and
  `MergeKeys` that it keeps models and keys when the page matches the stored list. The
  invariant `KInv` says that this is so for every page that is `fresh`
  (`UpToDate`): a slot without a key has a stored slot of its id and model, or nothing
  is stored. It needs ids that are distinct, below the last one given, and stored slots
  that have keys (`ListsSound`). The proof showed that the property as first stated,
  every key being the model's own, held in the run only because of its bound on ids:
  an outdated page may store a wrong key, which a later up-to-date save keeps.
- `SettingsTypes`: `Spec => []TypeOK`, from both invariants.

`TalentReviewProofs`:

- `ReviewInvariant`: `Spec => []RInv`: types; a record belongs to a resume (`Linked`);
  a clerk about to commit holds the claim of an undecided record, one about to release
  holds it unless its commit took effect (`Held`); two clerks never work on one record
  (`Alone`), which makes shared tokens harmless; nothing but a decision fills the
  talent pool (`PoolEmpty`); a resume that is not torn has at most one decision
  between its statements, and it wrote the status (`Stamps`).
- `RecordsDecidedOnce` (`DecidedOnce`) and `TimestampsAgree` (`StampsAgree`) from it.

Only model-checked: liveness under fairness and anything with ENABLED, which the
prover does not do (`RunningEnds`, `QueuedIsServed`, `BatchEnds`, `WaitingIsServed`,
`PassGetsInterview`, `ClaimsEnd`). Every safety property of the runs has a theorem.

## 5. What the code does and its documents do not say

Met while modelling. The models contain the behaviour, the properties are stated
around it as described above.

Resume queue and batches:

- A job that is stopped between `assertJobRunning` and the `UPDATE` of the resume still
  stores its evaluation, against the comment at `job-repository.ts:138`; and `fail` has
  no condition on the status, so it takes a stopped job from `cancelled` to `failed`,
  against `resume-consumer.ts:110`. `complete` leaves a stopped job alone, but
  `onComplete` tells its batch item `completed` all the same. All three need
  `Stoppable = TRUE`.
- When the retries of a message run out the job stays `queued` for ever: no dead-letter
  queue is configured, and the design has it failed.
- A send that is refused leaves `parse_status` at `queued`, with the job failed.
- Every progress poll ends with a refresh that renews `updated_at`, and the stall
  recovery of the same poll waits for one that is 30 seconds old: while the page is open
  the recovery never runs, against the comment at `reprocess.ts:213`. The run `batch_stall`
  shows it with one death: the coordinator dies after its page is done, and polls that
  come more often than the stall timeout keep the batch `running` for ever. A page that is
  closed, or throttled by the browser, for 30 seconds and then polls again recovers it.
- A coordinator that dies in the middle of a page leaves items `pending` without a job,
  which count as work in progress: the batch never ends.

Interviews:

- FR-02 has the API answer 409 to a verdict opposite to the stored one; the check and the
  `UPDATE` are two statements and both of two overlapping requests may be accepted.
- FR-08.6 has a rejection close the later rounds; nothing does, and a job delivered late
  moves a rejected candidate back to `interviewing`.
- FR-02.1 has the decision and the job in one transaction; they are two statements. When
  the request ends between them (`routes.ts:1036-1066`), a repeated decision is answered
  as a repetition and enqueues nothing: a candidate who passed has no interview.
- The job row is created before the send: after a refused send the next call with the
  same key finds the row and sends nothing. A batch decision on items without a position
  fails its job and leaves no interview.
- A death while an automation job runs leaves it `running`: nothing recovers it. With
  `max_retries = 0` a death, or a statement outside the `try` that throws, also loses the
  messages of its batch that were not reached; their jobs stay `queued` for ever.
- A death, a lost answer or a failing `UPDATE` (`repository.ts:157-161`) between the
  creation of a calendar event and the end of `markScheduled` leaves an event nobody
  knows: the job fails with `calendar_event_id` empty, the next schedule creates a second
  event, and a cancellation succeeds and deletes none.

Screening and settings:

- Two equal decisions of one link in the same millisecond are both reported as `applied`:
  verdict and timestamp are all that tells them apart (`repository.ts:395`, `597`).
- A failing `SELECT` of the screening rules is swallowed (`index.ts:3885-3893`, for a
  position's rules `3936-3954`): the candidate is judged by the builtin rules, or by those
  that are left, and nothing in the verdict says so.
- The AI calls of `index.ts:421` read the old columns of one configuration and not
  `llm_slots`, which the migration 0036 introduced.
- On an empty table two first saves each insert a row, and what the older one holds is
  never read again.
- A page that another administrator has outdated sends the id of a slot that is gone; it
  takes the key stored at some position, another model's, and every later save keeps
  it. Two first `GET`s of a row whose slots have no ids each write ids of their own, and
  so outdate each other. And the failure of that write is ignored (`index.ts:9587`): the
  page then shows ids that are not stored.
- A `PUT` of the settings that cannot read the stored list goes on without one
  (`index.ts:9608`): the slots whose keys were not typed again are dropped, against the
  comment at `index.ts:9602`, which says that they keep their keys.

Talent review, uploads, others:

- A death between claim and commit leaves a record in `processing` for ever.
- The `INSERT` of `POST /api/resume-screening` names 22 columns and has 24 placeholders,
  so it always fails; records come from `from-resume` only.
- An approval by a card inserts no row of the talent pool, one by the page does.
- `completeUpload` sends a message for a job id no row has; the consumer acknowledges it
  without effect. A failed write to R2 after the `INSERT` of a resume leaves a resume later
  uploads are deduplicated to.

## 6. Not modelled, and why

- Of the modelled components: the R2 variant of the processor's object reads and writes;
  deletion of a resume under processing; the list of resumes without a scope
  (`enqueueResumeReprocessBatchForIds`, a loop over the single re-evaluation); in business
  screening the legacy batches without `scope_key`, appending to a batch the caller names,
  and the choice among resumes of one name; notifications, cards and meeting rooms of the
  automation, which are calls of external services with a result nobody reads; hard
  requirements, prompts, the summary check and fractional scores of the screening; the
  connection test of a configuration and the migration of old columns by a `PUT` without
  `llm_slots`; of the daily report its aggregation, persistence and delivery.
- Writers of `resumes.status` that stamp nothing and belong to other components: the Feishu
  synchronisation (`index.ts` 7295-7347), the administrator's reset (14800-14890), the
  outcome of interviews. `StampsAgree` is about the decisions of the talent review.
- Upload sessions: their only effect on the queue is described above; `service.ts:93` is
  listed as a hazard without a property.
- Recruitment events (append-only rows with a unique key), operations and dashboards
  (aggregations), list and search (queries), maintenance (scripts started by hand), mail,
  Feishu and the public API (input and output), the legacy backend (replaced). Most routes
  of `index.ts` are single statements on one row, and most of the front end is rendering:
  neither has a state of its own that an interleaving could break, which is why the map
  covers a small share of the repository's lines.

## 7. Plan

Done: all modules of section 2. What would come next: `UploadSession` (initiate,
complete, fail, expire) composed with the messages of `ResumeQueue`; two batches of
one owner; the AI analysis of a queue record, which overwrites the result of the last
one.
