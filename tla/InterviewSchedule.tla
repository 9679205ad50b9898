--------------------------- MODULE InterviewSchedule ---------------------------
(***************************************************************************)
(* One interview's date: the row, the events of the recruiting calendar,   *)
(* the requests that schedule, move and cancel it (through automation jobs *)
(* or directly), and the consumer invocations that execute those jobs.     *)
(*                                                                         *)
(* A D1 statement and a call of the calendar are a step each: requests and *)
(* invocations interleave between any two of them.                         *)
(***************************************************************************)
EXTENDS Naturals, FiniteSets

CONSTANTS
    Callers, Consumers, NoJob, BatchSize, MaxAttempts, MaxRetries, MaxCrashes, MaxDuplicates,
    Slots,          \* times an interview can be given
    MaxEvents,      \* bound: calendar events created
    NoEvent,        \* no event id; also the time of an interview not yet given one
    Offered,        \* the kinds of request made in this instance
    MaxAsked,       \* bound: requests
    MaxLost         \* bound: calendar calls that take effect and whose answer is lost

ASSUME ScheduleAssumption ==
    /\ MaxEvents \in Nat /\ MaxAsked \in Nat /\ MaxLost \in Nat
    /\ NoEvent \notin Slots \cup (1..MaxEvents)
    /\ "free" \notin Slots /\ "gone" \notin Slots

VARIABLES
    row,            \* the row of interviews
    calendar,       \* calendar[e]: when event e takes place
    req,            \* requests under way
    exec,           \* invocations under way
    \* interview_automation_jobs and its queue
    jstat, attempts, queue, batch, sending, run, crashes, duplicates, struck,
    \* what the bounds count
    asked, lost,
    disturbed,      \* history: something went round the version check of the jobs
    orphans         \* history: events of invocations that ended before they recorded them

rowVars == <<row, calendar>>
automationVars == <<jstat, attempts, queue, batch, sending, run, crashes, duplicates, struck>>
historyVars == <<disturbed, orphans>>

-----------------------------------------------------------------------------
\* The keys schedule:<id>:v<n>, reschedule:<id>:v<n> and cancel:<id>:v<n>; the
\* payload of the job repeats the version.
Automated == {"schedule", "reschedule", "cancel"}
ScheduleJobs == [act : Automated, version : 2..(MaxAsked + 1)]

INSTANCE AutomationQueue WITH Jobs <- ScheduleJobs
ASSUME JobsAssumption == AutomationAssumption

vars == <<rowVars, req, exec, automationVars, asked, lost, historyVars>>

Kinds == Automated \cup {"direct", "offline", "card", "start", "result"}
ASSUME OfferedAssumption == Offered \subseteq Kinds

Events == 1..MaxEvents
Times == Slots \cup {NoEvent}

Status == {"awaiting_schedule", "scheduled", "in_progress", "cancel_pending",
           "cancelled", "completed", "manual_review"}
ScheduleStatus == {"not_ready", "queued", "scheduled", "cancel_pending", "cancelled", "failed"}

Rows == [status : Status, sched : ScheduleStatus, version : 1..(MaxAsked + 1),
         slot : Times,                  \* scheduled_start_at
         shown : Times,                 \* interview_time
         cal : Events \cup {NoEvent},   \* calendar_id and calendar_event_id
         fs : Events \cup {NoEvent},    \* feishu_event_id
         url : BOOLEAN,                 \* meeting_url is not empty
         link : BOOLEAN]                \* meeting_link is not empty

NewRow == [status |-> "awaiting_schedule", sched |-> "not_ready", version |-> 1,
           slot |-> NoEvent, shown |-> NoEvent, cal |-> NoEvent, fs |-> NoEvent,
           url |-> FALSE, link |-> FALSE]

\* What a request remembers: the row it read first, and the event it created.
Requests == [pc : {"idle", "write", "insert", "load", "call", "save"},
             kind : Kinds \cup {"none"}, time : Times,
             seen : Rows, event : Events \cup {NoEvent}]
NoRequest == [pc |-> "idle", kind |-> "none", time |-> NoEvent,
              seen |-> NewRow, event |-> NoEvent]

\* What an invocation remembers.
Executions == [pc : {"idle", "check", "load", "create", "update", "delete", "mark",
                     "notify", "retry", "fail", "review"},
               seen : Rows, event : Events \cup {NoEvent}]
NoExecution == [pc |-> "idle", seen |-> NewRow, event |-> NoEvent]

\* calendar[e] is a time, or the event does not exist yet, or was deleted.
Live(e) == calendar[e] \in Slots
LiveEvents == {e \in Events : Live(e)}

Init ==
    /\ row = NewRow
    /\ calendar = [e \in Events |-> "free"]
    /\ req = [q \in Callers |-> NoRequest]
    /\ exec = [c \in Consumers |-> NoExecution]
    /\ asked = 0 /\ lost = 0 /\ disturbed = FALSE /\ orphans = {}
    /\ QueueInit

-----------------------------------------------------------------------------
(* The calendar *)

\* An event is created at time t.
NewEvent(e, t) ==
    /\ calendar[e] = "free"
    /\ \A d \in Events : d < e => calendar[d] # "free"
    /\ calendar' = [calendar EXCEPT ![e] = t]

MoveEvent(e, t) ==
    /\ Live(e)
    /\ calendar' = [calendar EXCEPT ![e] = t]

DeleteEvent(e) ==
    /\ Live(e)
    /\ calendar' = [calendar EXCEPT ![e] = "gone"]

\* A call may be answered, or take effect and look like a failure (a timeout).
Answered == UNCHANGED lost
AnswerLost == lost < MaxLost /\ lost' = lost + 1

-----------------------------------------------------------------------------
(* Requests *)

Is(q, p, kinds) == req[q].pc = p /\ req[q].kind \in kinds

Continue(q, p) == req' = [req EXCEPT ![q].pc = p]
End(q) == req' = [req EXCEPT ![q] = NoRequest]

\* The row a request reads first, and the statuses on which it refuses.
Accepts(kind) ==
    CASE kind \in {"schedule", "reschedule"} -> row.status \notin {"cancelled", "completed"}
      [] kind = "cancel" -> row.status # "cancelled"
      [] kind = "start" -> row.status \in {"awaiting_schedule", "scheduled"}
      [] OTHER -> TRUE

Ask(q, kind, t) ==
    /\ req[q] = NoRequest /\ sending[q] = NoJob
    /\ asked < MaxAsked /\ asked' = asked + 1
    /\ Accepts(kind)
    /\ req' = [req EXCEPT ![q] = [pc |-> IF kind = "direct" THEN "call" ELSE "write",
                                  kind |-> kind, time |-> t, seen |-> row,
                                  event |-> NoEvent]]
    /\ disturbed' = (disturbed \/ kind \notin Automated \cup {"result"})
    /\ UNCHANGED <<rowVars, exec, automationVars, lost, orphans>>

Unbothered == UNCHANGED <<calendar, exec, automationVars, asked, lost, orphans>>

\* The write of an automated request: it disturbs the automation when the row
\* is no longer the one it read, or when a job is past its version check.
Prepare(q, new) ==
    /\ row' = new
    /\ Continue(q, "insert")
    /\ disturbed' = \/ disturbed
                     \/ row # req[q].seen
                     \/ \E c \in Consumers : exec[c].pc \notin {"idle", "check"}
    /\ Unbothered

\* prepareSchedule: the version written is the one read plus one, whatever the
\* row holds by now; the status is left alone.
PrepareSchedule(q) ==
    /\ Is(q, "write", {"schedule", "reschedule"})
    /\ Prepare(q, [row EXCEPT !.slot = req[q].time, !.shown = req[q].time,
                              !.sched = "queued", !.version = req[q].seen.version + 1])

PrepareCancel(q) ==
    /\ Is(q, "write", {"cancel"})
    /\ Prepare(q, [row EXCEPT !.status = "cancel_pending", !.sched = "cancel_pending",
                              !.version = req[q].seen.version + 1])

\* enqueueJob under the key of the version the request computed.
Enqueue(q) ==
    /\ Is(q, "insert", Automated)
    /\ LET j == [act |-> req[q].kind, version |-> req[q].seen.version + 1]
       IN  CreateJob(q, j) \/ FindJob(q, j)
    /\ End(q)
    /\ UNCHANGED <<rowVars, exec, asked, lost, historyVars>>

\* The other requests write the row without its version.
Write(q, new) == row' = new /\ UNCHANGED disturbed /\ Unbothered

\* A submitted result completes the interview, whatever its status.
SaveResult(q) ==
    /\ Is(q, "write", {"result"})
    /\ Write(q, [row EXCEPT !.status = "completed"])
    /\ End(q)

\* schedule-direct of an interview on site: the event it had is forgotten.
ScheduleOffline(q) ==
    /\ Is(q, "write", {"offline"})
    /\ Write(q, [row EXCEPT !.status = "scheduled", !.shown = req[q].time,
                            !.fs = NoEvent, !.link = FALSE])
    /\ End(q)

\* The interviewer's card: interview_time first, then the event.
CardWrites(q) ==
    /\ Is(q, "write", {"card"})
    /\ Write(q, [row EXCEPT !.shown = req[q].time])
    /\ IF req[q].seen.fs = NoEvent THEN End(q) ELSE Continue(q, "call")

StartWrites(q) ==
    /\ Is(q, "write", {"start"})
    /\ Write(q, [row EXCEPT !.status = "in_progress"])
    /\ Continue(q, "load")

\* The start reads the row again; without a meeting link it shows a free slot
\* of the interviewer, if it finds one, and (online) creates an event for it.
StartLoads(q) ==
    /\ Is(q, "load", {"start"})
    /\ \/ row.link /\ UNCHANGED row /\ End(q)
       \/ /\ ~row.link
          /\ \E t \in {req[q].time, row.shown} \ {NoEvent} :
                /\ row' = [row EXCEPT !.shown = t]
                /\ \/ req' = [req EXCEPT ![q] = [@ EXCEPT !.pc = "call", !.time = t,
                                                         !.seen.fs = NoEvent]]
                   \/ End(q)
    /\ UNCHANGED disturbed /\ Unbothered

\* createInterviewCalendarEvent, or updateInterviewCalendarEventTime on the
\* event id the request read; a call that fails ends the request.
RequestCalls(q) ==
    /\ Is(q, "call", {"direct", "start", "card"})
    /\ LET known == req[q].seen.fs IN
       \/ \E e \in Events :
             /\ IF known = NoEvent
                THEN NewEvent(e, req[q].time)
                ELSE e = known /\ MoveEvent(e, req[q].time)
             /\ \/ /\ Answered
                   /\ req[q].kind # "card"
                   /\ req' = [req EXCEPT ![q] = [@ EXCEPT !.pc = "save", !.event = e]]
                \/ Answered /\ req[q].kind = "card" /\ End(q)
                \/ AnswerLost /\ End(q)
       \/ End(q) /\ UNCHANGED <<calendar, lost>>
    /\ UNCHANGED <<row, exec, automationVars, asked, historyVars>>

\* A new event may come without a meeting link; schedule-direct writes neither
\* the version nor schedule_status.
DirectSaves(q) ==
    /\ Is(q, "save", {"direct"})
    /\ \E l \in IF req[q].seen.fs = NoEvent THEN BOOLEAN ELSE {req[q].seen.link} :
          Write(q, [row EXCEPT !.status = "scheduled", !.shown = req[q].time,
                               !.fs = req[q].event, !.link = l])
    /\ End(q)

StartSaves(q) ==
    /\ Is(q, "save", {"start"})
    /\ \E l \in {row.link, TRUE} :
          Write(q, [row EXCEPT !.fs = req[q].event, !.link = l])
    /\ End(q)

\* The request is cut short between two of its statements.
RequestDies(q) ==
    /\ req[q] # NoRequest
    /\ End(q)
    /\ UNCHANGED <<rowVars, exec, automationVars, asked, lost, historyVars>>

Send(q) ==
    /\ SendMessage(q) \/ LoseMessage(q)
    /\ UNCHANGED <<rowVars, req, exec, asked, lost, historyVars>>

CallerStep(q) ==
    \/ PrepareSchedule(q) \/ PrepareCancel(q) \/ Enqueue(q) \/ Send(q)
    \/ SaveResult(q) \/ ScheduleOffline(q) \/ CardWrites(q)
    \/ StartWrites(q) \/ StartLoads(q) \/ RequestCalls(q)
    \/ DirectSaves(q) \/ StartSaves(q) \/ RequestDies(q)

-----------------------------------------------------------------------------
(* Invocations: the schedule, reschedule and cancel handlers *)

At(c, p) == exec[c].pc = p
Act(c) == run[c].job.act

Proceed(c, p) == exec' = [exec EXCEPT ![c].pc = p]
Stop(c) == exec' = [exec EXCEPT ![c] = NoExecution]

\* On to a step that needs neither the row the handler loaded nor its event.
Leave(c, p) == exec' = [exec EXCEPT ![c] = [NoExecution EXCEPT !.pc = p]]

\* The step is about the job alone, or about the row alone.
JobStep == UNCHANGED <<rowVars, req, asked, lost, historyVars>>
RowStep == UNCHANGED <<calendar, req, automationVars, asked, lost, historyVars>>

\* Mutant of Claim: a message is taken for the job, which is not asked.
ClaimUnasked(c, m) ==
    /\ At(c, "idle")
    /\ run[c] = Idle /\ queue[m] > 0
    /\ queue' = [queue EXCEPT ![m] = @ - 1]
    /\ run' = [run EXCEPT ![c] = m]
    /\ Proceed(c, "check")
    /\ UNCHANGED <<jstat, attempts, batch, sending, crashes, duplicates, struck>>
    /\ JobStep

Claim(c, m) ==
    /\ At(c, "idle")
    /\ \/ ClaimJob(c, m) /\ Proceed(c, "check")
       \/ SkipJob(c, m) /\ UNCHANGED exec
    /\ JobStep

\* Mutant of Stale: no job is ever too old.
NeverStale(c) == FALSE

\* isStaleVersion: a job whose version is not the row's is cancelled.
Stale(c) == run[c].job.version # row.version

Check(c) ==
    /\ At(c, "check")
    /\ \/ Stale(c) /\ CompleteJob(c, "cancelled") /\ Stop(c)
       \/ ~Stale(c) /\ Proceed(c, "load") /\ UNCHANGED automationVars
    /\ JobStep

\* Mutants of FirstStep: a schedule job creates an event though there is one;
\* a reschedule only notifies; a cancellation only marks the row.
AlwaysCreates(c) == IF Act(c) = "schedule" THEN "create" ELSE
    IF Act(c) = "cancel" THEN (IF row.cal = NoEvent THEN "mark" ELSE "delete")
    ELSE IF row.cal = NoEvent THEN "create" ELSE "update"
NeverMoves(c) ==
    IF Act(c) = "cancel" THEN (IF row.cal = NoEvent THEN "mark" ELSE "delete")
    ELSE IF row.cal = NoEvent THEN "create" ELSE "notify"
NeverDeletes(c) ==
    IF Act(c) = "cancel" THEN "mark"
    ELSE IF row.cal = NoEvent THEN "create"
    ELSE IF Act(c) = "schedule" THEN "notify" ELSE "update"

\* The first thing a handler does with the row it loaded.  A schedule job of an
\* interview that has an event does nothing but notify.
FirstStep(c) ==
    IF Act(c) = "cancel" THEN (IF row.cal = NoEvent THEN "mark" ELSE "delete")
    ELSE IF row.cal = NoEvent THEN "create"
    ELSE IF Act(c) = "schedule" THEN "notify"
    ELSE "update"

\* requireInterview: the handler works on this row from here on.
Load(c) ==
    /\ At(c, "load")
    /\ exec' = [exec EXCEPT ![c] = [@ EXCEPT !.pc = FirstStep(c), !.seen = row]]
    /\ UNCHANGED row /\ RowStep

\* A call takes effect and is answered, takes effect and looks like a failure,
\* or fails.
Call(c, effect, event, failing) ==
    /\ \/ /\ effect /\ Answered
          /\ exec' = [exec EXCEPT ![c] = [@ EXCEPT !.pc = "mark", !.event = event]]
       \/ effect /\ AnswerLost /\ Leave(c, failing)
       \/ Leave(c, failing) /\ UNCHANGED <<calendar, lost>>
    /\ UNCHANGED <<row, req, automationVars, asked, disturbed>>

Create(c) ==
    /\ At(c, "create")
    /\ \E e \in Events :
          /\ Call(c, NewEvent(e, exec[c].seen.slot), e, "fail")
          /\ orphans' = IF lost' = lost THEN orphans ELSE orphans \cup {e}

\* Only this failure is retryable (CALENDAR_UPDATE_FAILED).
Update(c) ==
    /\ At(c, "update")
    /\ Call(c, MoveEvent(exec[c].seen.cal, exec[c].seen.slot), exec[c].seen.cal, "retry")
    /\ UNCHANGED orphans

\* The deletion of an event that is gone fails like any other call.
Delete(c) ==
    /\ At(c, "delete")
    /\ Call(c, DeleteEvent(exec[c].seen.cal), NoEvent, "fail")
    /\ UNCHANGED orphans

\* Mutant of MarkScheduled: two bound parameters are swapped.
MarkSwapped(c) ==
    /\ At(c, "mark") /\ Act(c) # "cancel"
    /\ row' = [row EXCEPT !.status = "scheduled", !.sched = "scheduled",
                          !.cal = exec[c].seen.slot, !.fs = exec[c].event]
    /\ Leave(c, "notify") /\ RowStep

\* markScheduled: an UPDATE by id alone, with what the handler remembers.  A
\* new event may come without a meeting link.
MarkScheduled(c) ==
    /\ At(c, "mark") /\ Act(c) # "cancel"
    /\ \E l \in IF exec[c].seen.cal = NoEvent THEN BOOLEAN ELSE {exec[c].seen.url} :
          row' = [row EXCEPT !.status = "scheduled", !.sched = "scheduled",
                             !.cal = exec[c].event, !.fs = exec[c].event,
                             !.url = l, !.link = l]
    /\ Leave(c, "notify") /\ RowStep

\* markScheduleCancelled: the event id is kept.
MarkCancelled(c) ==
    /\ At(c, "mark") /\ Act(c) = "cancel"
    /\ row' = [row EXCEPT !.status = "cancelled", !.sched = "cancelled"]
    /\ Leave(c, "notify") /\ RowStep

\* The event an invocation created and has yet to record.
Unrecorded(c) ==
    IF At(c, "mark") /\ exec[c].seen.cal = NoEvent THEN {exec[c].event} \cap Events ELSE {}
Forget(c) == orphans' = orphans \cup Unrecorded(c)

\* A D1 statement of the handler throws (requireInterview, markScheduled,
\* markScheduleCancelled): like every error that is not retryable, it fails the
\* job, and what the calendar did before stays done.
StatementFails(c) ==
    /\ exec[c].pc \in {"load", "mark"}
    /\ Leave(c, "fail")
    /\ Forget(c)
    /\ UNCHANGED <<rowVars, req, automationVars, asked, lost, disturbed>>

\* deliverInterviewNotifications sends everything, records
\* a failure, or throws; then the job is settled.
Notify(c) ==
    /\ At(c, "notify")
    /\ \/ (\E s \in {"succeeded", "partial"} : CompleteJob(c, s)) /\ Stop(c)
       \/ Leave(c, "fail") /\ UNCHANGED automationVars
    /\ JobStep

Retry(c) ==
    /\ At(c, "retry")
    /\ \/ RetryJob(c) /\ Stop(c)
       \/ /\ attempts[run[c].job] >= MaxAttempts
          /\ Leave(c, "fail") /\ UNCHANGED automationVars
    /\ JobStep

\* failJob, then markInterviewManualReview: two statements.
Fail(c) ==
    /\ At(c, "fail")
    /\ FailJob(c)
    /\ Leave(c, "review")
    /\ JobStep

Review(c) ==
    /\ At(c, "review")
    /\ row' = [row EXCEPT !.status = "manual_review", !.sched = "failed"]
    /\ Stop(c) /\ RowStep

\* The invocation dies or throws, and takes the rest of its batch with it; after
\* failJob, and with nothing left to reach, the jobs do not notice.
Crash(c) ==
    /\ IF At(c, "review") /\ batch[c] = {} THEN UNCHANGED automationVars ELSE Die(c)
    /\ Stop(c)
    /\ Forget(c)
    /\ UNCHANGED <<rowVars, req, asked, lost, disturbed>>

Duplicate(m) ==
    /\ DuplicateMessage(m)
    /\ UNCHANGED exec /\ JobStep

ConsumerStep(c) ==
    \/ Check(c) \/ Load(c) \/ Create(c) \/ Update(c) \/ Delete(c)
    \/ MarkScheduled(c) \/ MarkCancelled(c) \/ Notify(c) \/ Retry(c)
    \/ StatementFails(c) \/ Fail(c) \/ Review(c)

Next ==
    \/ \E q \in Callers :
          \/ \E kind \in Offered, t \in Slots : Ask(q, kind, t)
          \/ CallerStep(q)
    \/ \E c \in Consumers :
          \/ \E m \in Messages : Claim(c, m)
          \/ ConsumerStep(c) \/ Crash(c)
    \/ \E m \in Messages : Duplicate(m)

Spec == Init /\ [][Next]_vars

-----------------------------------------------------------------------------
(* Types *)

\* The values every variable ranges over.
TypeOK ==
    /\ row \in Rows
    /\ calendar \in [Events -> Slots \cup {"free", "gone"}]
    /\ req \in [Callers -> Requests]
    /\ exec \in [Consumers -> Executions]
    /\ asked \in 0..MaxAsked /\ lost \in 0..MaxLost
    /\ disturbed \in BOOLEAN /\ orphans \subseteq Events
    /\ QueueTypeOK

-----------------------------------------------------------------------------
(* Properties *)

\* The handlers keep to the machinery of AutomationQueue: every step of the
\* requests and invocations is one of its steps or leaves the jobs alone, so
\* what is proved of it (one runner, bounded attempts, settled jobs stay
\* settled) holds here.
QueueRefined == QueueSafety

\* What the version check of the jobs relies on and nothing enforces is
\* ~disturbed: no direct route handled the interview, and no request wrote its
\* row while a job was past its check or after another request had changed what
\* it read.  Invocations may die, calls lose their answers and statements fail.

\* Then jobs run late, repeated, out of order or failing half way leave the
\* interview with at most one event in the calendar, but for the events whose
\* invocation ended, by a death, a lost answer or a failing statement, between
\* their creation and markScheduled.
OneLiveEvent == ~disturbed => Cardinality(LiveEvents \ orphans) <= 1

\* Then a reschedule that reports success and is the newest job tells the
\* truth: the row's event is in the calendar at the row's time.
DoneMeansAgreed(acts) ==
    \A j \in ScheduleJobs :
        /\ j.act \in acts /\ j.version = row.version
        /\ jstat[j] \in {"succeeded", "partial"}
        => row.cal # NoEvent /\ calendar[row.cal] = row.slot
RescheduleAgrees == ~disturbed => DoneMeansAgreed({"reschedule"})

\* Then a cancelled interview is not scheduled again: no job that was queued
\* before the cancellation brings it back.
CancelledStays ==
    [][~disturbed' /\ row.status = "cancelled" => row'.status # "scheduled"]_vars

\* Then a finished cancellation leaves no event behind but those that were
\* never recorded.
CancelledIsEmpty == ~disturbed /\ row.sched = "cancelled" => LiveEvents \subseteq orphans

=============================================================================
