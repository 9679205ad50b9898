---------------------------- MODULE InterviewRounds ----------------------------
(***************************************************************************)
(* The rounds of one candidate: how a pass of the business screening and   *)
(* the verdicts on interviews create interviews and move the candidate,    *)
(* through automation jobs and beside them.                                *)
(*                                                                         *)
(* A D1 statement is a step; requests and invocations interleave between   *)
(* any two.  The candidate's interviews are rows; at most one row of a     *)
(* round is not cancelled (a partial UNIQUE index), and a statement that   *)
(* would break this fails.                                                 *)
(***************************************************************************)
EXTENDS Naturals, FiniteSets

CONSTANTS
    Callers, Consumers, NoJob, BatchSize, MaxAttempts, MaxRetries, MaxCrashes, MaxDuplicates,
    Setups,         \* what HR may have configured
    MaxRows,        \* bound: interviews of the candidate ever created
    Offered,        \* the kinds of request made in this instance
    Unchecked,      \* bound: the verdicts that come by routes that skip the stored one
    MaxAsked,       \* bound: requests
    MaxFaults       \* bound: requests and invocations cut short, messages delivered twice

ASSUME RoundsAssumption ==
    /\ MaxRows \in Nat /\ MaxAsked \in Nat /\ MaxFaults \in Nat
    /\ Setups \subseteq [item : BOOLEAN, primary : BOOLEAN, secondary : BOOLEAN]

VARIABLES
    setup,          \* item: the batch item names its position (the items of a merged
                    \* link do not); primary, secondary: the position's interviewers
    rows,           \* interviews
    cand,           \* stage and status of the resume
    req, exec,      \* requests and invocations under way
    \* interview_automation_jobs and its queue
    jstat, attempts, queue, batch, sending, run, crashes, duplicates, struck,
    asked, failures,    \* what the bounds count
    screened,       \* history: the kinds of request that recorded a pass
    cutShort,       \* history: what requests that recorded a pass did not get to
    disputed,       \* history: a verdict replaced the opposite one
    bypassed        \* history: a route that skips the stored verdict was used

-----------------------------------------------------------------------------
Ids == 1..MaxRows
None == 0
Verdicts == {"passed", "failed"}

\* The keys create-next-round:RESUME:r1 and advance:INTERVIEW:VERDICT.
CreateKey == [act |-> "create", row |-> None, verdict |-> "passed"]
AdvanceKey(x, v) == [act |-> "advance", row |-> x, verdict |-> v]
RoundJobs == {CreateKey} \cup {AdvanceKey(x, v) : x \in Ids, v \in Verdicts}

INSTANCE AutomationQueue WITH Jobs <- RoundJobs
ASSUME JobsAssumption == AutomationAssumption

automationVars == <<jstat, attempts, queue, batch, sending, run, crashes, duplicates, struck>>
historyVars == <<screened, cutShort, disputed, bypassed>>
vars == <<setup, rows, cand, req, exec, automationVars, asked, failures, historyVars>>

Status == {"free", "awaiting_schedule", "scheduled", "completed", "manual_review",
           "cancelled", "deleted"}
Gone == {"free", "deleted"}
Rows == [status : Status, round : 1..2, pos : BOOLEAN,
         verdict : Verdicts \cup {"none"}, prev : Ids \cup {None}, next : Ids \cup {None}]
FreeRow == [status |-> "free", round |-> 1, pos |-> FALSE,
            verdict |-> "none", prev |-> None, next |-> None]

Kinds == {"approve", "approveAll", "result", "advance", "evaluate", "talent",
          "cancel", "delete"}
Passing == {"approve", "approveAll"}
Requests == [pc : {"idle", "save", "enqueue", "sending", "look", "insert"},
             kind : Kinds \cup {"none"}, row : Ids \cup {None}, verdict : Verdicts]
NoRequest == [pc |-> "idle", kind |-> "none", row |-> None, verdict |-> "passed"]

\* src: the interview whose verdict is acted on; dst: the interview found or
\* created; named: the interviewer of dst is known.
Executions == [pc : {"idle", "load", "look", "insert", "link", "review", "settle",
                     "reject", "offer", "interviewing", "fail", "flag"},
               round : 1..2, src : Ids \cup {None}, dst : Ids \cup {None},
               pos : BOOLEAN, named : BOOLEAN]
NoExecution == [pc |-> "idle", round |-> 1, src |-> None, dst |-> None,
                pos |-> FALSE, named |-> FALSE]

Exists(x) == rows[x].status \notin Gone
Active(rs, x) == rs[x].status \notin Gone \cup {"cancelled"}

\* idx_interviews_resume_round_active.
Allowed(rs) ==
    \A x, y \in Ids : Active(rs, x) /\ Active(rs, y) /\ rs[x].round = rs[y].round => x = y

\* The rows after an INSERT.
Inserted(x, round, status, pos, prev) ==
    [rows EXCEPT ![x] = [status |-> status, round |-> round, pos |-> pos,
                         verdict |-> "none", prev |-> prev, next |-> None]]
NextFree(x) == rows[x].status = "free" /\ \A y \in 1..(x - 1) : rows[y].status # "free"

Init ==
    /\ setup \in Setups
    /\ rows = [x \in Ids |-> FreeRow]
    /\ cand = [stage |-> "screening", status |-> "screening"]
    /\ req = [q \in Callers |-> NoRequest]
    /\ exec = [c \in Consumers |-> NoExecution]
    /\ asked = 0 /\ failures = 0
    /\ screened = {} /\ cutShort = {} /\ disputed = FALSE /\ bypassed = FALSE
    /\ QueueInit

-----------------------------------------------------------------------------
(* Requests *)

Is(q, p, kinds) == req[q].pc = p /\ req[q].kind \in kinds
Continue(q, p) == req' = [req EXCEPT ![q].pc = p]
End(q) == req' = [req EXCEPT ![q] = NoRequest]

Faultless == crashes + duplicates + failures < MaxFaults

Begin(q) ==
    /\ req[q] = NoRequest /\ sending[q] = NoJob
    /\ asked < MaxAsked /\ asked' = asked + 1 /\ UNCHANGED failures

\* recordDecision applied a pass (BusinessScreening models how); the request has
\* yet to create the job, and no other will: a repeated decision finds the pass
\* recorded and enqueues nothing.  kind: the single decision or that of a batch.
Approve(q, kind) ==
    /\ Begin(q)
    /\ req' = [req EXCEPT ![q] = [NoRequest EXCEPT !.pc = "enqueue", !.kind = kind]]
    /\ screened' = screened \cup {kind}
    /\ UNCHANGED <<setup, rows, cand, exec, automationVars, cutShort, disputed, bypassed>>

\* Mutant of Conflicts: the stored verdict is not looked at.
NoConflict(x, v) == FALSE

\* saveResultOnce refuses a verdict opposite to the one it reads.
Conflicts(x, v) == rows[x].verdict \in Verdicts /\ rows[x].verdict # v

\* The result route reads the interview, whatever its status.
Judge(q, x, v) ==
    /\ Begin(q)
    /\ Exists(x) /\ ~Conflicts(x, v)
    /\ req' = [req EXCEPT ![q] = [pc |-> "save", kind |-> "result", row |-> x, verdict |-> v]]
    /\ UNCHANGED <<setup, rows, cand, exec, automationVars, historyVars>>

\* The advance route of HR stores no verdict.
Advance(q, x, v) ==
    /\ Begin(q)
    /\ Exists(x)
    /\ req' = [req EXCEPT ![q] = [pc |-> "enqueue", kind |-> "advance", row |-> x, verdict |-> v]]
    /\ bypassed' = TRUE
    /\ UNCHANGED <<setup, rows, cand, exec, automationVars, screened, cutShort, disputed>>

\* A request of one statement; a statement that the index refuses changes
\* nothing.
Statement(q, new) ==
    /\ Begin(q)
    /\ Allowed(new)
    /\ rows' = new
    /\ UNCHANGED <<setup, cand, req, exec, automationVars, screened, cutShort, disputed>>

\* The evaluation by a card or by the evaluate route, and the confirm route:
\* verdict and status are written as they come, no job is created.  The card
\* creates a first round for a candidate without an interview and evaluates it.
Evaluate(q, x, v) ==
    /\ Exists(x) \/ (NextFree(x) /\ \A y \in Ids : ~Exists(y))
    /\ LET old == IF Exists(x) THEN rows ELSE Inserted(x, 1, "scheduled", FALSE, None) IN
       \E s \in {"completed", IF v = "passed" THEN "scheduled" ELSE "completed"} :
          Statement(q, [old EXCEPT ![x].verdict = v, ![x].status = s])
    /\ bypassed' = TRUE

\* start-from-talent-pool.
StartFromTalentPool(q, x) ==
    /\ NextFree(x)
    /\ Statement(q, Inserted(x, 1, "scheduled", FALSE, None))
    /\ UNCHANGED bypassed

CancelDirectly(q, x) ==
    /\ Exists(x) /\ rows[x].status # "cancelled"
    /\ Statement(q, [rows EXCEPT ![x].status = "cancelled"])
    /\ UNCHANGED bypassed

Delete(q, x) ==
    /\ Exists(x)
    /\ Statement(q, [rows EXCEPT ![x].status = "deleted"])
    /\ bypassed' = TRUE

RequestStep == UNCHANGED <<setup, cand, exec, asked, failures>>

\* The UPDATE of saveResultOnce: the verdict read above is not in its WHERE.
\* The index refuses it when the interview was cancelled and another took its
\* round.
SaveResult(q) ==
    /\ Is(q, "save", {"result"})
    /\ LET x == req[q].row
           v == req[q].verdict
           new == IF Exists(x)
                  THEN [rows EXCEPT ![x].verdict = v, ![x].status = "completed"] ELSE rows
       IN  \/ /\ Allowed(new)
              /\ rows' = new
              /\ disputed' = (disputed \/ (Exists(x) /\ Conflicts(x, v)))
              /\ Continue(q, "enqueue")
           \/ ~Allowed(new) /\ End(q) /\ UNCHANGED <<rows, disputed>>
    /\ UNCHANGED <<automationVars, screened, cutShort, bypassed>> /\ RequestStep

KeyOf(q) == IF req[q].kind \in Passing THEN CreateKey
            ELSE AdvanceKey(req[q].row, req[q].verdict)

\* Mutant of AfterJob: the single decision relies on the job.
AfterJobNothing(q) == End(q)

\* What follows the job: the single decision also looks for an open interview.
AfterJob(q) == IF req[q].kind = "approve" THEN Continue(q, "look") ELSE End(q)

Enqueue(q) ==
    /\ req[q].pc = "enqueue"
    /\ \/ CreateJob(q, KeyOf(q)) /\ Continue(q, "sending")
       \/ FindJob(q, KeyOf(q)) /\ AfterJob(q)
    /\ UNCHANGED <<rows, historyVars>> /\ RequestStep

\* What a request that ends now leaves undone: the job and its message, and the
\* look for an open interview after a single decision.
Undone(q) ==
    IF req[q].kind \notin Passing THEN {}
    ELSE IF req[q].pc \in {"enqueue", "sending"} THEN {"job"} ELSE {"look"}

Send(q) ==
    /\ req[q].pc = "sending"
    /\ SendMessage(q) /\ AfterJob(q)
    /\ UNCHANGED <<rows, historyVars>> /\ RequestStep

\* The request dies between two statements, or one of them throws (enqueueAutomation
\* does when the INSERT or the send fails; ensureApprovedInterview swallows what it
\* meets, and ends): what was to follow is not done.
RequestDies(q) ==
    /\ req[q] # NoRequest
    /\ Faultless /\ failures' = failures + 1
    /\ IF req[q].pc = "sending" THEN LoseMessage(q) ELSE UNCHANGED automationVars
    /\ End(q)
    /\ cutShort' = cutShort \cup Undone(q)
    /\ UNCHANGED <<setup, rows, cand, exec, asked, screened, disputed, bypassed>>

\* ensureApprovedInterview: SELECT of an open interview ...
LookForOpen(q) ==
    /\ Is(q, "look", {"approve"})
    /\ IF \E x \in Ids : rows[x].status \in {"awaiting_schedule", "scheduled"}
       THEN End(q) ELSE Continue(q, "insert")
    /\ UNCHANGED <<rows, automationVars, historyVars>> /\ RequestStep

\* ... and INSERT of a first round without a position; errors are swallowed.
InsertApproved(q) ==
    /\ Is(q, "insert", {"approve"})
    /\ \E x \in Ids :
          /\ NextFree(x)
          /\ LET new == Inserted(x, 1, "awaiting_schedule", FALSE, None)
             IN  rows' = IF Allowed(new) THEN new ELSE rows
    /\ End(q)
    /\ UNCHANGED <<automationVars, historyVars>> /\ RequestStep

Ask(q) ==
    \/ \E kind \in Offered \cap Passing : Approve(q, kind)
    \/ \E x \in Ids, v \in Verdicts :
          \/ "result" \in Offered /\ Judge(q, x, v)
          \/ "advance" \in Offered /\ v \in Unchecked /\ Advance(q, x, v)
          \/ "evaluate" \in Offered /\ v \in Unchecked /\ Evaluate(q, x, v)
    \/ \E x \in Ids :
          \/ "talent" \in Offered /\ StartFromTalentPool(q, x)
          \/ "cancel" \in Offered /\ CancelDirectly(q, x)
          \/ "delete" \in Offered /\ Delete(q, x)

CallerStep(q) ==
    SaveResult(q) \/ Enqueue(q) \/ Send(q) \/ LookForOpen(q) \/ InsertApproved(q)

-----------------------------------------------------------------------------
(* Invocations: the create_next_round and advance handlers *)

At(c, p) == exec[c].pc = p
Job(c) == run[c].job
Proceed(c, p) == exec' = [exec EXCEPT ![c].pc = p]
Stop(c) == exec' = [exec EXCEPT ![c] = NoExecution]

JobStep == UNCHANGED <<setup, rows, cand, req, asked, failures, historyVars>>
RowStep == UNCHANGED <<setup, req, automationVars, asked, failures, historyVars>>

\* These jobs carry no version: isStaleVersion lets all of them pass.
Claim(c, m) ==
    /\ At(c, "idle")
    /\ \/ ClaimJob(c, m) /\ Proceed(c, "load")
       \/ SkipJob(c, m) /\ UNCHANGED exec
    /\ JobStep

Duplicate(m) == Faultless /\ DuplicateMessage(m) /\ UNCHANGED exec /\ JobStep

\* The invocation dies or throws, and takes the rest of its batch with it; after
\* failJob, and with nothing left to reach, the jobs do not notice.
Crash(c) ==
    /\ Faultless
    /\ IF At(c, "flag") /\ batch[c] = {} THEN UNCHANGED automationVars ELSE Die(c)
    /\ Stop(c)
    /\ JobStep

\* createInitialInterviewFromBusinessPass needs the position of the item.
LoadCreate(c) ==
    /\ At(c, "load") /\ Job(c) = CreateKey
    /\ exec' = [exec EXCEPT ![c] =
          [NoExecution EXCEPT !.pc = IF setup.item THEN "look" ELSE "fail",
                              !.pos = TRUE, !.named = setup.primary]]
    /\ UNCHANGED <<rows, cand>> /\ RowStep

\* Mutant of LoadAdvance: the first round counts as the last.
LoadAdvanceEarly(c) ==
    /\ At(c, "load") /\ Job(c) # CreateKey
    /\ exec' = [exec EXCEPT ![c] = [NoExecution EXCEPT
          !.pc = IF Job(c).verdict = "failed" THEN "reject" ELSE "offer"]]
    /\ UNCHANGED <<rows, cand>> /\ RowStep

\* advanceInterview: a failure, the second round and the first one part ways.
LoadAdvance(c) ==
    /\ At(c, "load") /\ Job(c) # CreateKey
    /\ LET x == Job(c).row IN
       exec' = [exec EXCEPT ![c] =
          [pc |-> IF ~Exists(x) THEN "fail"
                  ELSE IF Job(c).verdict = "failed" THEN "reject"
                  ELSE IF rows[x].round = 2 THEN "offer" ELSE "look",
           round |-> 2, src |-> x, dst |-> None, pos |-> rows[x].pos,
           named |-> rows[x].pos /\ setup.secondary]]
    /\ UNCHANGED <<rows, cand>> /\ RowStep

\* createOrGetRound: SELECT ...
AfterRound(c) == IF exec[c].src # None THEN "link"
                 ELSE IF exec[c].named THEN "interviewing" ELSE "review"
Look(c) ==
    /\ At(c, "look")
    /\ LET found == {x \in Ids : Active(rows, x) /\ rows[x].round = exec[c].round} IN
       \/ /\ found = {} /\ Proceed(c, "insert")
       \/ \E x \in found :
             exec' = [exec EXCEPT ![c] = [@ EXCEPT !.pc = AfterRound(c), !.dst = x]]
    /\ UNCHANGED <<rows, cand>> /\ RowStep

\* ... then INSERT, which fails when another row took the round meanwhile.
Insert(c) ==
    /\ At(c, "insert")
    /\ \E x \in Ids :
          /\ NextFree(x)
          /\ LET new == Inserted(x, exec[c].round, "awaiting_schedule", exec[c].pos, exec[c].src)
             IN  \/ /\ Allowed(new) /\ rows' = new
                    /\ exec' = [exec EXCEPT ![c] = [@ EXCEPT !.pc = AfterRound(c), !.dst = x]]
                 \/ ~Allowed(new) /\ Proceed(c, "fail") /\ UNCHANGED rows
    /\ UNCHANGED cand /\ RowStep

\* linkRounds: two UPDATEs in one batch.
Link(c) ==
    /\ At(c, "link")
    /\ rows' = [rows EXCEPT ![exec[c].src].next = exec[c].dst, ![exec[c].dst].prev = exec[c].src]
    /\ Proceed(c, IF exec[c].named THEN "interviewing" ELSE "review")
    /\ UNCHANGED cand /\ RowStep

\* Mutant of Reviewed: a status the list does not know.
ReviewedUnknown(x) == IF x \in Ids /\ Exists(x) THEN [rows EXCEPT ![x].status = "review"] ELSE rows

\* markInterviewManualReview: UPDATE by id alone; a cancelled interview whose
\* round was taken makes it fail.
Reviewed(x) == IF x \in Ids /\ Exists(x) THEN [rows EXCEPT ![x].status = "manual_review"] ELSE rows
Review(c) ==
    /\ At(c, "review")
    /\ LET new == Reviewed(exec[c].dst) IN
       \/ Allowed(new) /\ rows' = new /\ Proceed(c, "settle")
       \/ ~Allowed(new) /\ Proceed(c, "fail") /\ UNCHANGED rows
    /\ UNCHANGED cand /\ RowStep

\* markCandidateInterviewing, finishCandidateAsRejected, markPendingOfferReview:
\* UPDATEs of the resume by id alone.
MoveCandidate(c) ==
    /\ exec[c].pc \in {"interviewing", "reject", "offer"}
    /\ cand' = CASE At(c, "interviewing") -> [stage |-> "interviewing", status |-> "interviewing"]
                 [] At(c, "reject") -> [stage |-> "rejected", status |-> "rejected"]
                 [] At(c, "offer") -> [cand EXCEPT !.stage = "offer_pending"]
    /\ Proceed(c, "settle")
    /\ UNCHANGED rows /\ RowStep

Complete(c) ==
    /\ At(c, "settle")
    /\ CompleteJob(c, "succeeded") /\ Stop(c)
    /\ JobStep

\* A D1 statement of the handler throws, completeJob's included: nothing of that
\* kind is retried.
StatementFails(c) ==
    /\ Faultless /\ failures' = failures + 1
    /\ exec[c].pc \in {"load", "look", "insert", "link", "review",
                      "interviewing", "reject", "offer", "settle"}
    /\ Proceed(c, "fail")
    /\ UNCHANGED <<setup, rows, cand, req, automationVars, asked, historyVars>>

\* failJob, then markInterviewManualReview if the job has an interview.
Fail(c) ==
    /\ At(c, "fail")
    /\ FailJob(c)
    /\ exec' = [exec EXCEPT ![c] =
          IF Job(c) = CreateKey THEN NoExecution
          ELSE [NoExecution EXCEPT !.pc = "flag", !.dst = Job(c).row]]
    /\ JobStep

Flag(c) ==
    /\ At(c, "flag")
    /\ LET new == Reviewed(exec[c].dst) IN rows' = IF Allowed(new) THEN new ELSE rows
    /\ Stop(c)
    /\ UNCHANGED cand /\ RowStep

ConsumerStep(c) ==
    \/ LoadCreate(c) \/ LoadAdvance(c) \/ Look(c) \/ Insert(c) \/ Link(c) \/ Review(c)
    \/ MoveCandidate(c) \/ Complete(c) \/ Fail(c) \/ Flag(c)

Next ==
    \/ \E q \in Callers : Ask(q) \/ CallerStep(q) \/ RequestDies(q)
    \/ \E c \in Consumers :
          \/ \E m \in Messages : Claim(c, m)
          \/ ConsumerStep(c) \/ StatementFails(c) \/ Crash(c)
    \/ \E m \in Messages : Duplicate(m)

\* While a request that was made can go on, a message waits or an invocation can
\* go on, one of them does; new requests, failures and deaths owe nothing.
Progress ==
    \/ \E q \in Callers : CallerStep(q)
    \/ \E c \in Consumers : ConsumerStep(c) \/ \E m \in Messages : Claim(c, m)

Spec == Init /\ [][Next]_vars /\ WF_vars(Progress)

-----------------------------------------------------------------------------
(* Types *)

\* The values every variable ranges over.
Stages == {"screening", "interviewing", "offer_pending", "rejected"}
TypeOK ==
    /\ setup \in Setups
    /\ rows \in [Ids -> Rows]
    /\ cand \in [stage : Stages, status : Stages \ {"offer_pending"}]
    /\ req \in [Callers -> Requests]
    /\ exec \in [Consumers -> Executions]
    /\ asked \in 0..MaxAsked /\ failures \in 0..MaxFaults
    /\ screened \subseteq Passing /\ cutShort \subseteq {"job", "look"}
    /\ {disputed, bypassed} \subseteq BOOLEAN
    /\ QueueTypeOK

-----------------------------------------------------------------------------
(* Properties *)

\* FR-02: a verdict opposite to a stored one is refused.  So the interview
\* never has jobs for both verdicts, unless HR used the advance route or two
\* requests overlapped (the check and the UPDATE are two statements).
Judged(x, v) == jstat[AdvanceKey(x, v)] # "none"
Split(x) == Judged(x, "passed") /\ Judged(x, "failed")
OneVerdict == disputed \/ bypassed \/ \A x \in Ids : ~Split(x)

\* A candidate waits for an offer only after two rounds that were passed, the
\* second one created from the first, with no dispute and no bypass.
Passed(x, round) == rows[x].round = round /\ rows[x].verdict = "passed"
TwoPasses == \E x, y \in Ids : Passed(x, 1) /\ Passed(y, 2) /\ rows[y].prev = x
OfferAfterTwoPasses ==
    cand.stage = "offer_pending" => disputed \/ bypassed \/ TwoPasses

\* A candidate whose pass was recorded gets a first round in the end, though one
\* of two creators is refused by the index.  The two exceptions: no other request
\* makes up for one that ended before the message of its job was sent; and where
\* the job alone is to create the round, after a decision in batch or a single
\* one that ended before it looked for an interview, the job may fail, which it
\* says, or lose its invocation.
FirstRound == \E x \in Ids : rows[x].status # "free" /\ rows[x].round = 1
JobAlone == "approve" \notin screened \/ "look" \in cutShort
JobLost == jstat[CreateKey] = "failed" \/ CreateKey \in struck
PassGetsInterview ==
    screened # {} ~> FirstRound \/ "job" \in cutShort \/ (JobAlone /\ JobLost)

=============================================================================
