---------------------------- MODULE TalentReview ----------------------------
(***************************************************************************)
(* Who goes into the talent pool: the records of the screening queue with  *)
(* their claim, their decision and its commit, and the routes that decide  *)
(* on a resume without the queue.  Both write the resume's status and the  *)
(* two timestamps the daily report counts; the queue does so in one D1     *)
(* batch, the routes in two statements.                                    *)
(*                                                                         *)
(* A D1 statement, or batch of statements, is a step.                      *)
(***************************************************************************)
EXTENDS Naturals, FiniteSets

CONSTANTS
    Resumes,
    Records,        \* rows of resume_screening_queue
    Clerks,         \* requests and card callbacks under way
    Tokens,         \* claim tokens: now(), in milliseconds, so that two claims may share one
    NoResume, NoRecord, NoToken,
    MaxAsked,       \* bound: requests
    MaxFaults,      \* bound: D1 calls that fail, or take effect and look failed
    MaxDeaths       \* bound: invocations that end before they are through

ASSUME ReviewAssumption ==
    /\ NoResume \notin Resumes /\ NoRecord \notin Records /\ NoToken \notin Tokens
    /\ MaxAsked \in Nat /\ MaxFaults \in Nat /\ MaxDeaths \in Nat

VARIABLES
    resume,         \* rows of resumes
    record,         \* rows of resume_screening_queue
    pool,           \* pool[e]: rows of talent_pool inserted for record e
    op,             \* what each clerk is doing
    torn,           \* history: see Outstanding
    asked, faults, deaths

vars == <<resume, record, pool, op, torn, asked, faults, deaths>>

-----------------------------------------------------------------------------
\* "open" stands for pending_screening and pending_review.
Statuses == {"open", "waitlist", "pending_interview", "approved", "rejected"}
Rows == [status : Statuses, approved : BOOLEAN, rejected : BOOLEAN]  \* approved_at, rejected_at

RecordStatus == {"none", "pending", "processing", "approved", "rejected"}
RecordRows == [status : RecordStatus, resume : Resumes \cup {NoResume},
               claim : Tokens \cup {NoToken}]       \* feishu_processed_at

\* Decisions on a resume: the status each one writes and the event it stamps.
Kinds == {"approve", "reject", "confirm", "reopen", "interview", "waitlist"}
NewStatus(kind) ==
    CASE kind = "approve" -> "approved"
      [] kind \in {"reject", "confirm"} -> "rejected"
      [] kind = "reopen" -> "open"
      [] kind = "interview" -> "pending_interview"
      [] kind = "waitlist" -> "waitlist"
Event(kind) ==
    CASE kind \in {"approve", "interview"} -> "approved"
      [] kind \in {"reject", "confirm"} -> "rejected"
      [] kind \in {"reopen", "waitlist"} -> "reset"

\* Mutant of Stamped: an approval leaves the stamp of an earlier rejection.
StampedAlone(row, event) ==
    [row EXCEPT !.approved = (event = "approved"),
                !.rejected = event # "reset" /\ (event = "rejected" \/ @)]

\* recordResumeDecisionTimestamp: one UPDATE sets both columns.
Stamped(row, event) ==
    [row EXCEPT !.approved = (event = "approved"), !.rejected = (event = "rejected")]

\* What the queue and a business decision write at once.
Concluded(status) == Stamped([status |-> status, approved |-> FALSE, rejected |-> FALSE], status)

Ops == [pc : {"idle", "read", "write", "stamp", "commit", "release"},
        kind : Kinds \cup {"none"},
        resume : Resumes \cup {NoResume},
        todo : SUBSET Resumes,              \* the rest of the ids of a batch
        record : Records \cup {NoRecord},
        token : Tokens \cup {NoToken},
        inserts : BOOLEAN]                  \* the commit inserts into talent_pool
NoOp == [pc |-> "idle", kind |-> "none", resume |-> NoResume, todo |-> {},
         record |-> NoRecord, token |-> NoToken, inserts |-> FALSE]

Init ==
    /\ resume = [x \in Resumes |-> [status |-> "open", approved |-> FALSE, rejected |-> FALSE]]
    /\ record = [e \in Records |-> [status |-> "none", resume |-> NoResume, claim |-> NoToken]]
    /\ pool = [e \in Records |-> 0]
    /\ op = [c \in Clerks |-> NoOp]
    /\ torn = {}
    /\ asked = 0 /\ faults = 0 /\ deaths = 0

-----------------------------------------------------------------------------
(* Bookkeeping *)

Asking(c) == op[c] = NoOp /\ asked < MaxAsked /\ asked' = asked + 1
Fault == faults < MaxFaults /\ faults' = faults + 1

At(c, p) == op[c].pc = p
Continue(c, p) == op' = [op EXCEPT ![c].pc = p]
End(c) == op' = [op EXCEPT ![c] = NoOp]

\* Clerks between the two statements of a decision on x.
Outstanding(x) == {c \in Clerks : At(c, "stamp") /\ op[c].resume = x}

\* torn: resumes whose last status was written while another decision was
\* between its two statements, or never got its stamp.
Disturbs(x, others) == torn' = IF others = {} THEN torn \ {x} ELSE torn \cup {x}

\* The next id of a batch, or the end of the request.
Onward(c) ==
    \/ op[c].todo = {} /\ End(c)
    \/ \E x \in op[c].todo :
           op' = [op EXCEPT ![c].pc = "read", ![c].resume = x, ![c].todo = @ \ {x}]

-----------------------------------------------------------------------------
(* The screening queue *)

\* A record is created from a resume; a resume may have several.
Enter(e, x) ==
    /\ record[e].status = "none"
    /\ record' = [record EXCEPT ![e] = [status |-> "pending", resume |-> x, claim |-> NoToken]]
    /\ UNCHANGED <<resume, pool, op, torn, asked, faults, deaths>>

\* claimScreeningQueueRecord.  The route that finds the record decided, or loses
\* the compare-and-set, answers 400 or 409 and changes nothing.
Claim(c, e, kind, inserts, t) ==
    /\ Asking(c)
    /\ record[e].status = "pending"
    /\ record' = [record EXCEPT ![e].status = "processing", ![e].claim = t]
    /\ op' = [op EXCEPT ![c] = [pc |-> "commit", kind |-> kind, resume |-> record[e].resume,
                                todo |-> {}, record |-> e, token |-> t, inserts |-> inserts]]
    /\ UNCHANGED <<resume, pool, torn, faults, deaths>>

Claimed(c) ==
    /\ record[op[c].record].status = "processing"
    /\ record[op[c].record].claim = op[c].token

\* commitScreeningDecisionAtomically: only the UPDATE of the queue looks at the
\* claim, the UPDATE of the resume and the INSERT do not.
CommitBatch(c) ==
    LET x == op[c].resume
        e == op[c].record
        decision == NewStatus(op[c].kind)
    IN  /\ record' = IF Claimed(c) THEN [record EXCEPT ![e].status = decision] ELSE record
        /\ resume' = [resume EXCEPT ![x] = Concluded(decision)]
        /\ Disturbs(x, Outstanding(x))
        /\ pool' = [pool EXCEPT ![e] = IF op[c].inserts THEN @ + 1 ELSE @]

Commit(c) ==
    /\ At(c, "commit")
    /\ CommitBatch(c) /\ End(c)
    /\ UNCHANGED <<asked, faults, deaths>>

\* Mutant of CommitFails: the catch only logs.
CommitFailsLogged(c) ==
    /\ At(c, "commit") /\ Fault
    /\ End(c)
    /\ CommitBatch(c) \/ UNCHANGED <<resume, record, pool, torn>>
    /\ UNCHANGED <<asked, deaths>>

\* The batch is rolled back, or it took effect and its answer is lost.
CommitFails(c) ==
    /\ At(c, "commit") /\ Fault
    /\ Continue(c, "release")
    /\ CommitBatch(c) \/ UNCHANGED <<resume, record, pool, torn>>
    /\ UNCHANGED <<asked, deaths>>

\* Mutant of Release: the claim is taken back whatever became of it.
ReleaseAlways(c) ==
    /\ At(c, "release")
    /\ record' = [record EXCEPT ![op[c].record].status = "pending"]
    /\ End(c)
    /\ UNCHANGED <<resume, pool, torn, asked, faults, deaths>>

\* releaseScreeningQueueClaim, in the catch of the commit.
Release(c) ==
    /\ At(c, "release")
    /\ record' = IF Claimed(c) THEN [record EXCEPT ![op[c].record].status = "pending"] ELSE record
    /\ End(c)
    /\ UNCHANGED <<resume, pool, torn, asked, faults, deaths>>

-----------------------------------------------------------------------------
(* Decisions on resumes *)

\* approveBatch and rejectBatch: lists, cards, decision page, public batches.
DecideBatch(c, kind, x, rest) ==
    /\ Asking(c)
    /\ op' = [op EXCEPT ![c] = [NoOp EXCEPT !.pc = "read", !.kind = kind, !.resume = x,
                                            !.todo = rest \ {x}]]
    /\ UNCHANGED <<resume, record, pool, torn, faults, deaths>>

\* The routes for one resume write without reading (HR's rejection before a
\* push, which reads first, is among the rejections).
Decide(c, kind, x) ==
    /\ Asking(c)
    /\ op' = [op EXCEPT ![c] = [NoOp EXCEPT !.pc = "write", !.kind = kind, !.resume = x]]
    /\ UNCHANGED <<resume, record, pool, torn, faults, deaths>>

\* An id that has the status already is skipped.  (The stage talent_pool, which
\* approveBatch compares too, is set by whatever approves.)
ReadStatus(c) ==
    /\ At(c, "read")
    /\ IF resume[op[c].resume].status = NewStatus(op[c].kind) THEN Onward(c) ELSE Continue(c, "write")
    /\ UNCHANGED <<resume, record, pool, torn, asked, faults, deaths>>

WriteStatus(c) ==
    LET x == op[c].resume IN
    /\ At(c, "write")
    /\ resume' = [resume EXCEPT ![x].status = NewStatus(op[c].kind)]
    /\ Disturbs(x, Outstanding(x))
    /\ Continue(c, "stamp")
    /\ UNCHANGED <<record, pool, asked, faults, deaths>>

WriteStamp(c) ==
    LET x == op[c].resume IN
    /\ At(c, "stamp")
    /\ resume' = [resume EXCEPT ![x] = Stamped(@, Event(op[c].kind))]
    /\ Onward(c)
    /\ UNCHANGED <<record, pool, torn, asked, faults, deaths>>

\* A decision left between its two statements.
Abandons(c) == torn' = IF At(c, "stamp") THEN torn \cup {op[c].resume} ELSE torn

\* A statement fails: approveBatch and rejectBatch go on with the next id.
StatementFails(c) ==
    /\ op[c].pc \in {"read", "write", "stamp"} /\ Fault
    /\ Abandons(c) /\ Onward(c)
    /\ UNCHANGED <<resume, record, pool, asked, deaths>>

\* An invocation dies, or a call fails where nothing catches it (the claim's
\* answer is lost, the release fails): a claim it holds stays.
Die(c) ==
    /\ op[c] # NoOp /\ deaths < MaxDeaths /\ deaths' = deaths + 1
    /\ Abandons(c) /\ End(c)
    /\ UNCHANGED <<resume, record, pool, asked, faults>>

\* A decision of the business screening, in one conditional UPDATE.
BusinessDecides(x, status) ==
    /\ asked < MaxAsked /\ asked' = asked + 1
    /\ resume[x].status \notin {"approved", "rejected"}
    /\ resume' = [resume EXCEPT ![x] = Concluded(status)]
    /\ Disturbs(x, Outstanding(x))
    /\ UNCHANGED <<record, pool, op, faults, deaths>>

-----------------------------------------------------------------------------
ClerkStep(c) ==
    Commit(c) \/ Release(c) \/ ReadStatus(c) \/ WriteStatus(c) \/ WriteStamp(c)

Next ==
    \/ \E e \in Records, x \in Resumes : Enter(e, x)
    \/ \E c \in Clerks :
          \/ \E e \in Records, kind \in {"approve", "reject"}, inserts \in BOOLEAN, t \in Tokens :
                (inserts => kind = "approve") /\ Claim(c, e, kind, inserts, t)
          \/ \E kind \in {"approve", "reject"}, x \in Resumes, rest \in SUBSET Resumes :
                DecideBatch(c, kind, x, rest)
          \/ \E kind \in {"confirm", "reopen", "interview", "waitlist"}, x \in Resumes :
                Decide(c, kind, x)
          \/ ClerkStep(c) \/ CommitFails(c) \/ StatementFails(c) \/ Die(c)
    \/ \E x \in Resumes, status \in {"approved", "rejected"} : BusinessDecides(x, status)

\* An invocation that does not die runs on.
Spec == Init /\ [][Next]_vars /\ \A c \in Clerks : WF_vars(ClerkStep(c))

-----------------------------------------------------------------------------
TypeOK ==
    /\ resume \in [Resumes -> Rows]
    /\ record \in [Records -> RecordRows]
    /\ pool \in [Records -> Nat]
    /\ op \in [Clerks -> Ops]
    /\ torn \subseteq Resumes
    /\ asked \in 0..MaxAsked /\ faults \in 0..MaxFaults /\ deaths \in 0..MaxDeaths

-----------------------------------------------------------------------------
(* Properties *)

Decided(e) == record[e].status \in {"approved", "rejected"}

\* "D1 batch is transactional: queue and linked resume either both commit or
\* both roll back": a record is decided once, and with it the resume and its
\* stamps; an approval puts at most one row into the talent pool, nothing else
\* does; and no lost answer, release, second reviewer or shared token changes a
\* decided record afterwards.
DecidedOnce ==
    [][\A e \in Records :
          /\ Decided(e) => record'[e] = record[e] /\ pool'[e] = pool[e]
          /\ ~Decided(e) /\ Decided(e)' =>
                /\ resume'[record[e].resume] = Concluded(record'[e].status)
                /\ pool'[e] \in (IF record'[e].status = "approved" THEN {0, 1} ELSE {0})
          /\ ~Decided(e)' => pool'[e] = 0]_vars

\* What the daily report counts (approved_at, rejected_at) is what the status
\* says, once every decision on the resume is through, unless the last one was
\* written between the two statements of another or lost its second one.
Agrees(row) ==
    /\ row.approved <=> row.status \in {"approved", "pending_interview"}
    /\ row.rejected <=> row.status = "rejected"
StampsAgree == \A x \in Resumes \ torn : Outstanding(x) = {} => Agrees(resume[x])

\* A claimed record is decided, or can be claimed again, unless its invocation
\* ended before it was through: no failing commit leaves it in processing.
ClaimsEnd ==
    \A e \in Records :
        record[e].status = "processing" ~> record[e].status # "processing" \/ deaths > 0

=============================================================================
