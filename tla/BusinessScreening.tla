--------------------------- MODULE BusinessScreening ---------------------------
(***************************************************************************)
(* Business screening: resumes are pushed to the interviewers responsible  *)
(* for their position as items of a batch, a batch is reached by a public  *)
(* link, and the interviewer passes or rejects each candidate through it.  *)
(*                                                                         *)
(* A D1 statement is a step (db.batch is one): the requests of HR and of   *)
(* the automation, and the decisions made through links, interleave        *)
(* between any two of them, and any request may be cut short.              *)
(***************************************************************************)
EXTENDS Integers, FiniteSets

CONSTANTS
    Resumes,
    Interviewers,
    Responsible,    \* Responsible[r]: whom the position of r makes responsible
    Staff,          \* requests of HR and of the automation under way at once
    Deciders,       \* requests made through links under way at once
    Stamps,         \* milliseconds of the clock: what two requests see may be one
    Nobody,
    MaxBatches,     \* bound: batches
    Offered,        \* the kinds of request HR makes in this instance
    MaxAsked,       \* bound: requests of HR, each at most one dispatch group
    MaxDecisions,   \* bound: requests made through links
    MaxDeaths       \* bound: requests cut short

StaffKinds == {"push", "manual", "temp", "auto", "resend", "consolidate",
               "remove", "eliminate", "reject"}

ASSUME ScreeningAssumption ==
    /\ Responsible \in [Resumes -> SUBSET Interviewers]
    /\ Nobody \notin Interviewers \cup Stamps \cup Resumes
    /\ Offered \subseteq StaffKinds
    /\ MaxBatches \in Nat /\ MaxAsked \in Nat
    /\ MaxDecisions \in Nat /\ MaxDeaths \in Nat

VARIABLES
    resume,     \* the columns of resumes that business screening reads
    batch,      \* resume_push_batches
    item,       \* item[b][r]: resume_push_batch_items, UNIQUE (batch_id, resume_id)
    staff,      \* requests of HR and of the automation
    decider,    \* requests made through links
    applied,    \* history: the decisions links reported as applied
    meddled,    \* history: see Undisturbed
    again,      \* history: the resumes pushed again after a rejection by HR
    asked, decisions, deaths    \* what the bounds count

tables == <<resume, batch, item>>
counts == <<asked, decisions, deaths>>
vars == <<tables, staff, decider, applied, meddled, again, counts>>

-----------------------------------------------------------------------------
Batches == 1..MaxBatches
NoBatch == 0
Verdicts == {"passed", "rejected"}

\* A dispatch group is the number of the push it was made for, or, written as a
\* group by a decision on rows that have none, the batch (a negative number).
Groups == (-MaxBatches)..MaxAsked
NoGroup == 0

Rows == [ai : {"none", "pass", "fail"},                     \* screening_result
         status : {"open", "interviewing", "approved", "rejected"},
         hr : {"pending", "pushed", "rejected"},            \* hr_disposition
         bss : {"not_ready", "pending"} \cup Verdicts,      \* business_screening_status
         batch : Batches \cup {NoBatch}, group : Groups,
         at : Stamps \cup {Nobody}]                         \* business_screened_at

BatchRows == [st : {"none", "active", "completed", "revoked", "expired"},
              owner : Interviewers \cup {Nobody},
              late : BOOLEAN,       \* expires_at has passed
              auto : BOOLEAN]       \* scope_key of the automation

Items == [st : {"none", "pending"} \cup Verdicts, group : Groups,
          at : Stamps \cup {Nobody}]                        \* processed_at
NoItem == [st |-> "none", group |-> NoGroup, at |-> Nobody]

StaffIdle == [pc |-> "idle", kind |-> "push", ids |-> {}, todo |-> {}, who |-> Nobody,
              batch |-> NoBatch, group |-> NoGroup, seen |-> [r \in {} |-> "none"]]
StaffPc == {"idle", "override", "read", "load", "reopen", "extend", "append", "regroup",
            "create", "insert", "mark", "gather", "upsert", "relink", "list",
            "delete", "reset", "check", "reject", "revoke"}

DeciderIdle == [pc |-> "idle", batch |-> NoBatch, verdict |-> "passed", todo |-> {},
                gone |-> {}, now |-> Nobody, group |-> NoGroup, at |-> Nobody,
                single |-> TRUE]
DeciderPc == {"idle", "expire", "read", "write", "report", "count", "complete"}

\* resolveDispatchGroupId of a resume, and of an item of batch b beside it; the
\* statements of a decision see the item alone.
RowGroup(row) == IF row.group # NoGroup THEN row.group ELSE -row.batch
KnownGroup(row, b, it) ==
    IF it.group # NoGroup THEN it.group
    ELSE IF row.group # NoGroup THEN row.group ELSE -b
ItemGroup(b, it) == IF it.group # NoGroup THEN it.group ELSE -b

Init ==
    /\ resume \in [Resumes -> {row \in Rows :
                      /\ row.ai \in {"pass", "fail"}
                      /\ row.status = "open" /\ row.hr = "pending" /\ row.bss = "not_ready"
                      /\ row.batch = NoBatch /\ row.group = NoGroup /\ row.at = Nobody}]
    /\ batch = [b \in Batches |-> [st |-> "none", owner |-> Nobody,
                                   late |-> FALSE, auto |-> FALSE]]
    /\ item = [b \in Batches |-> [r \in Resumes |-> NoItem]]
    /\ staff = [p \in Staff |-> StaffIdle]
    /\ decider = [d \in Deciders |-> DeciderIdle]
    /\ applied = [r \in Resumes |-> {}]
    /\ meddled = {} /\ again = {}
    /\ asked = 0 /\ decisions = 0 /\ deaths = 0

-----------------------------------------------------------------------------
(* What the requests of HR look up *)

\* isEligibleForPush: a temporary link takes resumes that were pushed before.
Eligible(r, temp) ==
    /\ resume[r].hr # "rejected" /\ resume[r].status # "rejected"
    /\ temp \/ resume[r].hr # "pushed"

Newest(S) == IF S = {} THEN NoBatch ELSE CHOOSE b \in S : \A c \in S : c <= b

Open(b) == batch[b].st \in {"active", "completed"} /\ ~batch[b].late
Of(i) == {b \in Batches : batch[b].owner = i}

\* loadBatchByScope, loadBatchByInterviewer and loadLatestBatchByInterviewer.
ByScope(i, auto) == Newest({b \in Of(i) : Open(b) /\ batch[b].auto = auto})
ByInterviewer(i) == Newest({b \in Of(i) : Open(b)})
Latest(i) == Newest({b \in Of(i) : batch[b].st \in {"active", "completed", "expired"}})

FirstOf(b, c) == IF b # NoBatch THEN b ELSE c
CurrentBatch(i) == FirstOf(ByScope(i, FALSE), FirstOf(ByInterviewer(i), Latest(i)))

\* consolidateResumesIntoBatch: how a resume is shown in a batch.
ShownAs(row) ==
    IF row.bss = "passed" \/ row.status = "approved" THEN "passed"
    ELSE IF row.bss = "rejected" \/ row.hr = "rejected" THEN "rejected"
    ELSE "pending"

\* What was decided of a resume: HR's approval alone is no decision.
DecidedAs(row) == IF row.bss \in Verdicts THEN row.bss ELSE "pending"

-----------------------------------------------------------------------------
(* Requests of HR and of the automation *)

StaffAt(p, pc) == staff[p].pc = pc
Kind(p) == staff[p].kind
Goto(p, pc) == staff' = [staff EXCEPT ![p].pc = pc]
Leave(p) == staff' = [staff EXCEPT ![p] = StaffIdle]

\* The resumes of the group the push works on.
Group(p) == IF Kind(p) \in {"push", "manual", "temp"}
            THEN {r \in staff[p].ids : staff[p].who \in Responsible[r]}
            ELSE staff[p].ids

Reads == UNCHANGED <<tables, applied, meddled, again, decider, counts>>
WritesResume == UNCHANGED <<batch, item, meddled, decider, counts>>
WritesBatch == UNCHANGED <<resume, item, applied, meddled, again, decider, counts>>
WritesItem == UNCHANGED <<resume, batch, applied, again, counts>>

\* A request comes in: for some resumes, or for a batch.
Ask(p, kind, ids, b) ==
    /\ staff[p] = StaffIdle
    /\ asked < MaxAsked /\ asked' = asked + 1
    /\ kind \in {"resend", "consolidate"} <=> b # NoBatch
    /\ b # NoBatch => batch[b].st # "none"
    /\ IF kind = "resend" THEN ids = {} ELSE ids # {}
    /\ kind \in {"manual", "auto", "remove", "eliminate", "reject"} => Cardinality(ids) = 1
    /\ kind = "remove" => \A r \in ids : resume[r].ai = "fail"
    /\ kind = "auto" => \E r \in ids : Cardinality(Responsible[r]) = 1
    /\ staff' = [staff EXCEPT ![p] =
         [StaffIdle EXCEPT !.kind = kind, !.ids = ids, !.batch = b, !.group = asked + 1,
             !.who = IF kind = "auto" THEN CHOOSE i \in Interviewers :
                                            \E r \in ids : i \in Responsible[r]
                     ELSE Nobody,
             !.pc = CASE kind \in {"manual", "eliminate"} -> "override"
                      [] kind \in {"push", "temp"} -> "read"
                      [] kind = "auto" -> "create"
                      [] kind = "resend" -> "list"
                      [] kind = "consolidate" -> "gather"
                      [] kind = "remove" -> "delete"
                      [] kind = "reject" -> "check"]]
    /\ UNCHANGED <<tables, applied, meddled, again, decider, decisions, deaths>>

\* setResumeAiResult of manual-push and eliminate.
Override(p) ==
    /\ StaffAt(p, "override")
    /\ LET pushing == Kind(p) = "manual" IN
       /\ resume' = [r \in Resumes |-> IF r \in staff[p].ids
                        THEN [resume[r] EXCEPT !.ai = IF pushing THEN "pass" ELSE "fail"]
                        ELSE resume[r]]
       /\ Goto(p, IF pushing THEN "read" ELSE "delete")
    /\ WritesResume /\ UNCHANGED <<applied, again>>

\* pushResumesToBusinessScreening: the eligible resumes, by interviewer.
PushReads(p) ==
    /\ StaffAt(p, "read")
    /\ LET good == {r \in staff[p].ids : Eligible(r, Kind(p) = "temp")}
           todo == UNION {Responsible[r] : r \in good}
       IN  IF todo = {} THEN Leave(p)
           ELSE staff' = [staff EXCEPT ![p].ids = good, ![p].todo = todo, ![p].pc = "load"]
    /\ Reads

PushLoads(p) ==
    /\ StaffAt(p, "load")
    /\ \E i \in staff[p].todo :
         LET b == IF Kind(p) = "temp" THEN NoBatch ELSE CurrentBatch(i)
         IN  staff' = [staff EXCEPT ![p] = [@ EXCEPT !.who = i, !.batch = b,
                          !.todo = staff[p].todo \ {i},
                          !.pc = IF b = NoBatch THEN "create" ELSE "reopen"]]
    /\ Reads

\* resetBatchActive: by id alone.
Reopen(p) ==
    /\ StaffAt(p, "reopen")
    /\ batch' = [batch EXCEPT ![staff[p].batch].st = "active"]
    /\ Goto(p, "extend") /\ WritesBatch

\* refreshResumePushBatchExpiry: not of a revoked batch.
Extend(p) ==
    /\ StaffAt(p, "extend")
    /\ LET b == staff[p].batch IN
       batch' = IF batch[b].st = "revoked" THEN batch
                ELSE [batch EXCEPT ![b].late = FALSE,
                                   ![b].st = IF @ = "expired" THEN "active" ELSE @]
    /\ Goto(p, IF Kind(p) = "resend" THEN "mark" ELSE "append")
    /\ WritesBatch

\* insertResumePushBatchItemsIfAbsent: an item that is there keeps its group.
Append(p) ==
    /\ StaffAt(p, "append")
    /\ LET b == staff[p].batch IN
       item' = [item EXCEPT ![b] = [r \in Resumes |->
                  IF r \in Group(p) /\ @[r].st = "none"
                  THEN [st |-> "pending", group |-> staff[p].group, at |-> Nobody]
                  ELSE @[r]]]
    /\ Goto(p, IF Kind(p) = "resend" THEN "regroup" ELSE "mark")
    /\ WritesItem /\ UNCHANGED <<meddled, decider>>

\* Only a resend moves the items that are there to its own group.
Regroup(p) ==
    /\ StaffAt(p, "regroup")
    /\ LET b == staff[p].batch IN
       item' = [item EXCEPT ![b] = [r \in Resumes |->
                  IF r \in Group(p) /\ @[r].st = "pending"
                  THEN [@[r] EXCEPT !.group = staff[p].group] ELSE @[r]]]
    /\ Goto(p, "reopen")
    /\ WritesItem /\ UNCHANGED <<meddled, decider>>

\* createResumePushBatch, and its items in a statement of their own.
Create(p) ==
    /\ StaffAt(p, "create")
    /\ \E b \in Batches :
          /\ batch[b].st = "none" /\ \A c \in Batches : c < b => batch[c].st # "none"
          /\ batch' = [batch EXCEPT ![b] = [st |-> "active", owner |-> staff[p].who,
                                            late |-> FALSE, auto |-> Kind(p) = "auto"]]
          /\ staff' = [staff EXCEPT ![p].batch = b,
                          ![p].pc = IF Kind(p) = "auto" THEN "append" ELSE "insert"]
    /\ WritesBatch

\* A plain INSERT: an item a consolidation put there first ends the request.
Insert(p) ==
    /\ StaffAt(p, "insert")
    /\ LET b == staff[p].batch IN
       IF \E r \in Group(p) : item[b][r].st # "none"
       THEN item' = item /\ Leave(p)
       ELSE /\ item' = [item EXCEPT ![b] = [r \in Resumes |->
                  IF r \in Group(p)
                  THEN [st |-> "pending", group |-> staff[p].group, at |-> Nobody]
                  ELSE @[r]]]
            /\ Goto(p, "mark")
    /\ WritesItem /\ UNCHANGED <<meddled, decider>>

\* What a push does when it is done with one interviewer.
NextInterviewer(p) ==
    IF staff[p].todo = {} THEN Leave(p)
    ELSE staff' = [staff EXCEPT ![p].pc = "load", ![p].seen = StaffIdle.seen]

\* Mutant of Mark: the UPDATE of markResumesPushed names the rows by id alone.
MarkById(p) ==
    /\ StaffAt(p, "mark")
    /\ resume' = [r \in Resumes |->
         IF r \in Group(p)
         THEN [resume[r] EXCEPT !.hr = "pushed", !.bss = "pending",
                                !.batch = staff[p].batch, !.group = staff[p].group]
         ELSE resume[r]]
    /\ IF Kind(p) \in {"push", "manual"} THEN Goto(p, "gather")
       ELSE IF Kind(p) = "temp" THEN NextInterviewer(p) ELSE Leave(p)
    /\ WritesResume /\ UNCHANGED <<applied, again>>

\* markResumesPushed: never a resume whose outcome is known.
Mark(p) ==
    /\ StaffAt(p, "mark")
    /\ resume' = [r \in Resumes |->
         IF /\ r \in Group(p)
            /\ resume[r].status \notin {"approved", "rejected"}
            /\ resume[r].bss \notin Verdicts
         THEN [resume[r] EXCEPT !.hr = "pushed", !.bss = "pending",
                                !.batch = staff[p].batch, !.group = staff[p].group]
         ELSE resume[r]]
    /\ again' = again \cup {r \in Resumes : resume[r].hr = "rejected" /\ resume'[r].hr = "pushed"}
    /\ IF Kind(p) \in {"push", "manual"} THEN Goto(p, "gather")
       ELSE IF Kind(p) = "temp" THEN NextInterviewer(p) ELSE Leave(p)
    /\ WritesResume /\ UNCHANGED applied

\* listAiPassedResumesByPositionTitles, or the rows of the consolidate route: a
\* title is seen here through whom it makes responsible.
Gather(p) ==
    /\ StaffAt(p, "gather")
    /\ LET rows == IF Kind(p) = "consolidate" THEN staff[p].ids
                   ELSE {r \in Resumes : resume[r].ai = "pass" /\
                            \E g \in Group(p) : Responsible[g] = Responsible[r]}
       IN  IF rows = {} THEN NextInterviewer(p)
           ELSE staff' = [staff EXCEPT ![p].pc = "upsert",
                             ![p].seen = [r \in rows |-> ShownAs(resume[r])]]
    /\ Reads

\* upsertBatchItems: the status read before, and no processed_at; a new item
\* has no group.
Upsert(p) ==
    /\ StaffAt(p, "upsert")
    /\ LET b == staff[p].batch  rows == DOMAIN staff[p].seen IN
       /\ item' = [item EXCEPT ![b] = [r \in Resumes |->
                     IF r \in rows
                     THEN [@[r] EXCEPT !.st = staff[p].seen[r], !.at = Nobody] ELSE @[r]]]
       /\ meddled' = meddled \cup
            {r \in rows : \/ staff[p].seen[r] # DecidedAs(resume[r])
                          \/ \E d \in Deciders : decider[d].now = r}
    /\ Goto(p, "relink")
    /\ WritesItem /\ UNCHANGED decider

\* One UPDATE for each resume.
Relink(p) ==
    /\ StaffAt(p, "relink")
    /\ \E r \in DOMAIN staff[p].seen :
          /\ resume' = [resume EXCEPT ![r].batch = staff[p].batch]
          /\ LET left == DOMAIN staff[p].seen \ {r}
                 rest == [x \in left |-> staff[p].seen[x]]
             IN  IF left # {} THEN staff' = [staff EXCEPT ![p].seen = rest]
                 ELSE NextInterviewer(p)
          /\ meddled' = IF \E d \in Deciders : decider[d].now = r
                        THEN meddled \cup {r} ELSE meddled
    /\ UNCHANGED <<batch, item, applied, again, decider, counts>>

\* resend: the pending items of a batch, to the batch its scope has now.
ResendLists(p) ==
    /\ StaffAt(p, "list")
    /\ LET b == staff[p].batch
           i == batch[b].owner
           ids == {r \in Resumes : item[b][r].st = "pending"}
           current == FirstOf(ByScope(i, batch[b].auto), Latest(i))
       IN  IF ids = {} THEN Leave(p)
           ELSE staff' = [staff EXCEPT ![p] = [@ EXCEPT !.ids = ids, !.who = i,
                             !.batch = current,
                             !.pc = IF current = NoBatch THEN "create" ELSE "append"]]
    /\ Reads

\* Mutant of Delete: the DELETE forgets AND status = 'pending'.
DeleteDecided(p) ==
    /\ StaffAt(p, "delete")
    /\ LET out(b, r) == r \in staff[p].ids /\ item[b][r].st # "none" IN
       /\ item' = [b \in Batches |-> [r \in Resumes |->
                     IF out(b, r) THEN NoItem ELSE item[b][r]]]
       /\ decider' = [d \in Deciders |-> [decider[d] EXCEPT !.gone = @ \cup
             {r \in decider[d].todo \cup ({decider[d].now} \cap Resumes) :
                 decider[d].batch # NoBatch /\ out(decider[d].batch, r)}]]
    /\ Goto(p, "reset")
    /\ WritesItem /\ UNCHANGED meddled

\* removeResumeFromBusinessScreeningBatches: two statements.  A decision that
\* knew the item by its id does not find it any more.
Delete(p) ==
    /\ StaffAt(p, "delete")
    /\ LET out(b, r) == r \in staff[p].ids /\ item[b][r].st = "pending" IN
       /\ item' = [b \in Batches |-> [r \in Resumes |->
                     IF out(b, r) THEN NoItem ELSE item[b][r]]]
       /\ decider' = [d \in Deciders |-> [decider[d] EXCEPT !.gone = @ \cup
             {r \in decider[d].todo \cup ({decider[d].now} \cap Resumes) :
                 decider[d].batch # NoBatch /\ out(decider[d].batch, r)}]]
    /\ Goto(p, "reset")
    /\ WritesItem /\ UNCHANGED meddled

Reset(p) ==
    /\ StaffAt(p, "reset")
    /\ resume' = [r \in Resumes |->
         IF /\ r \in staff[p].ids
            /\ resume[r].bss \in {"not_ready", "pending"}
            /\ resume[r].hr # "rejected"
            /\ resume[r].status \notin {"approved", "rejected"}
         THEN [resume[r] EXCEPT !.hr = "pending", !.bss = "not_ready", !.batch = NoBatch,
                                !.group = NoGroup, !.at = Nobody]
         ELSE resume[r]]
    /\ Leave(p)
    /\ WritesResume /\ UNCHANGED <<applied, again>>

\* HR rejects: the check is a statement of its own.
RejectChecks(p) ==
    /\ StaffAt(p, "check")
    /\ IF \E r \in staff[p].ids : resume[r].hr = "pushed" /\ resume[r].bss \in Verdicts
       THEN Leave(p) ELSE Goto(p, "reject")
    /\ Reads

RejectWrites(p) ==
    /\ StaffAt(p, "reject")
    /\ \E t \in Stamps : resume' = [r \in Resumes |->
         IF r \notin staff[p].ids THEN resume[r]
         ELSE LET pushed == resume[r].hr = "pushed" IN
              [resume[r] EXCEPT !.hr = "rejected", !.status = "rejected",
                                !.bss = IF pushed THEN "rejected" ELSE "not_ready",
                                !.at = IF pushed THEN t ELSE Nobody]]
    /\ applied' = [r \in Resumes |-> IF r \in staff[p].ids THEN {} ELSE applied[r]]
    /\ Goto(p, "revoke")
    /\ WritesResume /\ UNCHANGED again

\* revokeActiveBusinessScreeningBatchesForResume.
RejectRevokes(p) ==
    /\ StaffAt(p, "revoke")
    /\ batch' = [b \in Batches |->
         IF /\ batch[b].st = "active"
            /\ \E r \in staff[p].ids : item[b][r].st # "none"
         THEN [batch[b] EXCEPT !.st = "revoked"] ELSE batch[b]]
    /\ Leave(p)
    /\ WritesBatch

StaffStep(p) ==
    \/ Override(p) \/ PushReads(p) \/ PushLoads(p) \/ Reopen(p) \/ Extend(p)
    \/ Append(p) \/ Regroup(p) \/ Create(p) \/ Insert(p) \/ Mark(p)
    \/ Gather(p) \/ Upsert(p) \/ Relink(p) \/ ResendLists(p)
    \/ Delete(p) \/ Reset(p) \/ RejectChecks(p) \/ RejectWrites(p) \/ RejectRevokes(p)

-----------------------------------------------------------------------------
(* Requests made through a link *)

DeciderAt(d, pc) == decider[d].pc = pc
Step(d, pc) == decider' = [decider EXCEPT ![d].pc = pc]
Quit(d) == decider' = [decider EXCEPT ![d] = DeciderIdle]
DeciderReads == UNCHANGED <<tables, staff, applied, meddled, again, counts>>

\* handlePublicDecision and handleBatchDecision: the link is live and the item
\* is there (pending, for a decision on several).  A late link expires first.
OpenLink(d, b, v, ids, single) ==
    /\ decider[d] = DeciderIdle
    /\ decisions < MaxDecisions /\ decisions' = decisions + 1
    /\ batch[b].st \notin {"none", "revoked", "expired"}
    /\ IF single THEN \E r \in Resumes : ids = {r} /\ item[b][r].st # "none"
       ELSE \A r \in ids : item[b][r].st = "pending"
    /\ decider' = [decider EXCEPT ![d] =
         [DeciderIdle EXCEPT !.batch = b, !.verdict = v, !.todo = ids, !.single = single,
             !.pc = IF batch[b].late THEN "expire"
                    ELSE IF ids = {} THEN "count" ELSE "read"]]
    /\ UNCHANGED <<tables, staff, applied, meddled, again, asked, deaths>>

\* setBatchStatus: by id alone.
Expire(d) ==
    /\ DeciderAt(d, "expire")
    /\ batch' = [batch EXCEPT ![decider[d].batch].st = "expired"]
    /\ Quit(d)
    /\ UNCHANGED <<resume, item, staff, applied, meddled, again, counts>>

\* What follows the decision on one resume: a decision on several goes on.
Proceed(d, r, refused) ==
    LET left == decider[d].todo \ {r} IN
    IF decider[d].single /\ refused THEN Quit(d)
    ELSE decider' = [decider EXCEPT ![d] =
            [@ EXCEPT !.todo = left, !.now = Nobody, !.group = NoGroup, !.at = Nobody,
                      !.pc = IF left = {} THEN "count" ELSE "read"]]

\* recordBusinessScreeningDecision up to its writes, with the time it is called
\* with: an item whose id is gone ends the request; another group, a known
\* outcome or an item that is decided is refused, unless the item says what is
\* asked.
DecideReads(d) ==
    /\ DeciderAt(d, "read")
    /\ \E r \in decider[d].todo :
         LET b == decider[d].batch
             row == resume[r]
             it == item[b][r]
             g == KnownGroup(row, b, it)
             same == g = RowGroup(row)
             open == /\ row.hr # "rejected" /\ row.status \notin {"approved", "rejected"}
                     /\ row.bss \notin Verdicts /\ it.st = "pending"
         IN  IF r \in decider[d].gone THEN Quit(d)
             ELSE IF same /\ open
             THEN \E t \in Stamps :
                    decider' = [decider EXCEPT ![d] = [@ EXCEPT !.now = r, !.group = g,
                         !.at = t, !.todo = decider[d].todo \ {r}, !.pc = "write"]]
             ELSE Proceed(d, r, ~(same /\ it.st = decider[d].verdict))
    /\ DeciderReads

\* Mutant of Decides: the UPDATE trusts what was read of the resume.
DecidesAsRead(r, b, g) ==
    /\ RowGroup(resume[r]) = g
    /\ item[b][r].st = "pending"
    /\ ItemGroup(b, item[b][r]) = g

\* The first of the three statements of db.batch.
Decides(r, b, g) ==
    /\ resume[r].hr # "rejected"
    /\ resume[r].bss \in {"not_ready", "pending"}
    /\ resume[r].status \notin {"approved", "rejected"}
    /\ RowGroup(resume[r]) = g
    /\ item[b][r].st = "pending"
    /\ ItemGroup(b, item[b][r]) = g

\* What the other two ask of the row the first has left or written: a decision of
\* the same millisecond looks like the request's own.
Stands(d) ==
    LET row == resume[decider[d].now] IN
    /\ row.bss = decider[d].verdict /\ row.at = decider[d].at
    /\ row.batch = decider[d].batch /\ RowGroup(row) = decider[d].group

\* The row of a decision.
Row(d) ==
    [resume[decider[d].now] EXCEPT
       !.bss = decider[d].verdict, !.at = decider[d].at,
       !.batch = decider[d].batch, !.group = decider[d].group,
       !.status = IF decider[d].verdict = "passed" THEN "approved" ELSE "rejected"]

\* Mutant of DecideWrites: there is no third statement for the sibling items.
DecideWritesOne(d) ==
    /\ DeciderAt(d, "write")
    /\ LET r == decider[d].now
           b == decider[d].batch
           v == decider[d].verdict
       IN  IF r \notin decider[d].gone /\ Decides(r, b, decider[d].group)
           THEN /\ resume' = [resume EXCEPT ![r] = Row(d)]
                /\ item' = [item EXCEPT ![b][r].st = v, ![b][r].at = decider[d].at]
           ELSE UNCHANGED <<resume, item>>
    /\ UNCHANGED meddled
    /\ Step(d, "report")
    /\ UNCHANGED <<batch, staff, applied, again, counts>>

\* The second statement closes the item of the link, the third its siblings.
DecideWrites(d) ==
    /\ DeciderAt(d, "write")
    /\ LET r == decider[d].now
           g == decider[d].group
           v == decider[d].verdict
           decides == r \notin decider[d].gone /\ Decides(r, decider[d].batch, g)
       IN  /\ resume' = IF decides THEN [resume EXCEPT ![r] = Row(d)] ELSE resume
           /\ item' = IF decides \/ Stands(d)
                      THEN [c \in Batches |->
                              IF item[c][r].st = "pending" /\ ItemGroup(c, item[c][r]) = g
                              THEN [item[c] EXCEPT ![r] =
                                      [@ EXCEPT !.st = v, !.at = decider[d].at]]
                              ELSE item[c]]
                      ELSE item
    /\ meddled' = IF \E p \in Staff : staff[p].pc # "idle" /\ staff[p].group = decider[d].group
                  THEN meddled \cup {decider[d].now} ELSE meddled
    /\ Step(d, "report")
    /\ UNCHANGED <<batch, staff, applied, again, counts>>

\* Mutant of DecideReports: processed_at is not compared.
DecideReportsAnyone(d) ==
    /\ DeciderAt(d, "report")
    /\ LET r == decider[d].now
           b == decider[d].batch
           v == decider[d].verdict
           same == KnownGroup(resume[r], b, item[b][r]) = decider[d].group
           done == same /\ item[b][r].st = v /\ resume[r].bss = v /\ resume[r].batch = b
       IN  /\ applied' = IF done /\ r \notin decider[d].gone
                         THEN [applied EXCEPT ![r] = @ \cup {<<decider[d].at, v>>}]
                         ELSE applied
           /\ IF r \in decider[d].gone THEN Quit(d)
              ELSE Proceed(d, r, ~(same /\ item[b][r].st = v))
    /\ UNCHANGED <<tables, staff, meddled, again, counts>>

\* The rows are read again to tell what happened.  A pass that was applied
\* creates the interview (InterviewRounds).
DecideReports(d) ==
    /\ DeciderAt(d, "report")
    /\ LET r == decider[d].now
           b == decider[d].batch
           v == decider[d].verdict
           it == item[b][r]
           same == KnownGroup(resume[r], b, it) = decider[d].group
           done == /\ same /\ it.st = v /\ it.at = decider[d].at
                   /\ resume[r].bss = v /\ resume[r].batch = b
       IN  /\ applied' = IF done /\ r \notin decider[d].gone
                         THEN [applied EXCEPT ![r] = @ \cup {<<decider[d].at, v>>}]
                         ELSE applied
           /\ IF r \in decider[d].gone THEN Quit(d)
              ELSE Proceed(d, r, ~(same /\ it.st = v))
    /\ UNCHANGED <<tables, staff, meddled, again, counts>>

\* countPendingBatchItems, then setBatchStatus.
CountPending(d) ==
    /\ DeciderAt(d, "count")
    /\ IF \E r \in Resumes : item[decider[d].batch][r].st = "pending"
       THEN Quit(d) ELSE Step(d, "complete")
    /\ DeciderReads

Complete(d) ==
    /\ DeciderAt(d, "complete")
    /\ batch' = [batch EXCEPT ![decider[d].batch].st = "completed"]
    /\ Quit(d)
    /\ UNCHANGED <<resume, item, staff, applied, meddled, again, counts>>

DeciderStep(d) ==
    \/ Expire(d) \/ DecideReads(d) \/ DecideWrites(d) \/ DecideReports(d)
    \/ CountPending(d) \/ Complete(d)

-----------------------------------------------------------------------------
(* What else changes these rows *)

\* Time passes: the link of a batch is past its expires_at.
Lapse(b) ==
    /\ batch[b].st # "none" /\ ~batch[b].late
    /\ asked < MaxAsked /\ asked' = asked + 1
    /\ batch' = [batch EXCEPT ![b].late = TRUE]
    /\ UNCHANGED <<resume, item, staff, decider, applied, meddled, again, decisions, deaths>>

\* HR opens the positions page: every link it finds open is renewed, also one
\* that lapsed after the page read it.
Renew(b) ==
    /\ batch[b].st \in {"active", "completed", "expired"} /\ batch[b].late
    /\ batch' = [batch EXCEPT ![b].late = FALSE,
                              ![b].st = IF @ = "expired" THEN "active" ELSE @]
    /\ UNCHANGED <<resume, item, staff, decider, applied, meddled, again, counts>>

\* One statement of a route that looks at nothing else: HR approves (approveBatch),
\* rejects (rejectBatch, confirm-rejection, reject-from-screening, hr-decision),
\* takes a rejection back (override-rejection) or starts over (reset-to-pending);
\* the first interview begins (markCandidateInterviewing); the AI screens again.
HrWrites(r, row) ==
    /\ row # resume[r]
    /\ asked < MaxAsked /\ asked' = asked + 1
    /\ resume' = [resume EXCEPT ![r] = row]
    /\ UNCHANGED <<batch, item, staff, decider, applied, meddled, again, decisions, deaths>>

SetStatus(r) ==
    \E s \in {"approved", "rejected", "open"} : HrWrites(r, [resume[r] EXCEPT !.status = s])

ResetToPending(r) == HrWrites(r, [resume[r] EXCEPT !.status = "open", !.ai = "none"])

MarkInterviewing(r) ==
    /\ resume[r].bss = "passed"
    /\ HrWrites(r, [resume[r] EXCEPT !.status = "interviewing"])

Screen(r) == \E a \in {"pass", "fail"} : HrWrites(r, [resume[r] EXCEPT !.ai = a])

\* A request is cut short between two of its statements.
Die ==
    /\ deaths < MaxDeaths /\ deaths' = deaths + 1
    /\ \/ \E p \in Staff : staff[p] # StaffIdle /\ Leave(p) /\ UNCHANGED decider
       \/ \E d \in Deciders : decider[d] # DeciderIdle /\ Quit(d) /\ UNCHANGED staff
    /\ UNCHANGED <<tables, applied, meddled, again, asked, decisions>>

-----------------------------------------------------------------------------
Next ==
    \/ \E p \in Staff :
          \/ StaffStep(p) 
          \/ \E kind \in Offered, ids \in SUBSET Resumes, b \in Batches \cup {NoBatch} :
                Ask(p, kind, ids, b)
    \/ \E d \in Deciders :
          \/ DeciderStep(d)
          \/ \E b \in Batches, v \in Verdicts, ids \in SUBSET Resumes, single \in BOOLEAN :
                OpenLink(d, b, v, ids, single)
    \/ \E b \in Batches : Lapse(b) \/ Renew(b)
    \/ \E r \in Resumes : SetStatus(r) \/ ResetToPending(r) \/ MarkInterviewing(r) \/ Screen(r)
    \/ Die

Spec == Init /\ [][Next]_vars

-----------------------------------------------------------------------------
Views == UNION {[S -> {"pending"} \cup Verdicts] : S \in SUBSET Resumes}

StaffRecords ==
    [pc : StaffPc, kind : StaffKinds, ids : SUBSET Resumes, todo : SUBSET Interviewers,
     who : Interviewers \cup {Nobody}, batch : Batches \cup {NoBatch}, group : Groups,
     seen : Views]

DeciderRecords ==
    [pc : DeciderPc, batch : Batches \cup {NoBatch}, verdict : Verdicts,
     todo : SUBSET Resumes, gone : SUBSET Resumes, now : Resumes \cup {Nobody},
     group : Groups, at : Stamps \cup {Nobody}, single : BOOLEAN]

\* The values every variable ranges over.
TypeOK ==
    /\ resume \in [Resumes -> Rows]
    /\ batch \in [Batches -> BatchRows]
    /\ item \in [Batches -> [Resumes -> Items]]
    /\ staff \in [Staff -> StaffRecords]
    /\ decider \in [Deciders -> DeciderRecords]
    /\ applied \in [Resumes -> SUBSET (Stamps \X Verdicts)]
    /\ meddled \subseteq Resumes /\ again \subseteq Resumes
    /\ asked \in 0..MaxAsked /\ decisions \in 0..MaxDecisions /\ deaths \in 0..MaxDeaths

-----------------------------------------------------------------------------
(* Properties *)

\* HR rejects in the same columns, and hr_disposition tells.
Decided(r) == resume[r].hr # "rejected" /\ resume[r].bss \in Verdicts

\* A decision made through a link stands whatever overlaps it: no other link,
\* push, resend, consolidation or removal changes it.  Only HR's rejection,
\* whose check and write are two statements, overrules it.
DecisionStands ==
    [][\A r \in Resumes : Decided(r) =>
          \/ resume'[r].at = resume[r].at /\ resume'[r].bss = resume[r].bss
          \/ resume'[r].hr = "rejected"]_vars

\* Links that decide on a resume, at the same time or one after another, are told
\* that their decision was applied only if it is the one the resume has: never
\* two that differ in the verdict or in the millisecond they were made in.  (Two
\* that differ in neither the code cannot tell apart, and both are told so.)
\* Unless HR takes a rejection back and the resume is pushed again.
OneApplied ==
    \A r \in Resumes \ again : resume[r].hr # "rejected" => \A w \in applied[r] :
        /\ applied[r] = {w}
        /\ resume[r].at = w[1] /\ resume[r].bss = w[2]

\* While HR's rejection of a resume is not taken back, no push, resend or
\* removal that read the resume before puts it among the candidates again, and no
\* decision through a link that is still open lands on it.
HrRejectionHolds ==
    [][\A r \in Resumes : resume[r].hr = "rejected" /\ resume[r].status = "rejected" =>
          /\ resume'[r].hr = "rejected"
          /\ resume'[r].bss \in Verdicts =>
                resume'[r].bss = resume[r].bss /\ resume'[r].at = resume[r].at]_vars

\* What a consolidation can break: it writes the statuses it read before, or an
\* approval by HR that may be taken back, over items that were or can be decided.
\* Undisturbed(r) says that none did, and that no decision fell into its push.
Undisturbed(r) == r \notin meddled

\* A decision closes the items of the same push in every link: none of them is
\* left pending or says something else.
SiblingsAgree ==
    \A r \in Resumes \ again : Decided(r) /\ Undisturbed(r) =>
        \A b \in Batches :
            item[b][r].st # "none" /\ ItemGroup(b, item[b][r]) = resume[r].group
            => item[b][r].st = resume[r].bss

\* The request that recorded a decision reports it as applied, and so creates
\* the interview of a candidate who passed, unless it dies: it is still to report,
\* or has.
DecisionIsReported ==
    \A r \in Resumes : Decided(r) /\ Undisturbed(r) /\ deaths = 0 =>
        \/ \E d \in Deciders : /\ decider[d].pc = "report" /\ decider[d].now = r
                               /\ decider[d].at = resume[r].at
        \/ <<resume[r].at, resume[r].bss>> \in applied[r]

=============================================================================
