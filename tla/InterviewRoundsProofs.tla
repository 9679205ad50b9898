-------------------------- MODULE InterviewRoundsProofs --------------------------
(***************************************************************************)
(* For any numbers of requests, invocations, duplicates and deaths: an     *)
(* interview never gets jobs for both verdicts, and an offer rests on two  *)
(* passed rounds, as long as no two results overlapped and no route went   *)
(* round the stored verdict.                                               *)
(*                                                                         *)
(* A job for a verdict exists only while the interview exists and holds    *)
(* that verdict (Backed), and so does a request about to create one        *)
(* (Saving); a second round names a passed first one (Rooted), which the   *)
(* invocations between SELECT and INSERT must carry along (Carrying), and  *)
(* the offer rests on a passed second round (Earned).                      *)
(***************************************************************************)
EXTENDS InterviewRounds, TLAPS

Queue == INSTANCE AutomationQueueProofs WITH Jobs <- RoundJobs

\* A request that is under way is about something.
Asked ==
    \A q \in Callers : req[q].pc # "idle" =>
        /\ req[q].kind \in Passing \cup {"result", "advance"}
        /\ req[q].kind \in {"result", "advance"} => req[q].row \in Ids

\* An invocation works on a job, except when it flags the interview of one it
\* has settled.
Busy == \A c \in Consumers : exec[c].pc \notin {"idle", "flag"} => run[c] # Idle

WInv == TypeOK /\ Queue!QInv /\ Asked /\ Busy

-----------------------------------------------------------------------------
(* The queue *)

LEMMA QueueAssumed == Queue!AutomationAssumption
  BY JobsAssumption DEF AutomationAssumption, Queue!AutomationAssumption

\* The parts of the type invariant that the steps need one by one.
LEMMA TypeParts ==
  ASSUME TypeOK
  PROVE  /\ setup \in Setups /\ rows \in [Ids -> Rows]
         /\ req \in [Callers -> Requests] /\ exec \in [Consumers -> Executions]
         /\ QueueTypeOK
  BY DEF TypeOK

\* The queue InterviewRounds is built from is the one the theorems are about.
LEMMA SameInit == QueueInit => Queue!QueueInit
  BY DEF QueueInit, Queue!QueueInit, Messages, Queue!Messages, Idle, Queue!Idle

LEMMA SameStep == [QueueNext]_queueVars => [Queue!QueueNext]_(Queue!queueVars)
  <1>1. ASSUME NEW c \in Consumers PROVE Die(c) => Queue!Die(c)
    BY DEF Die, Queue!Die, Batches, Queue!Batches, Delivered, Queue!Delivered,
       Redelivered, Queue!Redelivered, Messages, Queue!Messages, Idle, Queue!Idle
  <1>2. ASSUME NEW c \in Consumers, NEW m PROVE Reach(c, m) => Queue!Reach(c, m)
    BY DEF Reach, Queue!Reach, Batches, Queue!Batches, Delivered, Queue!Delivered,
       Messages, Queue!Messages, Idle, Queue!Idle
  <1>3. ASSUME NEW c \in Consumers PROVE RetryJob(c) => Queue!RetryJob(c)
    BY DEF RetryJob, Queue!RetryJob, Settle, Queue!Settle, Redelivered, Queue!Redelivered,
       Messages, Queue!Messages, Idle, Queue!Idle
  <1> QED
    BY Zenon, <1>1, <1>2, <1>3 DEF QueueNext, Queue!QueueNext, Request, Queue!Request, Deliver,
       Queue!Deliver, Conclude, Queue!Conclude, CreateJob, Queue!CreateJob,
       FindJob, Queue!FindJob, SendMessage, Queue!SendMessage, LoseMessage,
       Queue!LoseMessage, DuplicateMessage, Queue!DuplicateMessage, ClaimJob,
       Queue!ClaimJob, SkipJob, Queue!SkipJob, Claimable, Queue!Claimable,
       Settle, Queue!Settle, CompleteJob, Queue!CompleteJob, FailJob,
       Queue!FailJob, Outcomes, Queue!Outcomes, Messages, Queue!Messages, Idle, Queue!Idle,
       queueVars, Queue!queueVars

\* What its invariant says of the jobs.
LEMMA QueueFacts ==
  ASSUME Queue!QInv
  PROVE  /\ QueueTypeOK
         /\ \A c \in Consumers : run[c] # Idle =>
               /\ run[c].job \in RoundJobs
               /\ jstat[run[c].job] = "running"
  <1>1. QueueTypeOK
    BY DEF Queue!QInv, QueueTypeOK, Queue!QueueTypeOK, Messages, Queue!Messages, Idle,
       Queue!Idle, JobStatus, Queue!JobStatus
  <1>2. \A c \in Consumers : run[c] # Idle => run[c].job \in RoundJobs
    BY <1>1 DEF QueueTypeOK, Messages
  <1>3. \A c \in Consumers : run[c] # Idle => jstat[run[c].job] = "running"
    BY DEF Queue!QInv, Queue!Marked, Idle, Queue!Idle
  <1> QED BY <1>1, <1>2, <1>3

\* The key a request asks for is one of the keys there are.
LEMMA KeyExists ==
  ASSUME TypeOK, Asked, NEW q \in Callers, req[q].pc # "idle"
  PROVE  KeyOf(q) \in RoundJobs
  <1>1. req[q] \in Requests
    BY DEF TypeOK
  <1>2. CASE req[q].kind \in Passing
    BY <1>2 DEF KeyOf, RoundJobs
  <1>3. CASE req[q].kind \in {"result", "advance"}
    <2>1. req[q].row \in Ids /\ req[q].verdict \in Verdicts
      BY <1>1, <1>3 DEF Asked, Requests
    <2> QED BY <1>3, <2>1 DEF KeyOf, RoundJobs
  <1> QED BY <1>2, <1>3 DEF Asked

\* A new request touches neither jobs nor invocations.
LEMMA AskKeeps ==
  ASSUME NEW q \in Callers, Ask(q)
  PROVE  UNCHANGED automationVars /\ exec' = exec
  <1>1. ASSUME NEW kind, Approve(q, kind) PROVE UNCHANGED automationVars /\ exec' = exec
    BY <1>1 DEF Approve
  <1>2. ASSUME NEW x \in Ids, NEW v \in Verdicts, Judge(q, x, v) \/ Advance(q, x, v)
        PROVE  UNCHANGED automationVars /\ exec' = exec
    BY <1>2 DEF Judge, Advance
  <1>3. ASSUME NEW x \in Ids, NEW v,
               \/ Evaluate(q, x, v) \/ StartFromTalentPool(q, x)
               \/ CancelDirectly(q, x) \/ Delete(q, x)
        PROVE  UNCHANGED automationVars /\ exec' = exec
    <2>1. CASE Evaluate(q, x, v)
      BY <2>1 DEF Evaluate, Statement
    <2>2. CASE StartFromTalentPool(q, x) \/ CancelDirectly(q, x) \/ Delete(q, x)
      BY <2>2 DEF StartFromTalentPool, CancelDirectly, Delete, Statement
    <2> QED BY <1>3, <2>1, <2>2
  <1> QED BY <1>1, <1>2, <1>3 DEF Ask

\* Every step is a step of the queue, or leaves the jobs alone.
LEMMA RoundsStepRefines ==
  ASSUME TypeOK, Asked, [Next]_vars
  PROVE  [QueueNext]_queueVars
  <1> USE DEF automationVars, queueVars
  <1>1. ASSUME NEW q \in Callers, Enqueue(q) PROVE QueueNext
    BY <1>1, KeyExists DEF Enqueue, QueueNext, Request
  <1>2. ASSUME NEW q \in Callers, Send(q) PROVE QueueNext
    BY <1>2 DEF Send, QueueNext
  <1>3. ASSUME NEW q \in Callers, Ask(q) PROVE UNCHANGED queueVars
    BY <1>3, AskKeeps
  <1>4. ASSUME NEW q \in Callers, SaveResult(q) \/ LookForOpen(q) \/ InsertApproved(q)
        PROVE  UNCHANGED queueVars
    BY <1>4 DEF SaveResult, LookForOpen, InsertApproved
  <1>5. ASSUME NEW c \in Consumers, NEW m \in Messages, Claim(c, m) PROVE QueueNext
    BY <1>5 DEF Claim, QueueNext, Deliver
  <1>6. ASSUME NEW c \in Consumers, Complete(c) \/ Fail(c) PROVE QueueNext
    BY <1>6 DEF Complete, Fail, QueueNext, Conclude, Outcomes
  <1>7. ASSUME NEW c \in Consumers,
               \/ LoadCreate(c) \/ LoadAdvance(c) \/ Look(c) \/ Insert(c) \/ Link(c)
               \/ Review(c) \/ MoveCandidate(c) \/ Flag(c)
        PROVE  UNCHANGED queueVars
    BY <1>7 DEF LoadCreate, LoadAdvance, Look, Insert, Link, Review, MoveCandidate, Flag, RowStep
  <1>8. ASSUME NEW c \in Consumers, Crash(c) \/ StatementFails(c) PROVE [QueueNext]_queueVars
    BY <1>8 DEF Crash, StatementFails, QueueNext
  <1>9. ASSUME NEW m \in Messages, Duplicate(m) PROVE QueueNext
    BY <1>9 DEF Duplicate, QueueNext
  <1>10. ASSUME NEW q \in Callers, RequestDies(q) PROVE [QueueNext]_queueVars
    BY <1>10 DEF RequestDies, QueueNext
  <1>11. CASE UNCHANGED vars
    BY <1>11 DEF vars
  <1> QED BY <1>1, <1>2, <1>3, <1>4, <1>5, <1>6, <1>7, <1>8, <1>9, <1>10, <1>11
          DEF Next, CallerStep, ConsumerStep

LEMMA QueueInvKept ==
  ASSUME WInv, [Next]_vars
  PROVE  Queue!QInv'
  <1>1. [Queue!QueueNext]_(Queue!queueVars)
    BY RoundsStepRefines, SameStep DEF WInv
  <1> QED BY <1>1, Queue!QueueInvStep, QueueAssumed DEF WInv

-----------------------------------------------------------------------------
(* The interviews *)

\* What a step may do to an interview: leave its round, verdict and origin;
\* create it; save a verdict; or name the round before it.
Touched(x) ==
    /\ rows'[x].status = rows[x].status \/ (Exists(x) /\ rows'[x].status \notin Gone)
    /\ rows'[x].round = rows[x].round
    /\ rows'[x].verdict = rows[x].verdict
    /\ rows'[x].prev = rows[x].prev
Born(x) ==
    /\ rows[x].status = "free" /\ rows'[x].status \notin Gone
    /\ rows'[x].verdict = "none"
    /\ \/ rows'[x].round = 1
       \/ \E c \in Consumers :
             /\ At(c, "insert")
             /\ rows'[x].round = exec[c].round /\ rows'[x].prev = exec[c].src
Saved(x) ==
    /\ Exists(x) /\ rows'[x].status \notin Gone
    /\ rows'[x].round = rows[x].round /\ rows'[x].prev = rows[x].prev
    /\ rows'[x].verdict \in Verdicts
    /\ disputed' \/ rows[x].verdict \in {"none", rows'[x].verdict}
Named(x) ==
    /\ rows'[x].status = rows[x].status
    /\ rows'[x].round = rows[x].round /\ rows'[x].verdict = rows[x].verdict
    /\ \E c \in Consumers : At(c, "link") /\ x = exec[c].dst /\ rows'[x].prev = exec[c].src
Becomes(x) == Touched(x) \/ Born(x) \/ Saved(x) \/ Named(x)

RowsKept == rows' \in [Ids -> Rows] /\ (bypassed' \/ \A x \in Ids : Becomes(x))

LEMMA InsertedRow ==
  ASSUME rows \in [Ids -> Rows], NEW x \in Ids, NEW round \in 1..2, NEW status \in Status,
         NEW pos \in BOOLEAN, NEW prev \in Ids \cup {None}
  PROVE  /\ Inserted(x, round, status, pos, prev) \in [Ids -> Rows]
         /\ \A y \in Ids : Inserted(x, round, status, pos, prev)[y] =
               IF y = x THEN [status |-> status, round |-> round, pos |-> pos,
                              verdict |-> "none", prev |-> prev, next |-> None]
               ELSE rows[y]
  <1>1. [status |-> status, round |-> round, pos |-> pos, verdict |-> "none",
         prev |-> prev, next |-> None] \in Rows
    BY DEF Rows
  <1> QED BY <1>1 DEF Inserted

\* An UPDATE of one interview's status.
LEMMA StatusRow ==
  ASSUME rows \in [Ids -> Rows], NEW x \in Ids, NEW status \in Status
  PROVE  /\ [rows EXCEPT ![x].status = status] \in [Ids -> Rows]
         /\ (Exists(x) /\ status \notin Gone /\ rows' = [rows EXCEPT ![x].status = status]
             => \A y \in Ids : Touched(y))
  <1>1. [rows[x] EXCEPT !.status = status] \in Rows
    BY DEF Rows
  <1>2. [rows EXCEPT ![x].status = status] = [rows EXCEPT ![x] = [rows[x] EXCEPT !.status = status]]
    OBVIOUS
  <1>3. ASSUME Exists(x), status \notin Gone, rows' = [rows EXCEPT ![x].status = status],
               NEW y \in Ids
        PROVE  Touched(y)
    <2>1. CASE y = x
      <3>1. rows'[y] = [rows[x] EXCEPT !.status = status] /\ rows[x] \in Rows
        BY <1>3, <2>1
      <3> QED BY <1>3, <2>1, <3>1 DEF Touched, Rows
    <2>2. CASE y # x
      BY <1>3, <2>2 DEF Touched
    <2> QED BY <2>1, <2>2
  <1> QED BY <1>1, <1>2, <1>3

LEMMA UnchangedRows ==
  ASSUME TypeOK, rows' = rows
  PROVE  RowsKept
  BY DEF TypeOK, RowsKept, Becomes, Touched

\* The requests of one statement.
LEMMA StatementRows ==
  ASSUME TypeOK, NEW q \in Callers, NEW x \in Ids, NEW v \in Verdicts,
         \/ Evaluate(q, x, v) \/ StartFromTalentPool(q, x)
         \/ CancelDirectly(q, x) \/ Delete(q, x)
  PROVE  RowsKept
  <1> USE DEF Statement
  <1>0. /\ rows \in [Ids -> Rows] /\ None \in Ids \cup {None} /\ 1 \in 1..2
        /\ "scheduled" \in Status /\ "completed" \in Status
        /\ "cancelled" \in Status /\ "deleted" \in Status
    BY TypeParts DEF Status
  <1>1. CASE Evaluate(q, x, v)
    <2> DEFINE old == IF Exists(x) THEN rows ELSE Inserted(x, 1, "scheduled", FALSE, None)
    <2>1. old \in [Ids -> Rows]
      BY <1>0, InsertedRow
    <2> HIDE DEF old
    <2>2. PICK s \in {"completed", "scheduled"} :
             rows' = [old EXCEPT ![x].verdict = v, ![x].status = s]
      BY <1>1 DEF Evaluate, old
    <2>3. [old[x] EXCEPT !.verdict = v, !.status = s] \in Rows
      BY <1>0, <2>1 DEF Rows
    <2>4. rows' = [old EXCEPT ![x] = [old[x] EXCEPT !.verdict = v, !.status = s]]
      BY <2>1, <2>2
    <2>5. rows' \in [Ids -> Rows]
      BY <2>1, <2>3, <2>4
    <2>6. bypassed'
      BY <1>1 DEF Evaluate
    <2> QED BY <2>5, <2>6 DEF RowsKept
  <1>2. CASE StartFromTalentPool(q, x)
    <2>1. rows' = Inserted(x, 1, "scheduled", FALSE, None) /\ rows[x].status = "free"
      BY <1>2 DEF StartFromTalentPool, NextFree
    <2>2. /\ rows' \in [Ids -> Rows]
          /\ \A y \in Ids : rows'[y] = IF y = x THEN [status |-> "scheduled", round |-> 1,
                pos |-> FALSE, verdict |-> "none", prev |-> None, next |-> None] ELSE rows[y]
      <3>1. [status |-> "scheduled", round |-> 1, pos |-> FALSE, verdict |-> "none",
             prev |-> None, next |-> None] \in Rows
        BY <1>0 DEF Rows
      <3> QED BY <1>0, <2>1, <3>1 DEF Inserted
    <2>3. ASSUME NEW y \in Ids PROVE Touched(y) \/ Born(y)
      <3>1. CASE y = x
        <4>1. rows'[y].status = "scheduled" /\ rows'[y].verdict = "none" /\ rows'[y].round = 1
          BY <2>2, <3>1
        <4> QED BY <2>1, <3>1, <4>1 DEF Born, Gone
      <3>2. CASE y # x
        BY <2>2, <3>2 DEF Touched
      <3> QED BY <3>1, <3>2
    <2> QED BY <2>2, <2>3 DEF RowsKept, Becomes
  <1>3. CASE CancelDirectly(q, x)
    BY <1>0, <1>3, StatusRow DEF CancelDirectly, RowsKept, Becomes, Gone
  <1>4. CASE Delete(q, x)
    BY <1>0, <1>4, StatusRow DEF Delete, RowsKept
  <1> QED BY <1>1, <1>2, <1>3, <1>4

\* The writes of requests under way.
LEMMA RequestRows ==
  ASSUME TypeOK, Asked, NEW q \in Callers, SaveResult(q) \/ InsertApproved(q)
  PROVE  RowsKept
  <1>0. rows \in [Ids -> Rows] /\ req[q] \in Requests
    BY TypeParts
  <1>1. CASE SaveResult(q)
    <2> DEFINE x == req[q].row
               v == req[q].verdict
    <2>1. x \in Ids /\ v \in Verdicts /\ "completed" \in Status
      BY <1>0, <1>1 DEF SaveResult, Is, Asked, Requests, Status
    <2>2. CASE rows' = rows
      BY <2>2, UnchangedRows
    <2>3. CASE rows' # rows
      <3>0. /\ Exists(x) /\ rows' = [rows EXCEPT ![x].verdict = v, ![x].status = "completed"]
            /\ disputed' = (disputed \/ (Exists(x) /\ Conflicts(x, v)))
        BY <1>1, <2>3, Zenon DEF SaveResult
      <3>1. [rows[x] EXCEPT !.verdict = v, !.status = "completed"] \in Rows
        BY <1>0, <2>1 DEF Rows
      <3>2. rows' = [rows EXCEPT ![x] = [rows[x] EXCEPT !.verdict = v, !.status = "completed"]]
        BY <1>0, <2>1, <3>0
      <3>3. /\ rows' \in [Ids -> Rows]
            /\ \A y \in Ids : rows'[y] =
                 IF y = x THEN [rows[x] EXCEPT !.verdict = v, !.status = "completed"] ELSE rows[y]
        BY <1>0, <3>1, <3>2
      <3>4. disputed' \/ ~Conflicts(x, v)
        BY <3>0, Zenon
      <3>5. rows[x] \in Rows /\ (disputed' \/ rows[x].verdict \in {"none", v})
        BY <1>0, <2>1, <3>4 DEF Conflicts, Rows, Verdicts
      <3>6. ASSUME NEW y \in Ids PROVE Touched(y) \/ Saved(y)
        <4>1. CASE y = x
          <5>1. /\ rows'[y].verdict = v /\ rows'[y].status = "completed"
                /\ rows'[y].round = rows[y].round /\ rows'[y].prev = rows[y].prev
            BY <3>3, <3>5, <4>1 DEF Rows
          <5> QED BY <2>1, <3>0, <3>5, <4>1, <5>1 DEF Saved, Gone
        <4>2. CASE y # x
          BY <3>3, <4>2 DEF Touched
        <4> QED BY <4>1, <4>2
      <3> QED BY <3>3, <3>6 DEF RowsKept, Becomes
    <2> QED BY <2>2, <2>3
  <1>2. CASE InsertApproved(q)
    <2>1. PICK x \in Ids : /\ rows[x].status = "free"
                           /\ \/ rows' = Inserted(x, 1, "awaiting_schedule", FALSE, None)
                              \/ rows' = rows
      BY <1>2 DEF InsertApproved, NextFree
    <2>2. CASE rows' = rows
      BY <2>2, UnchangedRows
    <2>3. CASE rows' = Inserted(x, 1, "awaiting_schedule", FALSE, None)
      <3>1. [status |-> "awaiting_schedule", round |-> 1, pos |-> FALSE, verdict |-> "none",
             prev |-> None, next |-> None] \in Rows
        BY DEF Rows, Status
      <3>2. /\ rows' \in [Ids -> Rows]
            /\ \A y \in Ids : rows'[y] = IF y = x THEN [status |-> "awaiting_schedule",
                 round |-> 1, pos |-> FALSE, verdict |-> "none", prev |-> None, next |-> None]
                 ELSE rows[y]
        BY <1>0, <2>3, <3>1 DEF Inserted
      <3>3. ASSUME NEW y \in Ids PROVE Touched(y) \/ Born(y)
        <4>1. CASE y = x
          <5>1. /\ rows'[y].status = "awaiting_schedule" /\ rows'[y].verdict = "none"
                /\ rows'[y].round = 1
            BY <3>2, <4>1
          <5> QED BY <2>1, <4>1, <5>1 DEF Born, Gone
        <4>2. CASE y # x
          BY <3>2, <4>2 DEF Touched
        <4> QED BY <4>1, <4>2
      <3> QED BY <3>2, <3>3 DEF RowsKept, Becomes
    <2> QED BY <2>1, <2>2, <2>3
  <1> QED BY <1>1, <1>2

\* The writes of invocations.
LEMMA HandlerRows ==
  ASSUME TypeOK, NEW c \in Consumers, Insert(c) \/ Link(c) \/ Review(c) \/ Flag(c)
  PROVE  RowsKept
  <1>0. rows \in [Ids -> Rows] /\ exec[c] \in Executions /\ "manual_review" \in Status
    BY TypeParts DEF Status
  <1>1. CASE Insert(c)
    <2>1. PICK x \in Ids :
             /\ rows[x].status = "free"
             /\ \/ rows' = Inserted(x, exec[c].round, "awaiting_schedule", exec[c].pos, exec[c].src)
                \/ rows' = rows
      BY <1>1 DEF Insert, NextFree
    <2>2. CASE rows' = rows
      BY <2>2, UnchangedRows
    <2>3. CASE rows' = Inserted(x, exec[c].round, "awaiting_schedule", exec[c].pos, exec[c].src)
      <3> DEFINE new == [status |-> "awaiting_schedule", round |-> exec[c].round,
                         pos |-> exec[c].pos, verdict |-> "none", prev |-> exec[c].src,
                         next |-> None]
      <3>1. new \in Rows
        BY <1>0 DEF Rows, Status, Executions
      <3>2. /\ rows' \in [Ids -> Rows]
            /\ \A y \in Ids : rows'[y] = IF y = x THEN new ELSE rows[y]
        BY <1>0, <2>3, <3>1 DEF Inserted
      <3>3. ASSUME NEW y \in Ids PROVE Touched(y) \/ Born(y)
        <4>1. CASE y = x
          <5>1. /\ rows'[y].status = "awaiting_schedule" /\ rows'[y].verdict = "none"
                /\ rows'[y].round = exec[c].round /\ rows'[y].prev = exec[c].src
            BY <3>2, <4>1
          <5>2. At(c, "insert")
            BY <1>1 DEF Insert
          <5> QED BY <2>1, <4>1, <5>1, <5>2 DEF Born, Gone
        <4>2. CASE y # x
          BY <3>2, <4>2 DEF Touched
        <4> QED BY <4>1, <4>2
      <3> QED BY <3>2, <3>3 DEF RowsKept, Becomes
    <2> QED BY <2>1, <2>2, <2>3
  <1>2. CASE Link(c)
    <2> DEFINE src == exec[c].src
               dst == exec[c].dst
               mid == [rows EXCEPT ![src].next = dst]
    <2>1. src \in Ids \cup {None} /\ dst \in Ids \cup {None} /\ At(c, "link")
          /\ rows' = [mid EXCEPT ![dst].prev = src]
      BY <1>0, <1>2 DEF Link, Executions
    <2>2. /\ mid \in [Ids -> Rows]
          /\ \A y \in Ids : /\ mid[y].status = rows[y].status /\ mid[y].round = rows[y].round
                            /\ mid[y].verdict = rows[y].verdict /\ mid[y].prev = rows[y].prev
      <3>1. \A y \in Ids : mid[y] = IF y = src THEN [rows[y] EXCEPT !.next = dst] ELSE rows[y]
        BY <1>0
      <3>2. \A y \in Ids : [rows[y] EXCEPT !.next = dst] \in Rows
        BY <1>0, <2>1 DEF Rows
      <3>3. mid \in [Ids -> Rows]
        BY <1>0, <3>1, <3>2
      <3> QED BY <1>0, <3>1, <3>3 DEF Rows
    <2> HIDE DEF mid
    <2>3. \A y \in Ids : rows'[y] = IF y = dst THEN [mid[y] EXCEPT !.prev = src] ELSE mid[y]
      BY <2>1, <2>2
    <2>4. \A y \in Ids : [mid[y] EXCEPT !.prev = src] \in Rows
      BY <2>1, <2>2 DEF Rows
    <2>5. rows' \in [Ids -> Rows]
      BY <2>1, <2>2, <2>3, <2>4
    <2>6. ASSUME NEW y \in Ids PROVE Touched(y) \/ Named(y)
      <3>1. CASE y = dst
        <4>1. /\ rows'[y].prev = src /\ rows'[y].status = mid[y].status
              /\ rows'[y].round = mid[y].round /\ rows'[y].verdict = mid[y].verdict
          BY <2>2, <2>3, <3>1 DEF Rows
        <4> QED BY <2>1, <2>2, <3>1, <4>1 DEF Named
      <3>2. CASE y # dst
        BY <2>2, <2>3, <3>2 DEF Touched
      <3> QED BY <3>1, <3>2
    <2> QED BY <2>5, <2>6 DEF RowsKept, Becomes
  <1>3. CASE Review(c) \/ Flag(c)
    <2>1. rows' = rows \/ rows' = Reviewed(exec[c].dst)
      BY <1>3 DEF Review, Flag
    <2>2. CASE rows' = rows
      BY <2>2, UnchangedRows
    <2>3. CASE rows' # rows
      <3>1. exec[c].dst \in Ids /\ Exists(exec[c].dst)
            /\ rows' = [rows EXCEPT ![exec[c].dst].status = "manual_review"]
        BY <2>1, <2>3 DEF Reviewed
      <3>2. "manual_review" \notin Gone
        BY DEF Gone
      <3> QED BY <1>0, <3>1, <3>2, StatusRow DEF RowsKept, Becomes
    <2> QED BY <2>2, <2>3
  <1> QED BY <1>1, <1>2, <1>3

LEMMA RowsEvolve ==
  ASSUME TypeOK, Asked, [Next]_vars
  PROVE  RowsKept
  <1>1. ASSUME NEW q \in Callers, Ask(q) PROVE RowsKept
    <2>1. CASE \E kind \in Offered \cap Passing : Approve(q, kind)
      BY <2>1, UnchangedRows DEF Approve
    <2>2. ASSUME NEW x \in Ids, NEW v \in Verdicts, Judge(q, x, v) \/ Advance(q, x, v)
          PROVE  RowsKept
      BY <2>2, UnchangedRows DEF Judge, Advance
    <2>3. "passed" \in Verdicts
      BY DEF Verdicts
    <2> QED BY <1>1, <2>1, <2>2, <2>3, StatementRows DEF Ask
  <1>2. ASSUME NEW q \in Callers, Enqueue(q) \/ Send(q) \/ LookForOpen(q) \/ RequestDies(q)
        PROVE  rows' = rows
    BY <1>2 DEF Enqueue, Send, LookForOpen, RequestDies
  <1>3. ASSUME NEW c \in Consumers,
               \/ LoadCreate(c) \/ LoadAdvance(c) \/ Look(c) \/ MoveCandidate(c)
               \/ Complete(c) \/ Fail(c) \/ StatementFails(c) \/ Crash(c)
               \/ \E m \in Messages : Claim(c, m)
        PROVE  rows' = rows
    BY <1>3 DEF LoadCreate, LoadAdvance, Look, MoveCandidate, Complete, Fail, StatementFails,
       Crash, Claim, JobStep
  <1>4. ASSUME NEW m \in Messages, Duplicate(m) PROVE rows' = rows
    BY <1>4 DEF Duplicate, JobStep
  <1>5. CASE UNCHANGED vars
    BY <1>5, UnchangedRows DEF vars
  <1> QED BY <1>1, <1>2, <1>3, <1>4, <1>5, RequestRows, HandlerRows, UnchangedRows
          DEF Next, CallerStep, ConsumerStep

-----------------------------------------------------------------------------
(* Types *)

\* A request is replaced by one that is about something.
LEMMA SetRequest ==
  ASSUME TypeOK, Asked, NEW q \in Callers, NEW r \in Requests, req' = [req EXCEPT ![q] = r],
         r.pc = "idle" \/ /\ r.kind \in Passing \cup {"result", "advance"}
                          /\ r.kind \in {"result", "advance"} => r.row \in Ids
  PROVE  req' \in [Callers -> Requests] /\ Asked'
  <1>1. req \in [Callers -> Requests]
    BY TypeParts
  <1> QED BY <1>1 DEF Asked

LEMMA EndShape ==
  ASSUME TypeOK, Asked, NEW q \in Callers, End(q)
  PROVE  req' \in [Callers -> Requests] /\ Asked'
  <1>1. NoRequest \in Requests /\ NoRequest.pc = "idle"
    BY DEF NoRequest, Requests, Verdicts
  <1> QED BY <1>1, SetRequest DEF End

\* A request goes on or ends.
LEMMA GoOn ==
  ASSUME TypeOK, Asked, NEW q \in Callers, req[q].pc # "idle",
         NEW p \in {"save", "enqueue", "sending", "look", "insert"},
         Continue(q, p) \/ End(q)
  PROVE  req' \in [Callers -> Requests] /\ Asked'
  <1>1. req \in [Callers -> Requests]
    BY TypeParts
  <1>2. CASE Continue(q, p)
    <2>1. [req[q] EXCEPT !.pc = p] \in Requests
      BY <1>1 DEF Requests
    <2>2. req' = [req EXCEPT ![q] = [req[q] EXCEPT !.pc = p]]
      BY <1>1, <1>2 DEF Continue
    <2>3. /\ [req[q] EXCEPT !.pc = p].kind = req[q].kind
          /\ [req[q] EXCEPT !.pc = p].row = req[q].row
      BY <1>1 DEF Requests
    <2> QED BY <2>1, <2>2, <2>3, SetRequest DEF Asked
  <1>3. CASE End(q)
    BY <1>3, EndShape
  <1> QED BY <1>2, <1>3

LEMMA RequestShape ==
  ASSUME TypeOK, Asked, [Next]_vars
  PROVE  req' \in [Callers -> Requests] /\ Asked'
  <1>0. req \in [Callers -> Requests]
    BY TypeParts
  <1>1. CASE req' = req
    BY <1>0, <1>1 DEF Asked
  <1>2. ASSUME NEW q \in Callers, Ask(q) PROVE req' \in [Callers -> Requests] /\ Asked'
    <2>1. ASSUME NEW kind \in Passing, Approve(q, kind)
          PROVE  req' \in [Callers -> Requests] /\ Asked'
      <3> DEFINE r == [NoRequest EXCEPT !.pc = "enqueue", !.kind = kind]
      <3>1. r \in Requests /\ r.kind = kind
        BY DEF NoRequest, Requests, Kinds, Verdicts, Passing
      <3>2. req' = [req EXCEPT ![q] = r]
        BY <2>1 DEF Approve
      <3> HIDE DEF r
      <3> QED BY <3>1, <3>2, SetRequest DEF Passing
    <2>2. ASSUME NEW x \in Ids, NEW v \in Verdicts, Judge(q, x, v) \/ Advance(q, x, v)
          PROVE  req' \in [Callers -> Requests] /\ Asked'
      <3>1. PICK p \in {"save", "enqueue"}, k \in {"result", "advance"} :
               req' = [req EXCEPT ![q] = [pc |-> p, kind |-> k, row |-> x, verdict |-> v]]
        BY <2>2 DEF Judge, Advance
      <3>2. [pc |-> p, kind |-> k, row |-> x, verdict |-> v] \in Requests
        BY DEF Requests, Kinds
      <3> QED BY <3>1, <3>2, SetRequest
    <2>3. ASSUME NEW x \in Ids, NEW v \in Verdicts,
                 \/ Evaluate(q, x, v) \/ StartFromTalentPool(q, x)
                 \/ CancelDirectly(q, x) \/ Delete(q, x)
          PROVE  req' = req
      BY <2>3 DEF Evaluate, StartFromTalentPool, CancelDirectly, Delete, Statement
    <2>4. "passed" \in Verdicts
      BY DEF Verdicts
    <2> QED BY <1>1, <1>2, <2>1, <2>2, <2>3, <2>4 DEF Ask
  <1>3. ASSUME NEW q \in Callers, CallerStep(q) PROVE req' \in [Callers -> Requests] /\ Asked'
    <2>1. req[q].pc # "idle"
      BY <1>3 DEF CallerStep, SaveResult, Enqueue, Send, LookForOpen, InsertApproved, Is
    <2>2. \E p \in {"enqueue", "sending", "look", "insert"} : Continue(q, p) \/ End(q)
      BY <1>3 DEF CallerStep, SaveResult, Enqueue, Send, LookForOpen, InsertApproved, AfterJob
    <2> QED BY <2>1, <2>2, GoOn
  <1>4. ASSUME NEW c \in Consumers,
               \/ ConsumerStep(c) \/ StatementFails(c) \/ Crash(c)
               \/ \E m \in Messages : Claim(c, m)
        PROVE  req' = req
    BY <1>4 DEF ConsumerStep, LoadCreate, LoadAdvance, Look, Insert, Link, Review, MoveCandidate,
       Complete, Fail, Flag, StatementFails, Crash, Claim, JobStep, RowStep
  <1>5. ASSUME NEW m \in Messages, Duplicate(m) PROVE req' = req
    BY <1>5 DEF Duplicate, JobStep
  <1>6. CASE UNCHANGED vars
    BY <1>6, <1>1 DEF vars
  <1>7. ASSUME NEW q \in Callers, RequestDies(q) PROVE req' \in [Callers -> Requests] /\ Asked'
    BY <1>7, EndShape DEF RequestDies
  <1> QED BY <1>1, <1>2, <1>3, <1>4, <1>5, <1>6, <1>7 DEF Next

\* An invocation goes on, with its job or without one.
LEMMA SetExecution ==
  ASSUME TypeOK, Busy, NEW c \in Consumers, NEW e \in Executions, exec' = [exec EXCEPT ![c] = e],
         e.pc \in {"idle", "flag"} \/ run'[c] # Idle,
         \A d \in Consumers : d # c => run'[d] = run[d]
  PROVE  exec' \in [Consumers -> Executions] /\ Busy'
  <1>1. exec \in [Consumers -> Executions]
    BY TypeParts
  <1>2. Idle' = Idle
    BY DEF Idle
  <1> QED BY <1>1, <1>2 DEF Busy

Goes == {"load", "look", "insert", "link", "review", "settle", "reject", "offer",
         "interviewing", "fail"}

\* An invocation goes on in a step that leaves its job alone.
LEMMA ProceedShape ==
  ASSUME TypeOK, Busy, NEW c \in Consumers, exec[c].pc \notin {"idle", "flag"}, run' = run,
         NEW p \in Goes, Proceed(c, p)
  PROVE  exec' \in [Consumers -> Executions] /\ Busy'
  <1>1. exec \in [Consumers -> Executions]
    BY TypeParts
  <1>2. [exec[c] EXCEPT !.pc = p] \in Executions
    BY <1>1 DEF Executions, Goes
  <1>3. exec' = [exec EXCEPT ![c] = [exec[c] EXCEPT !.pc = p]]
    BY <1>1 DEF Proceed
  <1> QED BY <1>2, <1>3, SetExecution DEF Busy

LEMMA NoExecutionShape == NoExecution \in Executions /\ NoExecution.pc = "idle"
  BY DEF NoExecution, Executions

LEMMA StopShape ==
  ASSUME TypeOK, Busy, NEW c \in Consumers, Stop(c), \A d \in Consumers : d # c => run'[d] = run[d]
  PROVE  exec' \in [Consumers -> Executions] /\ Busy'
  BY NoExecutionShape, SetExecution DEF Stop

\* The records an invocation goes on with.
LEMMA StartRecord ==
  ASSUME NEW e \in Executions, NEW p \in Goes \cup {"flag"}, NEW pos \in BOOLEAN,
         NEW named \in BOOLEAN, NEW x \in Ids \cup {None}
  PROVE  /\ [e EXCEPT !.pc = p, !.pos = pos, !.named = named] \in Executions
         /\ [e EXCEPT !.pc = p, !.dst = x] \in Executions
         /\ [e EXCEPT !.pc = p, !.dst = x].pc = p
  BY DEF Executions, Goes

\* The record a handler starts from is well formed.
LEMMA LoadShape ==
  ASSUME WInv, NEW c \in Consumers, LoadCreate(c) \/ LoadAdvance(c)
  PROVE  exec' \in [Consumers -> Executions] /\ Busy'
  <1>0. /\ rows \in [Ids -> Rows] /\ setup \in Setups /\ exec[c].pc = "load" /\ run' = run
    BY TypeParts DEF WInv, LoadCreate, LoadAdvance, At, RowStep, automationVars
  <1>1. run[c] # Idle /\ TypeOK /\ Busy
    BY <1>0 DEF WInv, Busy
  <1>2. Job(c) \in RoundJobs
    BY <1>1, QueueFacts DEF WInv, Job
  <1>3. setup.primary \in BOOLEAN /\ setup.secondary \in BOOLEAN
    BY <1>0, RoundsAssumption
  <1>4. CASE LoadCreate(c)
    <2> DEFINE e == [NoExecution EXCEPT !.pc = IF setup.item THEN "look" ELSE "fail",
                                        !.pos = TRUE, !.named = setup.primary]
    <2>1. e \in Executions
      BY <1>3, StartRecord, NoExecutionShape DEF Goes
    <2>2. exec' = [exec EXCEPT ![c] = e]
      BY <1>4 DEF LoadCreate
    <2> HIDE DEF e
    <2> QED BY <1>0, <1>1, <2>1, <2>2, SetExecution
  <1>5. CASE LoadAdvance(c)
    <2> DEFINE x == Job(c).row
               pc == IF ~Exists(x) THEN "fail"
                     ELSE IF Job(c).verdict = "failed" THEN "reject"
                     ELSE IF rows[x].round = 2 THEN "offer" ELSE "look"
               named == rows[x].pos /\ setup.secondary
               e == [pc |-> pc, round |-> 2, src |-> x, dst |-> None, pos |-> rows[x].pos,
                     named |-> named]
    <2>1. x \in Ids
      BY <1>2, <1>5 DEF LoadAdvance, RoundJobs, AdvanceKey
    <2>2. rows[x].pos \in BOOLEAN /\ named \in BOOLEAN
      BY <1>0, <1>3, <2>1 DEF Rows
    <2>3. pc \in {"fail", "reject", "offer", "look"}
      OBVIOUS
    <2>4. exec' = [exec EXCEPT ![c] = e]
      BY <1>5 DEF LoadAdvance
    <2> HIDE DEF named, pc, x
    <2>5. e \in Executions
      BY <2>1, <2>2, <2>3 DEF Executions
    <2> HIDE DEF e
    <2> QED BY <1>0, <1>1, <2>4, <2>5, SetExecution
  <1> QED BY <1>4, <1>5

\* An invocation that found or created an interview.
LEMMA ReachShape ==
  ASSUME TypeOK, Busy, NEW c \in Consumers, exec[c].pc \notin {"idle", "flag"}, run' = run,
         NEW x \in Ids, exec' = [exec EXCEPT ![c] = [@ EXCEPT !.pc = AfterRound(c), !.dst = x]]
  PROVE  exec' \in [Consumers -> Executions] /\ Busy'
  <1>1. exec \in [Consumers -> Executions] /\ run[c] # Idle
    BY TypeParts DEF Busy
  <1>2. AfterRound(c) \in {"link", "interviewing", "review"}
    BY DEF AfterRound
  <1>3. [exec[c] EXCEPT !.pc = AfterRound(c), !.dst = x] \in Executions
    BY <1>1, <1>2 DEF Executions
  <1>4. exec' = [exec EXCEPT ![c] = [exec[c] EXCEPT !.pc = AfterRound(c), !.dst = x]]
    BY <1>1
  <1> QED BY <1>1, <1>3, <1>4, SetExecution

LEMMA HandlerShape ==
  ASSUME WInv, NEW c \in Consumers, ConsumerStep(c)
  PROVE  exec' \in [Consumers -> Executions] /\ Busy'
  <1>0. TypeOK /\ Busy
    BY DEF WInv
  <1>1. ASSUME Look(c) \/ Insert(c) \/ Link(c) \/ Review(c) \/ MoveCandidate(c)
        PROVE  run' = run /\ exec[c].pc \notin {"idle", "flag"}
    BY <1>1 DEF Look, Insert, Link, Review, MoveCandidate, RowStep, automationVars, At
  <1>2. ASSUME Look(c) \/ Insert(c) \/ Link(c) \/ Review(c) \/ MoveCandidate(c)
        PROVE  \/ \E p \in Goes : Proceed(c, p)
               \/ \E x \in Ids :
                     exec' = [exec EXCEPT ![c] = [@ EXCEPT !.pc = AfterRound(c), !.dst = x]]
    <2>1. CASE Look(c)
      BY <2>1 DEF Look, Goes
    <2>2. CASE Insert(c)
      BY <2>2 DEF Insert, Goes
    <2>3. CASE Link(c) \/ Review(c) \/ MoveCandidate(c)
      BY <2>3 DEF Link, Review, MoveCandidate, Goes
    <2> QED BY <1>2, <2>1, <2>2, <2>3
  <1>3. CASE Look(c) \/ Insert(c) \/ Link(c) \/ Review(c) \/ MoveCandidate(c)
    BY <1>0, <1>1, <1>2, <1>3, ProceedShape, ReachShape
  <1>4. CASE LoadCreate(c) \/ LoadAdvance(c)
    BY <1>4, LoadShape
  <1>5. ASSUME Complete(c) \/ Fail(c)
        PROVE  \A d \in Consumers : d # c => run'[d] = run[d]
    BY <1>0, <1>5, TypeParts DEF Complete, Fail, CompleteJob, FailJob, Settle, QueueTypeOK
  <1>6. CASE Complete(c)
    BY <1>0, <1>5, <1>6, StopShape DEF Complete
  <1>7. CASE Fail(c)
    <2>1. run[c] # Idle
      BY <1>7 DEF Fail, FailJob, Settle
    <2>2. Job(c) \in RoundJobs
      BY <2>1, QueueFacts DEF WInv, Job
    <2>3. CASE Job(c) = CreateKey
      BY <1>0, <1>5, <1>7, <2>3, NoExecutionShape, SetExecution DEF Fail
    <2>4. CASE Job(c) # CreateKey
      <3>1. Job(c).row \in Ids
        BY <2>2, <2>4 DEF RoundJobs, AdvanceKey
      <3> DEFINE e == [NoExecution EXCEPT !.pc = "flag", !.dst = Job(c).row]
      <3>2. e \in Executions /\ e.pc = "flag"
        BY <3>1, StartRecord, NoExecutionShape
      <3>3. exec' = [exec EXCEPT ![c] = e]
        BY <1>7, <2>4 DEF Fail
      <3> HIDE DEF e
      <3> QED BY <1>0, <1>5, <1>7, <3>2, <3>3, SetExecution
    <2> QED BY <2>3, <2>4
  <1>8. CASE Flag(c)
    <2>1. run' = run /\ Stop(c)
      BY <1>8 DEF Flag, RowStep, automationVars
    <2> QED BY <1>0, <2>1, StopShape
  <1> QED BY <1>3, <1>4, <1>6, <1>7, <1>8 DEF ConsumerStep

LEMMA ExecutionShape ==
  ASSUME WInv, [Next]_vars
  PROVE  exec' \in [Consumers -> Executions] /\ Busy'
  <1>0. TypeOK /\ Busy /\ exec \in [Consumers -> Executions] /\ QueueTypeOK
    BY TypeParts DEF WInv
  <1>1. CASE exec' = exec /\ run' = run
    BY <1>0, <1>1 DEF Busy, Idle
  <1>2. ASSUME NEW q \in Callers, Ask(q) \/ CallerStep(q) \/ RequestDies(q)
        PROVE  exec' = exec /\ run' = run
    <2>1. CASE CallerStep(q)
      BY <2>1 DEF CallerStep, SaveResult, Enqueue, Send, LookForOpen, InsertApproved, RequestStep,
         automationVars, CreateJob, FindJob, SendMessage, LoseMessage, queueVars
    <2>2. CASE Ask(q)
      BY <2>2, AskKeeps DEF automationVars
    <2>3. CASE RequestDies(q)
      BY <2>3 DEF RequestDies, automationVars, LoseMessage
    <2> QED BY <1>2, <2>1, <2>2, <2>3
  <1>3. ASSUME NEW c \in Consumers, NEW m \in Messages, Claim(c, m)
        PROVE  exec' \in [Consumers -> Executions] /\ Busy'
    <2>1. CASE SkipJob(c, m) /\ UNCHANGED exec
      BY <1>1, <2>1 DEF SkipJob
    <2>2. CASE ClaimJob(c, m) /\ Proceed(c, "load")
      <3>1. run' = [run EXCEPT ![c] = m] /\ m # Idle
        <4>1. m.job \in RoundJobs /\ NoJob \notin RoundJobs
          BY JobsAssumption DEF AutomationAssumption, Messages
        <4> QED BY <2>2, <4>1 DEF ClaimJob, Idle
      <3>2. run'[c] # Idle /\ \A d \in Consumers : d # c => run'[d] = run[d]
        BY <1>0, <3>1 DEF QueueTypeOK
      <3>3. [exec[c] EXCEPT !.pc = "load"] \in Executions
        BY <1>0 DEF Executions
      <3>4. exec' = [exec EXCEPT ![c] = [exec[c] EXCEPT !.pc = "load"]]
        BY <1>0, <2>2 DEF Proceed
      <3> QED BY <1>0, <3>2, <3>3, <3>4, SetExecution
    <2> QED BY <1>3, <2>1, <2>2 DEF Claim
  <1>4. ASSUME NEW c \in Consumers, Crash(c)
        PROVE  exec' \in [Consumers -> Executions] /\ Busy'
    <2>1. Stop(c) /\ \A d \in Consumers : d # c => run'[d] = run[d]
      BY <1>0, <1>4 DEF Crash, Die, automationVars, QueueTypeOK
    <2> QED BY <1>0, <2>1, StopShape
  <1>5. ASSUME NEW m \in Messages, Duplicate(m) PROVE exec' = exec /\ run' = run
    BY <1>5 DEF Duplicate, DuplicateMessage
  <1>6. ASSUME NEW c \in Consumers, StatementFails(c)
        PROVE  exec' \in [Consumers -> Executions] /\ Busy'
    <2>1. run' = run /\ exec[c].pc \notin {"idle", "flag"} /\ Proceed(c, "fail") /\ "fail" \in Goes
      BY <1>6 DEF StatementFails, automationVars, Goes
    <2> QED BY <1>0, <2>1, ProceedShape
  <1>7. CASE UNCHANGED vars
    BY <1>1, <1>7 DEF vars, automationVars
  <1> QED BY <1>1, <1>2, <1>3, <1>4, <1>5, <1>6, <1>7, HandlerShape DEF Next

\* The candidate, the bounds and the histories.
LEMMA HistoryShape ==
  ASSUME TypeOK, [Next]_vars
  PROVE  /\ setup' = setup
         /\ cand' = cand \/ \E c \in Consumers : MoveCandidate(c)
         /\ cand' \in [stage : Stages, status : Stages \ {"offer_pending"}]
         /\ asked' \in 0..MaxAsked /\ failures' \in 0..MaxFaults
         /\ screened' \subseteq Passing /\ cutShort' \subseteq {"job", "look"}
         /\ {disputed, bypassed}' \subseteq BOOLEAN
  <1> DEFINE Counted == /\ asked' = asked \/ (asked < MaxAsked /\ asked' = asked + 1)
                        /\ failures' = failures \/ (Faultless /\ failures' = failures + 1)
             Noted == /\ screened' = screened \/ \E kind \in Passing : screened' = screened \cup {kind}
                      /\ cutShort' = cutShort \/ \E q \in Callers : cutShort' = cutShort \cup Undone(q)
             Flags == disputed' \in BOOLEAN /\ bypassed' \in BOOLEAN
             Goal == /\ setup' = setup
                     /\ cand' = cand \/ \E c \in Consumers : MoveCandidate(c)
                     /\ Counted /\ Noted /\ Flags
  <1>0. disputed \in BOOLEAN /\ bypassed \in BOOLEAN
    BY Zenon DEF TypeOK
  <1>1. ASSUME NEW q \in Callers, Ask(q) PROVE Goal
    <2>1. ASSUME NEW kind \in Passing, Approve(q, kind) PROVE Goal
      BY <1>0, <2>1, Zenon DEF Approve, Begin
    <2>2. CASE \E x \in Ids, v \in Verdicts : Judge(q, x, v) \/ Advance(q, x, v)
      BY <1>0, <2>2, Zenon DEF Judge, Advance, Begin, historyVars
    <2>3. ASSUME NEW x \in Ids, NEW v \in Verdicts,
                 \/ Evaluate(q, x, v) \/ StartFromTalentPool(q, x)
                 \/ CancelDirectly(q, x) \/ Delete(q, x)
          PROVE  Goal
      BY <1>0, <2>3, Zenon DEF Evaluate, StartFromTalentPool, CancelDirectly, Delete, Statement, Begin
    <2>4. "passed" \in Verdicts
      BY DEF Verdicts
    <2> HIDE DEF Goal
    <2> QED BY <1>1, <2>1, <2>2, <2>3, <2>4 DEF Ask
  <1>2. ASSUME NEW q \in Callers, CallerStep(q) PROVE Goal
    <2>1. CASE SaveResult(q)
      <3>1. disputed' \in {disputed, disputed \/ (Exists(req[q].row) /\ Conflicts(req[q].row, req[q].verdict))}
        BY <2>1, Zenon DEF SaveResult
      <3>2. disputed' \in BOOLEAN
        BY <1>0, <3>1, Zenon
      <3> QED BY <1>0, <2>1, <3>2, Zenon DEF SaveResult, RequestStep
    <2>2. CASE Enqueue(q) \/ Send(q) \/ LookForOpen(q) \/ InsertApproved(q)
      BY <1>0, <2>2, Zenon DEF Enqueue, Send, LookForOpen, InsertApproved, RequestStep, historyVars
    <2> QED BY <1>2, <2>1, <2>2 DEF CallerStep
  <1>3. ASSUME NEW q \in Callers, RequestDies(q) PROVE Goal
    BY <1>0, <1>3, Zenon DEF RequestDies
  <1>4. ASSUME NEW c \in Consumers,
               \/ ConsumerStep(c) \/ StatementFails(c) \/ Crash(c)
               \/ \E m \in Messages : Claim(c, m)
        PROVE  Goal
    <2>1. CASE MoveCandidate(c)
      BY <1>0, <2>1, Zenon DEF MoveCandidate, RowStep, historyVars
    <2>2. CASE StatementFails(c)
      BY <1>0, <2>2, Zenon DEF StatementFails, historyVars
    <2>3. CASE ~MoveCandidate(c) /\ ~StatementFails(c)
      BY <1>0, <1>4, <2>3, Zenon DEF ConsumerStep, LoadCreate, LoadAdvance, Look, Insert, Link,
         Review, Complete, Fail, Flag, Crash, Claim, JobStep, RowStep, historyVars
    <2> QED BY <2>1, <2>2, <2>3
  <1>5. ASSUME NEW m \in Messages, Duplicate(m) PROVE Goal
    BY <1>0, <1>5, Zenon DEF Duplicate, JobStep, historyVars
  <1>6. ASSUME UNCHANGED vars PROVE Goal
    BY <1>0, <1>6, Zenon DEF vars, historyVars
  <1>7. Goal
    BY <1>1, <1>2, <1>3, <1>4, <1>5, <1>6, Zenon DEF Next
  <1>8. ASSUME NEW c \in Consumers, MoveCandidate(c)
        PROVE  cand' \in [stage : Stages, status : Stages \ {"offer_pending"}]
    <2>1. cand \in [stage : Stages, status : Stages \ {"offer_pending"}]
      BY DEF TypeOK
    <2> QED BY <1>8, <2>1 DEF MoveCandidate, At, Stages
  <1>9. cand' \in [stage : Stages, status : Stages \ {"offer_pending"}]
    BY <1>7, <1>8 DEF TypeOK
  <1>10. asked' \in 0..MaxAsked /\ failures' \in 0..MaxFaults
    <2>1. /\ asked \in 0..MaxAsked /\ failures \in 0..MaxFaults
          /\ crashes \in Nat /\ duplicates \in Nat
      BY JobsAssumption DEF TypeOK, QueueTypeOK, AutomationAssumption
    <2>2. Counted
      BY <1>7, Zenon
    <2> QED BY <2>1, <2>2, RoundsAssumption DEF Faultless
  <1>11. screened' \subseteq Passing /\ cutShort' \subseteq {"job", "look"}
    <2>1. screened \subseteq Passing /\ cutShort \subseteq {"job", "look"}
      BY DEF TypeOK
    <2>2. Noted
      BY <1>7, Zenon
    <2>3. \A q \in Callers : Undone(q) \subseteq {"job", "look"}
      BY DEF Undone
    <2> QED BY <2>1, <2>2, <2>3
  <1> QED BY <1>7, <1>9, <1>10, <1>11, Zenon

LEMMA WInvInit == Init => WInv
  <1> SUFFICES ASSUME Init PROVE WInv
    OBVIOUS
  <1>1. Queue!QInv /\ QueueTypeOK
    BY SameInit, QueueAssumed, Queue!QueueInitInv, QueueFacts DEF Init
  <1>2. /\ FreeRow \in Rows /\ NoRequest \in Requests /\ NoExecution \in Executions
        /\ NoRequest.pc = "idle" /\ NoExecution.pc = "idle"
    BY NoExecutionShape DEF FreeRow, Rows, Status, NoRequest, Requests, Verdicts
  <1>3. /\ rows \in [Ids -> Rows] /\ req \in [Callers -> Requests]
        /\ exec \in [Consumers -> Executions] /\ Asked /\ Busy
    BY <1>2 DEF Init, Asked, Busy
  <1>4. /\ setup \in Setups /\ asked \in 0..MaxAsked /\ failures \in 0..MaxFaults
        /\ screened \subseteq Passing /\ cutShort \subseteq {"job", "look"}
        /\ cand \in [stage : Stages, status : Stages \ {"offer_pending"}]
    BY RoundsAssumption DEF Init, Stages
  <1>5. {disputed, bypassed} \subseteq BOOLEAN
    BY Zenon DEF Init
  <1> QED BY <1>1, <1>3, <1>4, <1>5 DEF WInv, TypeOK

LEMMA WInvStep ==
  ASSUME WInv, [Next]_vars
  PROVE  WInv'
  <1>1. /\ TypeOK /\ Asked /\ setup \in Setups
    BY TypeParts DEF WInv
  <1>2. rows' \in [Ids -> Rows]
    BY <1>1, RowsEvolve DEF RowsKept
  <1>3. req' \in [Callers -> Requests] /\ Asked'
    BY <1>1, RequestShape
  <1>4. exec' \in [Consumers -> Executions] /\ Busy'
    BY ExecutionShape
  <1>5. Queue!QInv' /\ QueueTypeOK'
    BY QueueInvKept DEF Queue!QInv, QueueTypeOK, Queue!QueueTypeOK, Messages, Queue!Messages, Idle,
       Queue!Idle, JobStatus, Queue!JobStatus
  <1>6. TypeOK'
    BY <1>1, <1>2, <1>3, <1>4, <1>5, HistoryShape DEF TypeOK
  <1> QED BY <1>3, <1>4, <1>5, <1>6 DEF WInv

\* Whatever requests, invocations, duplicates and deaths do, every variable
\* keeps its type.
THEOREM RoundsTypes == Spec => []TypeOK
  <1>1. WInv /\ [Next]_vars => WInv'
    BY WInvStep
  <1>2. WInv => TypeOK
    BY DEF WInv
  <1> QED BY WInvInit, <1>1, <1>2, PTL DEF Spec

-----------------------------------------------------------------------------
(* One verdict *)

\* A job for a verdict exists only while its interview holds the verdict.
Backed == \A x \in Ids, v \in Verdicts : Judged(x, v) => Exists(x) /\ rows[x].verdict = v

\* So does a request about to create one; the advance route is the bypass.
Saving ==
    \A q \in Callers :
        /\ Is(q, "save", {"result"}) => Exists(req[q].row)
        /\ Is(q, "enqueue", {"result"}) =>
               Exists(req[q].row) /\ rows[req[q].row].verdict = req[q].verdict
        /\ ~Is(q, "enqueue", {"advance"})

VInv == WInv /\ (disputed \/ bypassed \/ (Backed /\ Saving))

\* Without a dispute or a bypass an interview stays, and so does its verdict.
LEMMA VerdictKept ==
  ASSUME TypeOK, RowsKept, ~disputed', ~bypassed', NEW x \in Ids, Exists(x)
  PROVE  Exists(x)' /\ (rows[x].verdict \in Verdicts => rows'[x].verdict = rows[x].verdict)
  <1>1. rows \in [Ids -> Rows] /\ Becomes(x)
    BY TypeParts DEF RowsKept
  <1>2. "none" \notin Verdicts /\ Gone' = Gone
    BY DEF Verdicts, Gone
  <1>3. CASE Touched(x)
    BY <1>2, <1>3 DEF Touched, Exists
  <1>4. CASE Born(x)
    BY <1>4 DEF Born, Exists, Gone
  <1>5. CASE Saved(x)
    BY <1>2, <1>5 DEF Saved, Exists
  <1>6. CASE Named(x)
    BY <1>2, <1>6 DEF Named, Exists
  <1> QED BY <1>1, <1>3, <1>4, <1>5, <1>6 DEF Becomes

\* Disputes and bypasses are remembered.
LEMMA Remembered ==
  ASSUME TypeOK, [Next]_vars
  PROVE  (disputed => disputed') /\ (bypassed => bypassed')
  <1> DEFINE Same == disputed' = disputed /\ bypassed' \in {bypassed, TRUE}
             Goal == (disputed => disputed') /\ (bypassed => bypassed')
  <1>0. disputed \in BOOLEAN /\ bypassed \in BOOLEAN
    BY Zenon DEF TypeOK
  <1>1. ASSUME Same PROVE Goal
    <2>1. ASSUME disputed PROVE disputed'
      <3>1. disputed = TRUE /\ disputed' = disputed
        BY <1>0, <1>1, <2>1, Zenon
      <3> QED BY <3>1
    <2>2. ASSUME bypassed PROVE bypassed'
      <3>1. bypassed = TRUE /\ (bypassed' = bypassed \/ bypassed' = TRUE)
        BY <1>0, <1>1, <2>2, Zenon
      <3> QED BY <3>1
    <2> QED BY <2>1, <2>2
  <1>2. ASSUME NEW q \in Callers, Ask(q) PROVE Same
    <2>1. CASE \E kind \in Offered \cap Passing : Approve(q, kind)
      BY <2>1, Zenon DEF Approve
    <2>2. CASE \E x \in Ids, v \in Verdicts : Judge(q, x, v) \/ Advance(q, x, v)
      BY <2>2, Zenon DEF Judge, Advance, historyVars
    <2>3. ASSUME NEW x \in Ids, NEW v \in Verdicts,
                 \/ Evaluate(q, x, v) \/ StartFromTalentPool(q, x)
                 \/ CancelDirectly(q, x) \/ Delete(q, x)
          PROVE  Same
      BY <2>3, Zenon DEF Evaluate, StartFromTalentPool, CancelDirectly, Delete, Statement
    <2>4. "passed" \in Verdicts
      BY DEF Verdicts
    <2> QED BY <1>2, <2>1, <2>2, <2>3, <2>4 DEF Ask
  <1>3. ASSUME NEW q \in Callers, SaveResult(q) PROVE Goal
    <2>1. \/ disputed' = disputed
          \/ disputed' = (disputed \/ (Exists(req[q].row) /\ Conflicts(req[q].row, req[q].verdict)))
      BY <1>3, Zenon DEF SaveResult
    <2>2. bypassed' = bypassed
      BY <1>3, Zenon DEF SaveResult
    <2> QED BY <1>0, <2>1, <2>2, Zenon
  <1>4. ASSUME NEW q \in Callers,
               \/ Enqueue(q) \/ Send(q) \/ LookForOpen(q) \/ InsertApproved(q)
               \/ RequestDies(q)
        PROVE  Same
    BY <1>4, Zenon DEF Enqueue, Send, LookForOpen, InsertApproved, RequestDies, historyVars
  <1>5. ASSUME NEW c \in Consumers,
               \/ ConsumerStep(c) \/ StatementFails(c) \/ Crash(c)
               \/ \E m \in Messages : Claim(c, m)
        PROVE  Same
    <2>1. UNCHANGED historyVars
      BY <1>5, Zenon DEF ConsumerStep, LoadCreate, LoadAdvance, Look, Insert, Link,
         Review, MoveCandidate, Complete, Fail, Flag, StatementFails, Crash, Claim, JobStep, RowStep
    <2> QED BY <2>1, Zenon DEF historyVars
  <1>6. ASSUME NEW m \in Messages, Duplicate(m) PROVE Same
    BY <1>6, Zenon DEF Duplicate, JobStep, historyVars
  <1>7. ASSUME UNCHANGED vars PROVE Same
    BY <1>7, Zenon DEF vars, historyVars
  <1> HIDE DEF Same, Goal
  <1>8. Goal
    BY <1>1, <1>2, <1>3, <1>4, <1>5, <1>6, <1>7 DEF Next, CallerStep
  <1> QED BY <1>8 DEF Goal

\* A job appears only when a request creates it.
LEMMA JobsAppear ==
  ASSUME WInv, [Next]_vars, NEW j \in RoundJobs, jstat[j] = "none", jstat'[j] # "none"
  PROVE  \E q \in Callers : Enqueue(q) /\ CreateJob(q, KeyOf(q)) /\ Continue(q, "sending")
                            /\ j = KeyOf(q)
  <1>0. QueueTypeOK /\ jstat \in [RoundJobs -> JobStatus]
    BY TypeParts DEF WInv, QueueTypeOK
  <1>1. ASSUME NEW q \in Callers, Enqueue(q) PROVE CreateJob(q, KeyOf(q)) /\ Continue(q, "sending")
                                                   /\ j = KeyOf(q)
    <2>1. jstat' # jstat
      OBVIOUS
    <2>2. CreateJob(q, KeyOf(q)) /\ Continue(q, "sending")
      BY <1>1, <2>1 DEF Enqueue, FindJob, queueVars
    <2> QED BY <1>0, <2>2 DEF CreateJob
  <1>2. ASSUME NEW q \in Callers, Ask(q) PROVE FALSE
    BY <1>2, AskKeeps DEF automationVars
  <1>3. ASSUME NEW q \in Callers, CallerStep(q) PROVE Enqueue(q)
    BY <1>3 DEF CallerStep, SaveResult, Send, LookForOpen, InsertApproved, automationVars,
       SendMessage, LoseMessage
  <1>4. ASSUME NEW c \in Consumers, Complete(c) \/ Fail(c) PROVE FALSE
    <2>1. run[c] # Idle /\ \E s : jstat' = [jstat EXCEPT ![run[c].job] = s]
      BY <1>4 DEF Complete, Fail, CompleteJob, FailJob, Settle
    <2>2. jstat[run[c].job] = "running"
      BY <2>1, QueueFacts DEF WInv
    <2> QED BY <1>0, <2>1, <2>2
  <1>5. ASSUME NEW c \in Consumers, NEW m \in Messages, Claim(c, m) PROVE FALSE
    <2>1. Claimable(m.job) /\ jstat' = [jstat EXCEPT ![m.job] = "running"]
      BY <1>5 DEF Claim, ClaimJob, SkipJob
    <2> QED BY <1>0, <2>1 DEF Claimable
  <1>6. ASSUME NEW c \in Consumers,
               \/ LoadCreate(c) \/ LoadAdvance(c) \/ Look(c) \/ Insert(c) \/ Link(c)
               \/ Review(c) \/ MoveCandidate(c) \/ Flag(c) \/ StatementFails(c) \/ Crash(c)
        PROVE  FALSE
    BY <1>6 DEF LoadCreate, LoadAdvance, Look, Insert, Link, Review, MoveCandidate, Flag,
       StatementFails, Crash, Die, RowStep, automationVars
  <1>7. ASSUME NEW m \in Messages, Duplicate(m) PROVE FALSE
    BY <1>7 DEF Duplicate, DuplicateMessage
  <1>8. CASE UNCHANGED vars
    BY <1>8 DEF vars, automationVars
  <1>9. ASSUME NEW q \in Callers, RequestDies(q) PROVE FALSE
    BY <1>9 DEF RequestDies, LoseMessage, automationVars
  <1> QED BY <1>1, <1>2, <1>3, <1>4, <1>5, <1>6, <1>7, <1>8, <1>9 DEF Next, ConsumerStep

LEMMA BackedStep ==
  ASSUME WInv, Backed, Saving, [Next]_vars, ~disputed', ~bypassed'
  PROVE  Backed'
  <1>0. TypeOK /\ RowsKept /\ Asked
    BY RowsEvolve DEF WInv
  <1> SUFFICES ASSUME NEW x \in Ids, NEW v \in Verdicts, Judged(x, v)'
               PROVE  Exists(x)' /\ rows'[x].verdict = v
    BY DEF Backed
  <1>1. AdvanceKey(x, v) \in RoundJobs /\ jstat'[AdvanceKey(x, v)] # "none"
    BY DEF RoundJobs, Judged, AdvanceKey
  <1>2. Exists(x) /\ rows[x].verdict = v
    <2>1. CASE Judged(x, v)
      BY <2>1 DEF Backed
    <2>2. CASE ~Judged(x, v)
      <3>1. PICK q \in Callers : Enqueue(q) /\ AdvanceKey(x, v) = KeyOf(q)
        BY <1>1, <2>2, JobsAppear DEF Judged
      <3>2. req[q].pc = "enqueue"
        BY <3>1 DEF Enqueue
      <3>3. req[q].kind \notin Passing
        BY <3>1 DEF KeyOf, CreateKey, AdvanceKey
      <3>4. req[q].kind \in {"result", "advance"}
        BY <1>0, <3>2, <3>3 DEF Asked
      <3>5. req[q].row = x /\ req[q].verdict = v
        BY <3>1, <3>3 DEF KeyOf, AdvanceKey
      <3> QED BY <3>2, <3>4, <3>5 DEF Saving, Is
    <2> QED BY <2>1, <2>2
  <1> QED BY <1>0, <1>2, VerdictKept

\* What a step may do to a request, as far as verdicts go.
LEMMA RequestMoves ==
  ASSUME TypeOK, Asked, [Next]_vars, ~bypassed', NEW q \in Callers
  PROVE  \/ req'[q] = req[q]
         \/ req'[q].pc \notin {"save", "enqueue"}
         \/ req'[q].kind \in Passing
         \/ \E x \in Ids, v \in Verdicts :
               Exists(x) /\ req'[q] = [pc |-> "save", kind |-> "result", row |-> x, verdict |-> v]
         \/ SaveResult(q) /\ Continue(q, "enqueue")
  <1>0. req \in [Callers -> Requests]
    BY TypeParts
  <1> DEFINE Goal ==
         \/ req'[q] = req[q]
         \/ req'[q].pc \notin {"save", "enqueue"}
         \/ req'[q].kind \in Passing
         \/ \E x \in Ids, v \in Verdicts :
               Exists(x) /\ req'[q] = [pc |-> "save", kind |-> "result", row |-> x, verdict |-> v]
         \/ SaveResult(q) /\ Continue(q, "enqueue")
  <1>1. ASSUME NEW p \in Callers, Ask(p) PROVE Goal
    <2>1. ASSUME NEW kind \in Passing, Approve(p, kind) PROVE Goal
      BY <1>0, <2>1 DEF Approve, NoRequest
    <2>2. ASSUME NEW x \in Ids, NEW v \in Verdicts, Judge(p, x, v) PROVE Goal
      BY <1>0, <2>2 DEF Judge
    <2>3. ASSUME NEW x \in Ids, NEW v \in Verdicts,
                 Evaluate(p, x, v) \/ StartFromTalentPool(p, x) \/ CancelDirectly(p, x) \/ Delete(p, x)
          PROVE  Goal
      BY <2>3 DEF Evaluate, StartFromTalentPool, CancelDirectly, Delete, Statement
    <2>4. ASSUME NEW x \in Ids, NEW v \in Verdicts, Advance(p, x, v) PROVE FALSE
      BY <2>4 DEF Advance
    <2>5. "passed" \in Verdicts
      BY DEF Verdicts
    <2> QED BY <1>1, <2>1, <2>2, <2>3, <2>4, <2>5 DEF Ask
  <1>2. ASSUME NEW p \in Callers, CallerStep(p) PROVE Goal
    <2>1. CASE p # q
      BY <1>0, <1>2, <2>1 DEF CallerStep, SaveResult, Enqueue, Send, LookForOpen, InsertApproved,
         AfterJob, Continue, End
    <2>2. CASE p = q /\ SaveResult(p)
      BY <1>0, <2>2 DEF SaveResult, End, NoRequest
    <2>3. CASE p = q /\ ~SaveResult(p)
      <3>1. Continue(q, "sending") \/ Continue(q, "look") \/ Continue(q, "insert") \/ End(q)
        BY <1>2, <2>3 DEF CallerStep, Enqueue, Send, LookForOpen, InsertApproved, AfterJob
      <3>2. req'[q].pc \in {"sending", "look", "insert", "idle"}
        BY <1>0, <3>1 DEF Continue, End, NoRequest, Requests
      <3> QED BY <3>2
    <2> QED BY <2>1, <2>2, <2>3
  <1>3. ASSUME NEW c \in Consumers,
               \/ ConsumerStep(c) \/ StatementFails(c) \/ Crash(c)
               \/ \E m \in Messages : Claim(c, m)
        PROVE  Goal
    BY <1>3 DEF ConsumerStep, LoadCreate, LoadAdvance, Look, Insert, Link, Review, MoveCandidate,
       Complete, Fail, Flag, StatementFails, Crash, Claim, JobStep, RowStep
  <1>4. ASSUME NEW m \in Messages, Duplicate(m) PROVE Goal
    BY <1>4 DEF Duplicate, JobStep
  <1>5. ASSUME UNCHANGED vars PROVE Goal
    BY <1>5 DEF vars
  <1>6. ASSUME NEW p \in Callers, RequestDies(p) PROVE Goal
    BY <1>0, <1>6 DEF RequestDies, End, NoRequest
  <1> QED BY <1>1, <1>2, <1>3, <1>4, <1>5, <1>6 DEF Next

LEMMA SavingStep ==
  ASSUME WInv, Saving, [Next]_vars, ~disputed', ~bypassed'
  PROVE  Saving'
  <1>0. /\ TypeOK /\ Asked /\ RowsKept
        /\ req \in [Callers -> Requests] /\ rows \in [Ids -> Rows]
    BY RowsEvolve, TypeParts DEF WInv
  <1> SUFFICES ASSUME NEW q \in Callers
               PROVE  /\ Is(q, "save", {"result"})' => Exists(req[q].row)'
                      /\ Is(q, "enqueue", {"result"})' =>
                            Exists(req[q].row)' /\ rows'[req'[q].row].verdict = req'[q].verdict
                      /\ ~Is(q, "enqueue", {"advance"})'
    BY DEF Saving
  <1>1. CASE req'[q] = req[q]
    <2>1. CASE Is(q, "save", {"result"}) \/ Is(q, "enqueue", {"result"})
      <3>1. req[q].row \in Ids /\ Exists(req[q].row) /\ req[q].verdict \in Verdicts
        BY <1>0, <2>1 DEF Asked, Is, Saving, Requests
      <3> QED BY <1>0, <1>1, <2>1, <3>1, VerdictKept DEF Saving, Is
    <2>2. CASE ~(Is(q, "save", {"result"}) \/ Is(q, "enqueue", {"result"}))
      BY <1>1, <2>2 DEF Is, Saving
    <2> QED BY <2>1, <2>2
  <1>2. CASE req'[q].pc \notin {"save", "enqueue"} \/ req'[q].kind \in Passing
    BY <1>2 DEF Is, Passing
  <1>3. ASSUME NEW x \in Ids, NEW v \in Verdicts, Exists(x),
               req'[q] = [pc |-> "save", kind |-> "result", row |-> x, verdict |-> v]
        PROVE  Is(q, "save", {"result"})' /\ Exists(req[q].row)'
    <2>1. Exists(x)'
      BY <1>0, <1>3, VerdictKept
    <2> QED BY <1>3, <2>1 DEF Is, Exists
  <1>4. ASSUME SaveResult(q), Continue(q, "enqueue")
        PROVE  /\ req'[q].pc = "enqueue" /\ req'[q].kind = "result"
               /\ Exists(req[q].row)' /\ rows'[req'[q].row].verdict = req'[q].verdict
    <2> DEFINE x == req[q].row
               v == req[q].verdict
    <2>1. Is(q, "save", {"result"}) /\ Exists(x)
      BY <1>4 DEF SaveResult, Saving
    <2>2. x \in Ids /\ v \in Verdicts
      BY <1>0, <2>1 DEF Asked, Is, Requests
    <2>3. /\ req'[q].pc = "enqueue" /\ req'[q].kind = "result"
          /\ req'[q].row = x /\ req'[q].verdict = v
      BY <1>0, <1>4, <2>1 DEF Continue, Is, Requests
    <2>4. rows' = [rows EXCEPT ![x].verdict = v, ![x].status = "completed"]
      <3>1. Continue(q, "enqueue") => ~End(q)
        BY <1>0 DEF Continue, End, NoRequest, Requests
      <3> QED BY <1>4, <2>1, <3>1 DEF SaveResult
    <2>5. rows'[x].verdict = v /\ rows'[x].status = "completed"
      BY <1>0, <2>2, <2>4 DEF Rows
    <2> QED BY <2>3, <2>5 DEF Exists, Gone
  <1>5. Is(q, "save", {"result"})' => ~Is(q, "enqueue", {"result"})' /\ ~Is(q, "enqueue", {"advance"})'
    BY DEF Is
  <1> QED BY <1>0, <1>1, <1>2, <1>3, <1>4, <1>5, RequestMoves DEF Is

LEMMA VInvInit == Init => VInv
  <1> SUFFICES ASSUME Init PROVE Backed /\ Saving
    BY WInvInit DEF VInv
  <1>1. Backed
    BY DEF Init, QueueInit, Backed, Judged, RoundJobs
  <1>2. Saving
    BY DEF Init, Saving, Is, NoRequest
  <1> QED BY <1>1, <1>2

LEMMA VInvStep ==
  ASSUME VInv, [Next]_vars
  PROVE  VInv'
  BY WInvStep, Remembered, BackedStep, SavingStep DEF VInv, WInv

LEMMA VInvHolds == Spec => []VInv
  <1>1. VInv /\ [Next]_vars => VInv'
    BY VInvStep
  <1> QED BY <1>1, VInvInit, PTL DEF Spec

\* However requests, invocations, duplicates and deaths interleave, an
\* interview never gets jobs for both verdicts (saveResultOnce refuses the
\* opposite one), unless HR used a route that skips the stored verdict or two
\* results overlapped between the check and the UPDATE.
THEOREM RoundsOneVerdict == Spec => []OneVerdict
  <1>1. VInv => OneVerdict
    BY DEF VInv, Backed, OneVerdict, Split, Verdicts
  <1> QED BY <1>1, VInvHolds, PTL

-----------------------------------------------------------------------------
(* Two passes *)

Firm(x, round) == Exists(x) /\ Passed(x, round)

\* A second round names a first one that was passed.
Rooted ==
    \A y \in Ids : Exists(y) /\ rows[y].round = 2 =>
        rows[y].prev \in Ids /\ Firm(rows[y].prev, 1)

\* An invocation that is about to create or link a second round, or to make the
\* offer, has read the verdict it acts on from an interview that still holds it.
Grounded(e) ==
    /\ e.pc \in {"look", "insert"} =>
           \/ e.round = 1 /\ e.src = None
           \/ e.round = 2 /\ e.src \in Ids /\ Firm(e.src, 1)
    /\ e.pc = "link" => e.src \in Ids /\ Firm(e.src, 1)
    /\ e.pc = "offer" => e.src \in Ids /\ Firm(e.src, 2)
Carrying == \A c \in Consumers : Grounded(exec[c])

Earned == cand.stage = "offer_pending" => \E y \in Ids : Firm(y, 2)

OInv == VInv /\ (disputed \/ bypassed \/ (Rooted /\ Carrying /\ Earned))

\* A passed interview stays one.
LEMMA FirmKept ==
  ASSUME TypeOK, RowsKept, ~disputed', ~bypassed', NEW x \in Ids, NEW r \in 1..2, Firm(x, r)
  PROVE  Firm(x, r)'
  <1>1. Exists(x) /\ rows[x].round = r /\ rows[x].verdict = "passed" /\ "passed" \in Verdicts
    BY DEF Firm, Passed, Verdicts
  <1>2. Exists(x)' /\ rows'[x].verdict = "passed"
    BY <1>1, VerdictKept
  <1>3. rows'[x].round = rows[x].round
    BY <1>1 DEF RowsKept, Becomes, Touched, Born, Saved, Named, Exists, Gone
  <1> QED BY <1>1, <1>2, <1>3 DEF Firm, Passed

LEMMA GroundedKept ==
  ASSUME TypeOK, RowsKept, ~disputed', ~bypassed', NEW e \in Executions, Grounded(e)
  PROVE  Grounded(e)'
  <1>1. 1 \in 1..2 /\ 2 \in 1..2
    OBVIOUS
  <1> QED BY <1>1, FirmKept DEF Grounded

LEMMA RootedStep ==
  ASSUME WInv, Rooted, Carrying, [Next]_vars, ~disputed', ~bypassed'
  PROVE  Rooted'
  <1>0. /\ TypeOK /\ RowsKept /\ 1 \in 1..2
        /\ rows \in [Ids -> Rows] /\ exec \in [Consumers -> Executions]
    BY RowsEvolve, TypeParts DEF WInv
  <1> SUFFICES ASSUME NEW y \in Ids, Exists(y)', rows'[y].round = 2
               PROVE  rows'[y].prev \in Ids /\ Firm(rows[y].prev, 1)'
    BY DEF Rooted
  <1>1. CASE Touched(y) \/ Saved(y)
    <2>1. Exists(y) /\ rows[y].round = 2 /\ rows'[y].prev = rows[y].prev
      BY <1>1 DEF Touched, Saved, Exists, Gone
    <2>2. rows[y].prev \in Ids /\ Firm(rows[y].prev, 1)
      BY <2>1 DEF Rooted
    <2> QED BY <1>0, <2>1, <2>2, FirmKept
  <1>2. CASE Born(y) \/ Named(y)
    <2>1. PICK c \in Consumers :
             /\ rows'[y].prev = exec[c].src
             /\ At(c, "link") \/ (At(c, "insert") /\ exec[c].round = 2)
      BY <1>2 DEF Born, Named
    <2>2. exec[c].src \in Ids /\ Firm(exec[c].src, 1)
      BY <2>1 DEF Carrying, Grounded, At
    <2> QED BY <1>0, <2>1, <2>2, FirmKept
  <1> QED BY <1>0, <1>1, <1>2 DEF RowsKept, Becomes

\* The job of an invocation is backed by its interview.
LEMMA LoadGrounded ==
  ASSUME WInv, Backed, NEW c \in Consumers, LoadCreate(c) \/ LoadAdvance(c)
  PROVE  Grounded(exec'[c]) /\ \A d \in Consumers : d # c => exec'[d] = exec[d]
  <1>0. /\ rows \in [Ids -> Rows] /\ exec \in [Consumers -> Executions]
        /\ exec[c].pc = "load"
    BY TypeParts DEF WInv, LoadCreate, LoadAdvance, At
  <1>1. run[c] # Idle
    BY <1>0 DEF WInv, Busy
  <1>2. Job(c) \in RoundJobs /\ jstat[Job(c)] = "running"
    BY <1>1, QueueFacts DEF WInv, Job
  <1>3. CASE LoadCreate(c)
    <2>1. exec'[c].round = 1 /\ exec'[c].src = None /\ exec'[c].pc \in {"look", "fail"}
      BY <1>0, <1>3 DEF LoadCreate, NoExecution
    <2> QED BY <1>0, <1>3, <2>1 DEF LoadCreate, Grounded
  <1>4. CASE LoadAdvance(c)
    <2>1. PICK x \in Ids, v \in Verdicts : Job(c) = AdvanceKey(x, v)
      BY <1>2, <1>4 DEF LoadAdvance, RoundJobs
    <2>2. Exists(x) /\ rows[x].verdict = v
      BY <1>2, <2>1 DEF Backed, Judged
    <2>3. Job(c).row = x /\ Job(c).verdict = v
      BY <2>1 DEF AdvanceKey
    <2> DEFINE e == exec'[c]
               pc == IF ~Exists(x) THEN "fail"
                     ELSE IF v = "failed" THEN "reject"
                     ELSE IF rows[x].round = 2 THEN "offer" ELSE "look"
    <2>4. e.pc = pc /\ e.round = 2 /\ e.src = x
      BY <1>0, <1>4, <2>3 DEF LoadAdvance
    <2>5. rows[x].round \in 1..2 /\ (v = "failed" \/ v = "passed")
      BY <1>0 DEF Rows, Verdicts
    <2>6. pc = "offer" => Firm(x, 2)
      BY <2>2, <2>5 DEF Firm, Passed
    <2>7. pc = "look" => Firm(x, 1)
      BY <2>2, <2>5 DEF Firm, Passed
    <2>8. pc \in {"fail", "reject", "offer", "look"}
      OBVIOUS
    <2>9. \A d \in Consumers : d # c => exec'[d] = exec[d]
      BY <1>0, <1>4 DEF LoadAdvance
    <2> HIDE DEF e, pc
    <2>10. Grounded(e)
      BY <2>4, <2>6, <2>7, <2>8 DEF Grounded
    <2> QED BY <2>9, <2>10 DEF e
  <1> QED BY <1>3, <1>4

\* An invocation that found or created a round links it to the one it acts on.
LEMMA ReachGrounded ==
  ASSUME TypeOK, Carrying, NEW c \in Consumers, Look(c) \/ Insert(c)
  PROVE  Grounded(exec'[c]) /\ \A d \in Consumers : d # c => exec'[d] = exec[d]
  <1>0. /\ exec \in [Consumers -> Executions] /\ Grounded(exec[c])
        /\ exec[c].pc \in {"look", "insert"}
    BY TypeParts DEF Carrying, Look, Insert, At
  <1>1. CASE Proceed(c, "insert") \/ Proceed(c, "fail")
    <2>1. /\ exec'[c].pc \in {"insert", "fail"} /\ exec'[c].round = exec[c].round
          /\ exec'[c].src = exec[c].src
      BY <1>0, <1>1 DEF Proceed, Executions
    <2> QED BY <1>0, <1>1, <2>1 DEF Grounded, Proceed
  <1>2. ASSUME NEW x \in Ids,
               exec' = [exec EXCEPT ![c] = [@ EXCEPT !.pc = AfterRound(c), !.dst = x]]
        PROVE  Grounded(exec'[c]) /\ \A d \in Consumers : d # c => exec'[d] = exec[d]
    <2>1. /\ exec'[c].pc = AfterRound(c) /\ exec'[c].src = exec[c].src
      BY <1>0, <1>2 DEF Executions
    <2>2. AfterRound(c) \in {"link", "interviewing", "review"}
          /\ (AfterRound(c) = "link" => exec[c].src # None)
      BY DEF AfterRound
    <2>3. AfterRound(c) = "link" => exec[c].src \in Ids /\ Firm(exec[c].src, 1)
      BY <1>0, <2>2 DEF Grounded
    <2> QED BY <1>0, <1>2, <2>1, <2>2, <2>3 DEF Grounded
  <1> QED BY <1>1, <1>2 DEF Look, Insert

\* Every other step leaves an invocation where it is or takes it where nothing
\* is owed.
LEMMA ExecutionMoves ==
  ASSUME TypeOK, [Next]_vars, NEW c \in Consumers,
         ~(LoadCreate(c) \/ LoadAdvance(c) \/ Look(c) \/ Insert(c))
  PROVE  exec'[c] = exec[c] \/ exec'[c].pc \notin {"look", "insert", "link", "offer"}
  <1>0. exec \in [Consumers -> Executions]
    BY TypeParts
  <1> DEFINE Goal == exec'[c] = exec[c] \/ exec'[c].pc \notin {"look", "insert", "link", "offer"}
  <1>1. ASSUME NEW q \in Callers, Ask(q) \/ CallerStep(q) \/ RequestDies(q) PROVE exec' = exec
    <2>1. CASE CallerStep(q)
      BY <2>1 DEF CallerStep, SaveResult, Enqueue, Send, LookForOpen, InsertApproved, RequestStep
    <2>2. CASE Ask(q)
      BY <2>2, AskKeeps
    <2>3. CASE RequestDies(q)
      BY <2>3 DEF RequestDies
    <2> QED BY <1>1, <2>1, <2>2, <2>3
  <1>2. ASSUME NEW d \in Consumers, d # c,
               \/ ConsumerStep(d) \/ StatementFails(d) \/ Crash(d)
               \/ \E m \in Messages : Claim(d, m)
        PROVE  exec'[c] = exec[c]
    BY <1>0, <1>2 DEF ConsumerStep, LoadCreate, LoadAdvance, Look, Insert, Link, Review,
       MoveCandidate, Complete, Fail, Flag, StatementFails, Crash, Claim, Proceed, Stop
  <1>3. ASSUME ConsumerStep(c) PROVE Goal
    <2>1. CASE Link(c) \/ Review(c) \/ MoveCandidate(c)
      <3>1. PICK p \in {"interviewing", "review", "settle", "fail"} : Proceed(c, p)
        BY <2>1 DEF Link, Review, MoveCandidate
      <3> QED BY <1>0, <3>1 DEF Proceed
    <2>2. CASE Complete(c) \/ Flag(c)
      BY <1>0, <2>2, NoExecutionShape DEF Complete, Flag, Stop
    <2>3. CASE Fail(c)
      <3>1. exec'[c].pc \in {"idle", "flag"}
        BY <1>0, <2>3, NoExecutionShape DEF Fail, NoExecution
      <3> QED BY <3>1
    <2> QED BY <1>3, <2>1, <2>2, <2>3 DEF ConsumerStep
  <1>4. ASSUME NEW m \in Messages, Claim(c, m) PROVE Goal
    BY <1>0, <1>4 DEF Claim, Proceed, Executions
  <1>5. ASSUME Crash(c) \/ StatementFails(c) PROVE Goal
    <2>1. CASE Crash(c)
      BY <1>0, <2>1, NoExecutionShape DEF Crash, Stop
    <2>2. CASE StatementFails(c)
      BY <1>0, <2>2 DEF StatementFails, Proceed, Executions
    <2> QED BY <1>5, <2>1, <2>2
  <1>6. ASSUME NEW m \in Messages, Duplicate(m) PROVE exec' = exec
    BY <1>6 DEF Duplicate
  <1>7. CASE UNCHANGED vars
    BY <1>7 DEF vars
  <1> QED BY <1>1, <1>2, <1>3, <1>4, <1>5, <1>6, <1>7 DEF Next

LEMMA CarryingStep ==
  ASSUME WInv, Backed, Carrying, [Next]_vars, ~disputed', ~bypassed'
  PROVE  Carrying'
  <1>0. TypeOK /\ RowsKept /\ exec \in [Consumers -> Executions]
        /\ exec' \in [Consumers -> Executions]
    BY RowsEvolve, TypeParts, ExecutionShape DEF WInv
  <1> SUFFICES ASSUME NEW c \in Consumers PROVE Grounded(exec[c])'
    BY DEF Carrying
  <1>1. Grounded(exec'[c])
    <2>1. CASE LoadCreate(c) \/ LoadAdvance(c)
      BY <2>1, LoadGrounded
    <2>2. CASE Look(c) \/ Insert(c)
      BY <1>0, <2>2, ReachGrounded
    <2>3. CASE ~(LoadCreate(c) \/ LoadAdvance(c) \/ Look(c) \/ Insert(c))
      <3>1. exec'[c] = exec[c] \/ exec'[c].pc \notin {"look", "insert", "link", "offer"}
        BY <1>0, <2>3, ExecutionMoves
      <3> QED BY <3>1 DEF Carrying, Grounded
    <2> QED BY <2>1, <2>2, <2>3
  <1>2. exec'[c] \in Executions /\ 1 \in 1..2 /\ 2 \in 1..2
    BY <1>0
  <1> QED BY <1>0, <1>1, <1>2, FirmKept DEF Grounded

LEMMA EarnedStep ==
  ASSUME WInv, Carrying, Earned, [Next]_vars, ~disputed', ~bypassed'
  PROVE  Earned'
  <1>0. TypeOK /\ RowsKept /\ 2 \in 1..2
    BY RowsEvolve DEF WInv
  <1> SUFFICES ASSUME cand'.stage = "offer_pending" PROVE \E y \in Ids : Firm(y, 2)'
    BY DEF Earned
  <1>1. \E y \in Ids : Firm(y, 2)
    <2>1. CASE cand.stage = "offer_pending"
      BY <2>1 DEF Earned
    <2>2. ASSUME NEW c \in Consumers, MoveCandidate(c), cand.stage # "offer_pending"
          PROVE  \E y \in Ids : Firm(y, 2)
      <3>1. At(c, "offer")
        BY <2>2 DEF MoveCandidate, At
      <3> QED BY <3>1 DEF Carrying, Grounded, At
    <2>3. cand' = cand \/ \E c \in Consumers : MoveCandidate(c)
      BY <1>0, HistoryShape
    <2> QED BY <2>1, <2>2, <2>3
  <1> QED BY <1>0, <1>1, FirmKept

LEMMA OInvHolds == Spec => []OInv
  <1>1. Init => OInv
    <2> SUFFICES ASSUME Init PROVE VInv /\ Rooted /\ Carrying /\ Earned
      BY DEF OInv
    <2>1. Rooted /\ Earned
      BY DEF Init, Rooted, Earned, Exists, FreeRow, Gone
    <2>2. Carrying
      BY DEF Init, Carrying, Grounded, NoExecution
    <2> QED BY <2>1, <2>2, VInvInit
  <1>2. VInv /\ OInv /\ [Next]_vars => OInv'
    BY VInvStep, Remembered, RootedStep, CarryingStep, EarnedStep DEF OInv, VInv, WInv
  <1> QED BY <1>1, <1>2, VInvHolds, PTL DEF Spec

\* However requests, invocations, duplicates and deaths interleave, a candidate
\* waits for an offer only after a passed first round and a passed second one
\* created from it (advanceInterview trusts the verdict in its key), unless a
\* route skipped the stored verdict or two results overlapped.
THEOREM RoundsOfferAfterTwoPasses == Spec => []OfferAfterTwoPasses
  <1>1. ASSUME OInv PROVE OfferAfterTwoPasses
    <2> SUFFICES ASSUME cand.stage = "offer_pending", ~disputed, ~bypassed PROVE TwoPasses
      BY DEF OfferAfterTwoPasses
    <2>1. PICK y \in Ids : Firm(y, 2)
      BY <1>1 DEF OInv, Earned
    <2>2. rows[y].prev \in Ids /\ Firm(rows[y].prev, 1)
      BY <1>1, <2>1 DEF OInv, Rooted, Firm, Passed
    <2> QED BY <2>1, <2>2 DEF TwoPasses, Firm
  <1> QED BY <1>1, OInvHolds, PTL

=============================================================================
