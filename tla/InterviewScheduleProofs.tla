------------------------ MODULE InterviewScheduleProofs ------------------------
(***************************************************************************)
(* Theorems about InterviewSchedule for every value of its constants.      *)
(*                                                                         *)
(* First, it keeps to AutomationQueue, so what AutomationQueueProofs shows *)
(* of the jobs holds of the jobs of an interview.  For that a request must *)
(* never name a job that cannot exist: a version is one more than one that *)
(* was read, and versions never run ahead of the requests (Versions).      *)
(*                                                                         *)
(* Second, types, and what the version check achieves while nothing goes   *)
(* round it (~disturbed): one event in the calendar, reschedules and      *)
(* cancellations that tell the truth.  All of it rests on one fact, that   *)
(* a version then belongs to one request and to its one job (Keys), so     *)
(* that at most one invocation at a time is past its version check.        *)
(***************************************************************************)
EXTENDS InterviewSchedule, FiniteSetTheorems, TLAPS

Shapes ==
    /\ row \in Rows
    /\ req \in [Callers -> Requests]
    /\ exec \in [Consumers -> Executions]
    /\ asked \in 0..MaxAsked
Versions ==
    /\ row.version <= asked + 1
    /\ \A q \in Callers : req[q].pc # "idle" => req[q].seen.version <= asked
SInv == Shapes /\ Versions

-----------------------------------------------------------------------------
LEMMA NewRowShape == NewRow \in Rows
  BY ScheduleAssumption DEF NewRow, Rows, Status, ScheduleStatus, Times

\* Nothing under way satisfies the invariant.
LEMMA ScheduleInitInv == Init => SInv
  <1>1. NoRequest \in Requests /\ NoExecution \in Executions
    BY NewRowShape DEF NoRequest, Requests, NoExecution, Executions, Times
  <1> QED BY <1>1, NewRowShape, ScheduleAssumption
          DEF Init, SInv, Shapes, Versions, NoRequest, NewRow

\* A request that ends, or that goes on, keeps what it read.
LEMMA EndKeeps ==
  ASSUME SInv, NEW q \in Callers, End(q)
  PROVE  /\ req' \in [Callers -> Requests]
         /\ \A p \in Callers : req'[p].pc # "idle" => req[p].pc # "idle" /\ req'[p] = req[p]
  <1>1. NoRequest \in Requests /\ NoRequest.pc = "idle"
    BY NewRowShape DEF NoRequest, Requests, Times
  <1> QED BY <1>1 DEF SInv, Shapes, End

LEMMA ContinueKeeps ==
  ASSUME SInv, NEW q \in Callers, NEW p \in {"write", "insert", "load", "call", "save"},
         Continue(q, p), req[q].pc # "idle"
  PROVE  /\ req' \in [Callers -> Requests]
         /\ \A r \in Callers : req'[r].pc # "idle" => req[r].pc # "idle" /\ req'[r].seen = req[r].seen
  BY DEF SInv, Shapes, Continue, Requests

\* A step that writes no version and reads none.
LEMMA KeepsInv ==
  ASSUME SInv, row' \in Rows, row'.version = row.version,
         req' \in [Callers -> Requests],
         \A r \in Callers : req'[r].pc # "idle" =>
            req[r].pc # "idle" /\ req'[r].seen.version = req[r].seen.version,
         exec' \in [Consumers -> Executions], asked' = asked
  PROVE  SInv'
  BY DEF SInv, Shapes, Versions

-----------------------------------------------------------------------------
(* Requests *)

LEMMA AskInv ==
  ASSUME SInv, NEW q \in Callers, NEW kind \in Kinds, NEW t \in Slots, Ask(q, kind, t)
  PROVE  SInv'
  <1> DEFINE new == [pc |-> IF kind = "direct" THEN "call" ELSE "write",
                     kind |-> kind, time |-> t, seen |-> row, event |-> NoEvent]
  <1>1. new \in Requests
    BY DEF SInv, Shapes, Requests, Times
  <1>2. /\ asked \in Nat /\ asked' = asked + 1 /\ asked' \in 0..MaxAsked
        /\ row' = row /\ exec' = exec /\ req' = [req EXCEPT ![q] = new]
    BY ScheduleAssumption DEF Ask, SInv, Shapes, rowVars
  <1>3. row.version \in Nat /\ \A r \in Callers : req[r].seen.version \in Nat
    BY ScheduleAssumption DEF SInv, Shapes, Rows, Requests
  <1>4. Shapes'
    BY <1>1, <1>2 DEF SInv, Shapes
  <1>5. \A r \in Callers : req'[r] = IF r = q THEN new ELSE req[r]
    BY <1>2 DEF SInv, Shapes
  <1>6. new.seen = row
    OBVIOUS
  <1>7. ASSUME NEW r \in Callers, req'[r].pc # "idle" PROVE req'[r].seen.version <= asked'
    <2>1. CASE r = q
      BY <2>1, <1>2, <1>3, <1>5, <1>6 DEF SInv, Versions
    <2>2. CASE r # q
      BY <2>2, <1>2, <1>3, <1>5, <1>7 DEF SInv, Versions
    <2> QED BY <2>1, <2>2
  <1>8. row'.version <= asked' + 1
    BY <1>2, <1>3 DEF SInv, Versions
  <1> QED BY <1>4, <1>7, <1>8 DEF SInv, Versions

\* The version an automated request writes is at most one more than asked.
LEMMA PrepareInv ==
  ASSUME SInv, NEW q \in Callers, PrepareSchedule(q) \/ PrepareCancel(q)
  PROVE  SInv'
  <1>1. /\ req[q].pc # "idle" /\ req[q] \in Requests /\ req[q].seen \in Rows
        /\ asked \in 0..MaxAsked /\ asked \in Nat
    BY ScheduleAssumption
       DEF PrepareSchedule, PrepareCancel, Is, SInv, Shapes, Requests
  <1>2. req[q].seen.version + 1 \in 1..(MaxAsked + 1) /\ req[q].seen.version + 1 <= asked + 1
    BY <1>1, ScheduleAssumption DEF SInv, Versions, Rows
  <1>3. row' \in Rows /\ row'.version = req[q].seen.version + 1
    <2>1. row \in Rows /\ req[q].time \in Times /\ "cancel_pending" \in Status
          /\ "queued" \in ScheduleStatus /\ "cancel_pending" \in ScheduleStatus
      BY <1>1 DEF SInv, Shapes, Requests, Status, ScheduleStatus
    <2>2. CASE PrepareSchedule(q)
      <3>1. row' = [row EXCEPT !.slot = req[q].time, !.shown = req[q].time,
                               !.sched = "queued", !.version = req[q].seen.version + 1]
        BY <2>2 DEF PrepareSchedule, Prepare
      <3> QED BY <1>2, <2>1, <3>1 DEF Rows
    <2>3. CASE PrepareCancel(q)
      <3>1. row' = [row EXCEPT !.status = "cancel_pending", !.sched = "cancel_pending",
                               !.version = req[q].seen.version + 1]
        BY <2>3 DEF PrepareCancel, Prepare
      <3> QED BY <1>2, <2>1, <3>1 DEF Rows
    <2> QED BY <2>2, <2>3
  <1>4. /\ req' \in [Callers -> Requests]
        /\ \A r \in Callers : req'[r].pc # "idle" =>
              req[r].pc # "idle" /\ req'[r].seen = req[r].seen
    BY <1>1, ContinueKeeps DEF PrepareSchedule, PrepareCancel, Prepare
  <1>5. exec' = exec /\ asked' = asked
    BY DEF PrepareSchedule, PrepareCancel, Prepare, Unbothered
  <1> QED BY <1>1, <1>2, <1>3, <1>4, <1>5 DEF SInv, Shapes, Versions

\* The other writes of a request leave the version alone.
LEMMA RequestWritesInv ==
  ASSUME SInv, NEW q \in Callers,
         \/ SaveResult(q) \/ ScheduleOffline(q) \/ CardWrites(q)
         \/ StartWrites(q) \/ DirectSaves(q) \/ StartSaves(q)
  PROVE  SInv'
  <1>1. /\ req[q].pc # "idle" /\ req[q] \in Requests /\ req[q].seen.link \in BOOLEAN
        /\ row \in Rows
    BY DEF SaveResult, ScheduleOffline, CardWrites, StartWrites, DirectSaves, StartSaves,
       Is, SInv, Shapes, Requests, Rows
  <1>2. row' \in Rows /\ row'.version = row.version
    <2>1. /\ "completed" \in Status /\ "scheduled" \in Status /\ "in_progress" \in Status
          /\ req[q].time \in Times /\ req[q].event \in Events \cup {NoEvent}
          /\ NoEvent \in Events \cup {NoEvent} /\ row.link \in BOOLEAN
      BY <1>1 DEF Status, Requests, Rows
    <2>2. CASE SaveResult(q) \/ CardWrites(q) \/ StartWrites(q)
      BY <1>1, <2>1, <2>2 DEF SaveResult, CardWrites, StartWrites, Write, Rows
    <2>3. CASE ScheduleOffline(q)
      BY <1>1, <2>1, <2>3 DEF ScheduleOffline, Write, Rows
    <2>4. CASE DirectSaves(q)
      BY <1>1, <2>1, <2>4 DEF DirectSaves, Write, Rows
    <2>5. CASE StartSaves(q)
      BY <1>1, <2>1, <2>5 DEF StartSaves, Write, Rows
    <2> QED BY <2>2, <2>3, <2>4, <2>5
  <1>3. exec' = exec /\ asked' = asked
    BY DEF SaveResult, ScheduleOffline, CardWrites, StartWrites, DirectSaves, StartSaves,
       Write, Unbothered
  <1>4. End(q) \/ Continue(q, "call") \/ Continue(q, "load")
    BY DEF SaveResult, ScheduleOffline, CardWrites, StartWrites, DirectSaves, StartSaves
  <1>5. exec' \in [Consumers -> Executions]
    BY <1>3 DEF SInv, Shapes
  <1> QED BY <1>1, <1>2, <1>3, <1>4, <1>5, EndKeeps, ContinueKeeps, KeepsInv

LEMMA StartLoadsInv ==
  ASSUME SInv, NEW q \in Callers, StartLoads(q)
  PROVE  SInv'
  <1>1. /\ req[q].pc # "idle" /\ req[q] \in Requests /\ req[q].seen \in Rows /\ row \in Rows
        /\ exec' = exec /\ asked' = asked /\ exec' \in [Consumers -> Executions]
    BY DEF StartLoads, Is, SInv, Shapes, Requests, Unbothered
  <1>2. CASE row' = row /\ End(q)
    BY <1>1, <1>2, EndKeeps, KeepsInv
  <1>3. ASSUME NEW t \in {req[q].time, row.shown} \ {NoEvent}, row' = [row EXCEPT !.shown = t],
               End(q) \/ req' = [req EXCEPT ![q] = [@ EXCEPT !.pc = "call", !.time = t,
                                                            !.seen.fs = NoEvent]]
        PROVE  SInv'
    <2>1. t \in Times
      BY <1>1 DEF Requests, Rows
    <2>2. row' \in Rows /\ row'.version = row.version
      BY <1>1, <1>3, <2>1 DEF Rows
    <2>3. CASE End(q)
      BY <1>1, <2>2, <2>3, EndKeeps, KeepsInv
    <2>4. CASE req' = [req EXCEPT ![q] = [@ EXCEPT !.pc = "call", !.time = t,
                                                   !.seen.fs = NoEvent]]
      <3> DEFINE seen == [req[q].seen EXCEPT !.fs = NoEvent]
                 new == [req[q] EXCEPT !.pc = "call", !.time = t, !.seen = seen]
      <3>1. seen \in Rows /\ seen.version = req[q].seen.version
        BY <1>1 DEF Rows
      <3>2. new \in Requests /\ new.seen = seen
        BY <1>1, <2>1, <3>1 DEF Requests
      <3>3. req' = [req EXCEPT ![q] = new]
        BY <2>4, <1>1 DEF Requests
      <3>4. req' \in [Callers -> Requests] /\ \A r \in Callers : req'[r] = IF r = q THEN new ELSE req[r]
        BY <3>2, <3>3 DEF SInv, Shapes
      <3> HIDE DEF seen, new
      <3>5. \A r \in Callers : req'[r].pc # "idle" =>
               req[r].pc # "idle" /\ req'[r].seen.version = req[r].seen.version
        BY <1>1, <3>1, <3>2, <3>4
      <3> QED BY <1>1, <2>2, <3>4, <3>5, KeepsInv
    <2> QED BY <1>3, <2>3, <2>4
  <1> QED BY <1>2, <1>3 DEF StartLoads

LEMMA RequestCallsInv ==
  ASSUME SInv, NEW q \in Callers, RequestCalls(q)
  PROVE  SInv'
  <1>1. /\ req[q].pc # "idle" /\ req[q] \in Requests
        /\ row' = row /\ exec' = exec /\ asked' = asked
        /\ row' \in Rows /\ exec' \in [Consumers -> Executions]
    BY DEF RequestCalls, Is, SInv, Shapes
  <1>2. CASE End(q)
    BY <1>1, <1>2, EndKeeps, KeepsInv
  <1>3. ASSUME NEW e \in Events, req' = [req EXCEPT ![q] = [@ EXCEPT !.pc = "save", !.event = e]]
        PROVE  SInv'
    <2>1. [req[q] EXCEPT !.pc = "save", !.event = e] \in Requests
      BY <1>1 DEF Requests
    <2>2. /\ req' \in [Callers -> Requests]
          /\ \A r \in Callers : req'[r].pc # "idle" =>
                req[r].pc # "idle" /\ req'[r].seen.version = req[r].seen.version
      BY <1>1, <1>3, <2>1 DEF SInv, Shapes, Requests
    <2> QED BY <1>1, <2>2, KeepsInv
  <1> QED BY <1>2, <1>3 DEF RequestCalls

LEMMA EnqueueInv ==
  ASSUME SInv, NEW q \in Callers, Enqueue(q) \/ RequestDies(q) \/ Send(q)
  PROVE  SInv'
  <1>1. row' = row /\ exec' = exec /\ asked' = asked
    BY DEF Enqueue, RequestDies, Send, rowVars
  <1>2. row' \in Rows /\ exec' \in [Consumers -> Executions]
    BY <1>1 DEF SInv, Shapes
  <1>3. CASE End(q)
    BY <1>1, <1>2, <1>3, EndKeeps, KeepsInv
  <1>4. CASE UNCHANGED req
    BY <1>1, <1>4 DEF SInv, Shapes, Versions
  <1> QED BY <1>3, <1>4 DEF Enqueue, RequestDies, Send

-----------------------------------------------------------------------------
(* Invocations *)

\* What an invocation remembers keeps its shape when it proceeds or stops.
LEMMA ProceedShape ==
  ASSUME SInv, NEW c \in Consumers,
         \/ Stop(c)
         \/ \E p \in {"idle", "check", "load", "create", "update", "delete", "mark",
                      "notify", "retry", "fail", "review"} : Proceed(c, p) \/ Leave(c, p)
  PROVE  exec' \in [Consumers -> Executions]
  <1>1. NoExecution \in Executions
    BY NewRowShape DEF NoExecution, Executions
  <1> QED BY <1>1 DEF Stop, Proceed, Leave, NoExecution, SInv, Shapes, Executions

\* Steps that touch neither the row nor the requests.
LEMMA ExecOnly ==
  ASSUME SInv, UNCHANGED <<row, req, asked>>, exec' \in [Consumers -> Executions]
  PROVE  SInv'
  BY DEF SInv, Shapes, Versions

LEMMA CallInv ==
  ASSUME SInv, NEW c \in Consumers, Create(c) \/ Update(c) \/ Delete(c)
  PROVE  SInv'
  <1>1. UNCHANGED <<row, req, asked>>
    BY DEF Create, Update, Delete, Call
  <1>2. exec[c] \in Executions /\ exec[c].seen.cal \in Events \cup {NoEvent}
    BY DEF SInv, Shapes, Executions, Rows
  <1>3. CASE Leave(c, "fail") \/ Leave(c, "retry")
    BY <1>1, <1>3, ProceedShape, ExecOnly
  <1>4. ASSUME NEW e \in Events \cup {NoEvent},
               exec' = [exec EXCEPT ![c] = [@ EXCEPT !.pc = "mark", !.event = e]]
        PROVE  SInv'
    <2>1. [exec[c] EXCEPT !.pc = "mark", !.event = e] \in Executions
      BY <1>2 DEF Executions
    <2>2. exec' \in [Consumers -> Executions]
      BY <1>4, <2>1 DEF SInv, Shapes
    <2> QED BY <1>1, <2>2, ExecOnly
  <1>5. NoEvent \in Events \cup {NoEvent} /\ \A e \in Events : e \in Events \cup {NoEvent}
    OBVIOUS
  <1>6. CASE Create(c)
    BY <1>3, <1>4, <1>5, <1>6 DEF Create, Call
  <1>7. CASE Update(c)
    BY <1>2, <1>3, <1>4, <1>7 DEF Update, Call
  <1>8. CASE Delete(c)
    BY <1>3, <1>4, <1>5, <1>8 DEF Delete, Call
  <1> QED BY <1>6, <1>7, <1>8

LEMMA ConsumerWritesInv ==
  ASSUME SInv, NEW c \in Consumers,
         MarkScheduled(c) \/ MarkCancelled(c) \/ Review(c)
  PROVE  SInv'
  <1>1. exec[c] \in Executions /\ exec[c].seen.url \in BOOLEAN /\ row \in Rows
    BY DEF SInv, Shapes, Executions, Rows
  <1>2. /\ {"scheduled", "cancelled", "manual_review"} \subseteq Status
        /\ {"scheduled", "cancelled", "failed"} \subseteq ScheduleStatus
        /\ exec[c].event \in Events \cup {NoEvent}
    BY <1>1 DEF Status, ScheduleStatus, Executions
  <1>3. row' \in Rows /\ row'.version = row.version
    <2>1. CASE MarkScheduled(c)
      BY <1>1, <1>2, <2>1 DEF MarkScheduled, Rows
    <2>2. CASE MarkCancelled(c) \/ Review(c)
      BY <1>1, <1>2, <2>2 DEF MarkCancelled, Review, Rows
    <2> QED BY <2>1, <2>2
  <1>4. UNCHANGED <<req, asked>>
    BY DEF MarkScheduled, MarkCancelled, Review, RowStep
  <1>5. Stop(c) \/ Leave(c, "notify")
    BY DEF MarkScheduled, MarkCancelled, Review
  <1>6. exec' \in [Consumers -> Executions]
    BY <1>5, ProceedShape
  <1>7. /\ req' \in [Callers -> Requests]
        /\ \A r \in Callers : req'[r].pc # "idle" =>
              req[r].pc # "idle" /\ req'[r].seen.version = req[r].seen.version
    BY <1>4 DEF SInv, Shapes
  <1> QED BY <1>3, <1>4, <1>6, <1>7, KeepsInv

LEMMA ConsumerJobsInv ==
  ASSUME SInv, NEW c \in Consumers,
         \/ Check(c) \/ Load(c) \/ StatementFails(c) \/ Notify(c) \/ Retry(c) \/ Fail(c)
         \/ Crash(c) \/ \E m \in Messages : Claim(c, m)
  PROVE  SInv'
  <1>1. UNCHANGED <<row, req, asked>>
    BY DEF Check, Load, StatementFails, Notify, Retry, Fail, Crash, Claim, JobStep, RowStep, rowVars
  <1>2. CASE Load(c)
    <2>1. FirstStep(c) \in {"create", "update", "delete", "mark", "notify"}
      BY DEF FirstStep
    <2>2. [exec[c] EXCEPT !.pc = FirstStep(c), !.seen = row] \in Executions
      BY <2>1 DEF SInv, Shapes, Executions
    <2>3. exec' \in [Consumers -> Executions]
      BY <1>2, <2>2 DEF Load, SInv, Shapes
    <2> QED BY <1>1, <2>3, ExecOnly
  <1>3. CASE Leave(c, "review") \/ Leave(c, "fail")
    BY <1>1, <1>3, ProceedShape, ExecOnly
  <1>4. CASE Stop(c) \/ Proceed(c, "load") \/ Proceed(c, "check")
    BY <1>1, <1>4, ProceedShape, ExecOnly
  <1>5. CASE UNCHANGED exec
    BY <1>1, <1>5, ExecOnly DEF SInv, Shapes
  <1> QED BY <1>2, <1>3, <1>4, <1>5 DEF Check, StatementFails, Notify, Retry, Fail, Crash, Claim

LEMMA ScheduleInvStep ==
  ASSUME SInv, [Next]_vars
  PROVE  SInv'
  <1>1. ASSUME NEW q \in Callers, NEW kind \in Offered, NEW t \in Slots, Ask(q, kind, t)
        PROVE  SInv'
    BY <1>1, AskInv, OfferedAssumption
  <1>2. ASSUME NEW q \in Callers, CallerStep(q) PROVE SInv'
    BY <1>2, PrepareInv, RequestWritesInv, StartLoadsInv, RequestCallsInv, EnqueueInv
       DEF CallerStep
  <1>3. ASSUME NEW c \in Consumers, (\E m \in Messages : Claim(c, m)) \/ ConsumerStep(c) \/ Crash(c)
        PROVE  SInv'
    BY <1>3, CallInv, ConsumerWritesInv, ConsumerJobsInv DEF ConsumerStep
  <1>4. ASSUME NEW m \in Messages, Duplicate(m) PROVE SInv'
    BY <1>4 DEF Duplicate, JobStep, rowVars, SInv, Shapes, Versions
  <1>5. CASE UNCHANGED vars
    BY <1>5 DEF vars, rowVars, SInv, Shapes, Versions
  <1> QED BY <1>1, <1>2, <1>3, <1>4, <1>5 DEF Next

-----------------------------------------------------------------------------
(* The refinement *)

\* The job a request names is one of ScheduleJobs.
LEMMA KeyExists ==
  ASSUME SInv, NEW q \in Callers, Is(q, "insert", Automated)
  PROVE  [act |-> req[q].kind, version |-> req[q].seen.version + 1] \in ScheduleJobs
  <1>1. /\ req[q].seen.version \in 1..(MaxAsked + 1) /\ req[q].seen.version <= asked
        /\ asked \in 0..MaxAsked /\ req[q].kind \in Automated
    BY DEF Is, SInv, Shapes, Versions, Requests, Rows
  <1>2. req[q].seen.version + 1 \in 2..(MaxAsked + 1)
    BY <1>1, ScheduleAssumption
  <1> QED BY <1>1, <1>2 DEF ScheduleJobs

\* Every step of a request or an invocation is a step of the queue, or leaves
\* the jobs alone.
LEMMA ScheduleStepRefines ==
  ASSUME SInv, [Next]_vars
  PROVE  [QueueNext]_queueVars
  <1> USE DEF automationVars, queueVars
  <1>1. ASSUME NEW q \in Callers, Enqueue(q) PROVE QueueNext
    BY <1>1, KeyExists DEF Enqueue, QueueNext, Request
  <1>2. ASSUME NEW q \in Callers, Send(q) PROVE QueueNext
    BY <1>2 DEF Send, QueueNext
  <1>3. ASSUME NEW q \in Callers,
               \/ \E kind \in Offered, t \in Slots : Ask(q, kind, t)
               \/ PrepareSchedule(q) \/ PrepareCancel(q) \/ SaveResult(q)
               \/ ScheduleOffline(q) \/ CardWrites(q) \/ StartWrites(q) \/ StartLoads(q)
               \/ RequestCalls(q) \/ DirectSaves(q) \/ StartSaves(q) \/ RequestDies(q)
        PROVE  UNCHANGED queueVars
    BY <1>3 DEF Ask, PrepareSchedule, PrepareCancel, Prepare, SaveResult, ScheduleOffline,
       CardWrites, StartWrites, StartLoads, RequestCalls, DirectSaves, StartSaves, RequestDies,
       Write, Unbothered
  <1>4. ASSUME NEW c \in Consumers, NEW m \in Messages, Claim(c, m) PROVE QueueNext
    BY <1>4 DEF Claim, QueueNext, Deliver
  <1>5. ASSUME NEW c \in Consumers, Check(c) \/ Notify(c) \/ Retry(c) \/ Fail(c)
        PROVE  QueueNext \/ UNCHANGED queueVars
    <2>1. "cancelled" \in Outcomes /\ "succeeded" \in Outcomes /\ "partial" \in Outcomes
      BY DEF Outcomes
    <2>2. Conclude(c) \/ UNCHANGED queueVars
      BY <1>5, <2>1 DEF Check, Notify, Retry, Fail, Conclude
    <2> QED BY <2>2 DEF QueueNext
  <1>6. ASSUME NEW c \in Consumers,
               \/ Load(c) \/ Create(c) \/ Update(c) \/ Delete(c)
               \/ MarkScheduled(c) \/ MarkCancelled(c) \/ StatementFails(c) \/ Review(c)
        PROVE  UNCHANGED queueVars
    BY <1>6 DEF Load, Create, Update, Delete, Call, MarkScheduled, MarkCancelled, StatementFails,
       Review, RowStep
  <1>7. ASSUME NEW c \in Consumers, Crash(c) PROVE QueueNext \/ UNCHANGED queueVars
    BY <1>7 DEF Crash, QueueNext
  <1>8. ASSUME NEW m \in Messages, Duplicate(m) PROVE QueueNext
    BY <1>8 DEF Duplicate, QueueNext
  <1>9. CASE UNCHANGED vars
    BY <1>9 DEF vars
  <1> QED BY <1>1, <1>2, <1>3, <1>4, <1>5, <1>6, <1>7, <1>8, <1>9
          DEF Next, CallerStep, ConsumerStep

\* No request asks for more than the versions there are, and no version is
\* written that no request was made for.
THEOREM VersionsHold == Spec => []SInv
  <1>1. SInv /\ [Next]_vars => SInv'
    BY ScheduleInvStep
  <1> QED BY ScheduleInitInv, <1>1, PTL DEF Spec

\* The handlers of the schedule keep to the machinery of AutomationQueue, with
\* any number of requests, invocations, duplicates, crashes and lost answers.
THEOREM ScheduleRefinesQueue == Spec => QueueRefined
  <1>1. Init => QueueInit
    BY DEF Init
  <1>2. SInv /\ [Next]_vars => [QueueNext]_queueVars
    BY ScheduleStepRefines
  <1> QED BY <1>1, <1>2, VersionsHold, PTL DEF Spec, QueueRefined, QueueSafety

-----------------------------------------------------------------------------
(* What the schedule inherits from the queue *)

Queue == INSTANCE AutomationQueueProofs WITH Jobs <- ScheduleJobs

LEMMA QueueAssumed == Queue!AutomationAssumption
  BY JobsAssumption DEF AutomationAssumption, Queue!AutomationAssumption

\* The queue InterviewSchedule is built from is the one the theorems are about.
LEMMA SameQueue ==
  /\ QueueInit <=> Queue!QueueInit
  /\ [QueueNext]_queueVars <=> [Queue!QueueNext]_(Queue!queueVars)
  <1>1. QueueInit <=> Queue!QueueInit
    BY DEF QueueInit, Queue!QueueInit, Messages, Queue!Messages, Idle, Queue!Idle
  <1>2. ASSUME NEW c \in Consumers PROVE Die(c) <=> Queue!Die(c)
    BY DEF Die, Queue!Die, Batches, Queue!Batches, Delivered, Queue!Delivered,
       Redelivered, Queue!Redelivered, Messages, Queue!Messages, Idle, Queue!Idle
  <1>3. ASSUME NEW c \in Consumers, NEW m PROVE Reach(c, m) <=> Queue!Reach(c, m)
    BY DEF Reach, Queue!Reach, Batches, Queue!Batches, Delivered, Queue!Delivered,
       Messages, Queue!Messages, Idle, Queue!Idle
  <1>4. ASSUME NEW c \in Consumers PROVE RetryJob(c) <=> Queue!RetryJob(c)
    BY DEF RetryJob, Queue!RetryJob, Settle, Queue!Settle, Redelivered, Queue!Redelivered,
       Messages, Queue!Messages, Idle, Queue!Idle
  <1>5. [QueueNext]_queueVars <=> [Queue!QueueNext]_(Queue!queueVars)
    BY Zenon, <1>2, <1>3, <1>4 DEF QueueNext, Queue!QueueNext, Request, Queue!Request, Deliver,
       Queue!Deliver, Conclude, Queue!Conclude, CreateJob, Queue!CreateJob,
       FindJob, Queue!FindJob, SendMessage, Queue!SendMessage, LoseMessage,
       Queue!LoseMessage, DuplicateMessage, Queue!DuplicateMessage, ClaimJob,
       Queue!ClaimJob, SkipJob, Queue!SkipJob, Claimable, Queue!Claimable,
       Settle, Queue!Settle, CompleteJob, Queue!CompleteJob, FailJob,
       Queue!FailJob, Outcomes, Queue!Outcomes, Messages, Queue!Messages, Idle, Queue!Idle,
       queueVars, Queue!queueVars
  <1> QED BY <1>1, <1>5

\* What the invariant of the queue says of the invocations.
LEMMA RunnerAlone ==
  ASSUME Queue!QInv, NEW j \in ScheduleJobs
  PROVE  Cardinality(Executing(j)) <= 1 /\ (Executing(j) # {} => jstat[j] = "running")
  <1>1. \A c \in Executing(j) : c \in Consumers /\ run[c] # Queue!Idle /\ run[c].job = j
    BY QueueAssumed DEF Executing, Queue!Idle, Queue!AutomationAssumption
  <1>2. CASE Executing(j) = {}
    BY <1>2, FS_EmptySet
  <1>3. CASE Executing(j) # {}
    <2> PICK c \in Executing(j) : TRUE
      BY <1>3
    <2>1. Executing(j) = {c}
      BY <1>1 DEF Queue!QInv, Queue!Alone
    <2>2. Cardinality(Executing(j)) = 1
      BY <2>1, FS_Singleton
    <2> QED BY <1>1, <2>2 DEF Queue!QInv, Queue!Marked
  <1> QED BY <1>2, <1>3

\* An interview's date is never worked on by two invocations of one job, and a
\* job that is worked on is marked running, whatever the queue delivers.
THEOREM ScheduleOneRunner == Spec => []OneRunner
  <1>1. Queue!QueueSafety => []Queue!QInv
    BY Queue!QueueInvHolds, QueueAssumed
  <1>2. QueueSafety => Queue!QueueSafety
    BY SameQueue, PTL DEF QueueSafety, Queue!QueueSafety
  <1>3. Spec => QueueSafety
    BY ScheduleRefinesQueue DEF QueueRefined
  <1>4. Queue!QInv => OneRunner
    BY RunnerAlone DEF OneRunner
  <1> QED BY <1>1, <1>2, <1>3, <1>4, PTL

-----------------------------------------------------------------------------
(* One event, told by the version check *)

\* Job j was created; a request is about to create one; an invocation is past
\* the version check of the job it holds; it is about to mark the row scheduled.
Made(j) == jstat[j] # "none"
Inserting(q) == req[q].pc = "insert"
Past == {"load", "create", "update", "delete", "mark", "notify", "retry", "fail"}
Working(c) == exec[c].pc \in Past
Marking(c) == exec[c].pc = "mark" /\ Act(c) # "cancel"

\* A time is given before a job is created that needs one.
Timed ==
    /\ \A q \in Callers : req[q].pc # "idle" => req[q].time \in Slots
    /\ \A q \in Callers : Inserting(q) /\ req[q].kind # "cancel" => row.slot \in Slots
    /\ \A j \in ScheduleJobs : Made(j) /\ j.act # "cancel" => row.slot \in Slots
    /\ \A c \in Consumers : exec[c].pc \in {"create", "update"} => exec[c].seen.slot \in Slots
Held == \A c \in Consumers : exec[c].pc \in {"idle", "review"} <=> run[c] = Idle
Kept ==
    /\ calendar \in [Events -> Slots \cup {"free", "gone"}]
    /\ lost \in 0..MaxLost /\ disturbed \in BOOLEAN /\ orphans \subseteq Events
TInv == Kept /\ Held /\ Timed

\* Nothing disturbed: a version belongs to one request and to its one job.
Quiet ==
    \A q \in Callers : req[q].pc # "idle" =>
        \/ req[q].pc = "write" /\ req[q].kind = "result"
        \/ /\ req[q].pc = "write" /\ req[q].kind \in Automated
           /\ req[q].seen.status # "cancelled"
        \/ req[q].pc = "insert" /\ req[q].kind \in Automated
Keys ==
    /\ \A j \in ScheduleJobs : Made(j) => j.version <= row.version
    /\ \A i, j \in ScheduleJobs : Made(i) /\ Made(j) /\ i.version = j.version => i = j
    /\ \A q \in Callers : Inserting(q) =>
          /\ req[q].seen.version < row.version
          /\ \A j \in ScheduleJobs : Made(j) => j.version # req[q].seen.version + 1
    /\ \A p, q \in Callers : Inserting(p) /\ Inserting(q) /\ p # q =>
          req[p].seen.version # req[q].seen.version

\* An invocation past its check holds the newest job and the row it loaded.
Current ==
    \A c \in Consumers : Working(c) =>
        /\ run[c].job.version = row.version
        /\ exec[c].pc \in {"create", "update", "delete", "mark"} =>
              exec[c].seen.slot = row.slot /\ exec[c].seen.cal = row.cal
        /\ exec[c].pc = "create" => Act(c) # "cancel" /\ row.cal = NoEvent
        /\ exec[c].pc = "update" => Act(c) = "reschedule" /\ row.cal \in Events
        /\ exec[c].pc = "delete" => Act(c) = "cancel"

\* The live event, but for the orphans, is the row's, or the one about to become
\* the row's: a new one, or the row's own, moved.
KnownLive == LiveEvents \ orphans
Known ==
    /\ \A e \in KnownLive : e = row.cal \/ \E c \in Consumers : Marking(c) /\ exec[c].event = e
    /\ \A c \in Consumers : Marking(c) =>
          /\ exec[c].event \in Events /\ calendar[exec[c].event] = row.slot
          /\ KnownLive \subseteq {exec[c].event}
          /\ exec[c].seen.cal # NoEvent => exec[c].event = exec[c].seen.cal
Agrees == row.cal # NoEvent /\ calendar[row.cal] = row.slot
CancelMade == \E j \in ScheduleJobs : Made(j) /\ j.version = row.version /\ j.act = "cancel"
Outcome ==
    /\ \A c \in Consumers :
          /\ exec[c].pc \in {"mark", "notify"} /\ Act(c) = "cancel" => KnownLive = {}
          /\ exec[c].pc = "notify" /\ Act(c) = "reschedule" => Agrees
    /\ DoneMeansAgreed({"reschedule"})
    /\ row.status = "cancelled" \/ row.sched = "cancelled" => CancelMade
    /\ row.sched = "cancelled" => KnownLive = {}
Ordered == Quiet /\ Keys /\ Current /\ Known /\ Outcome
EInv == ~disturbed => Ordered

-----------------------------------------------------------------------------
(* Types *)

\* What is known of the queue: AutomationQueueProofs shows it of every state.
QFacts ==
    /\ QueueTypeOK
    /\ \A c \in Consumers : run[c] # Idle => jstat[run[c].job] = "running"
    /\ \A c, d \in Consumers :
          run[c] # Idle /\ run[d] # Idle /\ run[c].job = run[d].job => c = d

LEMMA QueueKnown == Spec => []QFacts
  <1>1. Queue!QueueSafety => []Queue!QInv
    BY Queue!QueueInvHolds, QueueAssumed
  <1>2. QueueSafety => Queue!QueueSafety
    BY SameQueue, PTL DEF QueueSafety, Queue!QueueSafety
  <1>3. Spec => QueueSafety
    BY ScheduleRefinesQueue DEF QueueRefined
  <1>4. Queue!QInv => QFacts
    BY DEF QFacts, Queue!QInv, Queue!Marked, Queue!Alone, QueueTypeOK, Queue!QueueTypeOK,
       Messages, Queue!Messages, Idle, Queue!Idle, JobStatus, Queue!JobStatus
  <1> QED BY <1>1, <1>2, <1>3, <1>4, PTL

\* An invocation that holds a message holds one of a job that was made.
LEMMA HeldJob ==
  ASSUME QFacts, NEW c \in Consumers, run[c] # Idle
  PROVE  run[c] \in Messages /\ run[c].job \in ScheduleJobs /\ Made(run[c].job)
  BY DEF QFacts, QueueTypeOK, Messages, Made

\* Settling a job or claiming one makes none and unmakes none.
LEMMA SettleMakes ==
  ASSUME QFacts, NEW c \in Consumers, NEW s, s # "none", Settle(c, s)
  PROVE  \A j \in ScheduleJobs : Made(j)' <=> Made(j)
  <1>1. run[c].job \in ScheduleJobs /\ Made(run[c].job)
    BY HeldJob DEF Settle
  <1> QED BY <1>1 DEF Settle, Made, QFacts, QueueTypeOK

LEMMA ConcludeMakes ==
  ASSUME QFacts, NEW c \in Consumers, Conclude(c)
  PROVE  \A j \in ScheduleJobs : Made(j)' <=> Made(j)
  <1>1. \A s \in Outcomes : s # "none"
    BY DEF Outcomes
  <1>2. \E s : s # "none" /\ Settle(c, s)
    BY <1>1 DEF Conclude, CompleteJob, FailJob, RetryJob
  <1> QED BY <1>2, SettleMakes

LEMMA ClaimMakes ==
  ASSUME QFacts, NEW c \in Consumers, NEW m \in Messages, ClaimJob(c, m)
  PROVE  \A j \in ScheduleJobs : Made(j)' <=> Made(j)
  BY DEF ClaimJob, Claimable, Made, QFacts, QueueTypeOK, Messages

LEMMA ConsumerMakes ==
  ASSUME QFacts, NEW c \in Consumers,
         ConsumerStep(c) \/ Crash(c) \/ \E m \in Messages : Claim(c, m)
  PROVE  \A j \in ScheduleJobs : Made(j)' <=> Made(j)
  <1>1. \/ UNCHANGED jstat \/ Conclude(c) \/ \E m \in Messages : ClaimJob(c, m)
    <2>1. "cancelled" \in Outcomes /\ "succeeded" \in Outcomes /\ "partial" \in Outcomes
      BY DEF Outcomes
    <2> QED BY <2>1 DEF ConsumerStep, Crash, Claim, Check, Load, Create, Update, Delete,
       MarkScheduled, MarkCancelled, StatementFails, Notify, Retry, Fail, Review, Call, RowStep,
       Conclude, Die, SkipJob, automationVars
  <1> QED BY <1>1, ConcludeMakes, ClaimMakes DEF Made

-----------------------------------------------------------------------------
\* A created event has one of the slots; nothing else changes its type.
LEMMA CalendarType ==
  ASSUME Kept, NEW e, NEW t \in Slots,
         NewEvent(e, t) \/ MoveEvent(e, t) \/ DeleteEvent(e) \/ UNCHANGED calendar
  PROVE  calendar' \in [Events -> Slots \cup {"free", "gone"}]
  BY DEF Kept, NewEvent, MoveEvent, DeleteEvent

LEMMA KeptStep ==
  ASSUME SInv, TInv, [Next]_vars
  PROVE  Kept'
  <1> USE ScheduleAssumption
  <1>1. CASE UNCHANGED <<calendar, lost, historyVars>>
    BY <1>1 DEF TInv, Kept, historyVars
  <1>2. lost' = lost \/ AnswerLost => lost' \in 0..MaxLost
    BY DEF TInv, Kept, AnswerLost
  <1>3. ASSUME NEW q \in Callers, NEW kind \in Offered, NEW t \in Slots, Ask(q, kind, t)
        PROVE  Kept'
    BY <1>3 DEF Ask, rowVars, TInv, Kept
  <1>4. ASSUME NEW q \in Callers, PrepareSchedule(q) \/ PrepareCancel(q) PROVE Kept'
    BY <1>4 DEF PrepareSchedule, PrepareCancel, Prepare, Unbothered, TInv, Kept
  <1>5. ASSUME NEW q \in Callers, RequestCalls(q) PROVE Kept'
    <2>1. req[q].time \in Slots
      BY <1>5 DEF RequestCalls, Is, TInv, Timed
    <2>2. calendar' \in [Events -> Slots \cup {"free", "gone"}]
      BY <1>5, <2>1, CalendarType DEF RequestCalls, TInv
    <2>3. lost' \in 0..MaxLost /\ disturbed' \in BOOLEAN /\ orphans' \subseteq Events
      BY <1>2, <1>5 DEF RequestCalls, Answered, TInv, Kept, historyVars
    <2> QED BY <2>2, <2>3 DEF Kept
  <1>6. ASSUME NEW c \in Consumers, Create(c) \/ Update(c) \/ Delete(c) PROVE Kept'
    <2>1. exec[c].pc \in {"create", "update"} => exec[c].seen.slot \in Slots
      BY DEF TInv, Timed
    <2>2. calendar' \in [Events -> Slots \cup {"free", "gone"}]
      <3>1. CASE Create(c)
        BY <2>1, <3>1, CalendarType DEF Create, Call, At, TInv
      <3>2. CASE Update(c)
        BY <2>1, <3>2, CalendarType DEF Update, Call, At, TInv
      <3>3. CASE Delete(c)
        BY <3>3 DEF Delete, Call, DeleteEvent, TInv, Kept
      <3> QED BY <1>6, <3>1, <3>2, <3>3
    <2>3. lost' \in 0..MaxLost /\ disturbed' \in BOOLEAN
      BY <1>2, <1>6 DEF Create, Update, Delete, Call, Answered, TInv, Kept
    <2>4. orphans' \subseteq Events
      BY <1>6 DEF Create, Update, Delete, TInv, Kept
    <2> QED BY <2>2, <2>3, <2>4 DEF Kept
  <1>7. ASSUME NEW q \in Callers,
               \/ Enqueue(q) \/ Send(q) \/ SaveResult(q) \/ ScheduleOffline(q) \/ CardWrites(q)
               \/ StartWrites(q) \/ StartLoads(q) \/ DirectSaves(q) \/ StartSaves(q)
               \/ RequestDies(q)
        PROVE  UNCHANGED <<calendar, lost, historyVars>>
    BY <1>7 DEF Enqueue, Send, SaveResult, ScheduleOffline, CardWrites, StartWrites, StartLoads,
       DirectSaves, StartSaves, RequestDies, Write, Unbothered, rowVars, historyVars
  <1>8. ASSUME NEW c \in Consumers,
               \/ \E m \in Messages : Claim(c, m)
               \/ Check(c) \/ Load(c) \/ MarkScheduled(c) \/ MarkCancelled(c) \/ Notify(c)
               \/ Retry(c) \/ Fail(c) \/ Review(c)
        PROVE  UNCHANGED <<calendar, lost, historyVars>>
    BY <1>8 DEF Claim, Check, Load, MarkScheduled, MarkCancelled, Notify, Retry, Fail, Review,
       JobStep, RowStep, rowVars, historyVars
  <1>9. ASSUME NEW m \in Messages, Duplicate(m) PROVE UNCHANGED <<calendar, lost, historyVars>>
    BY <1>9 DEF Duplicate, JobStep, rowVars, historyVars
  <1>10. CASE UNCHANGED vars
    BY <1>1, <1>10 DEF vars, rowVars
  <1>11. ASSUME NEW c \in Consumers, StatementFails(c) \/ Crash(c) PROVE Kept'
    BY <1>11 DEF StatementFails, Crash, Forget, Unrecorded, rowVars, TInv, Kept
  <1> QED BY <1>1, <1>3, <1>4, <1>5, <1>6, <1>7, <1>8, <1>9, <1>10, <1>11 DEF Next, CallerStep, ConsumerStep

\* Requests and duplicates touch neither what invocations hold nor where they are.
LEMMA CallerKeepsHeld ==
  ASSUME [Next]_vars, ~\E c \in Consumers : ConsumerStep(c) \/ Crash(c) \/ \E m \in Messages : Claim(c, m)
  PROVE  UNCHANGED <<run, exec>>
  <1>1. ASSUME NEW q \in Callers,
               (\E kind \in Offered, t \in Slots : Ask(q, kind, t)) \/ CallerStep(q)
        PROVE  UNCHANGED <<run, exec>>
    BY <1>1 DEF Ask, CallerStep, PrepareSchedule, PrepareCancel, Prepare, Enqueue, Send,
       SaveResult, ScheduleOffline, CardWrites, StartWrites, StartLoads, RequestCalls, DirectSaves,
       StartSaves, RequestDies, Write, Unbothered, automationVars, CreateJob, FindJob, queueVars,
       SendMessage, LoseMessage
  <1>2. ASSUME NEW m \in Messages, Duplicate(m) PROVE UNCHANGED <<run, exec>>
    BY <1>2 DEF Duplicate, DuplicateMessage
  <1>3. CASE UNCHANGED vars
    BY <1>3 DEF vars, automationVars
  <1> QED BY <1>1, <1>2, <1>3 DEF Next

\* What a step of an invocation leaves of what it and the others remember.
LEMMA Proceeds ==
  ASSUME SInv, NEW c \in Consumers, NEW p, Proceed(c, p)
  PROVE  /\ exec'[c].pc = p /\ exec'[c].seen = exec[c].seen /\ exec'[c].event = exec[c].event
         /\ \A d \in Consumers \ {c} : exec'[d] = exec[d]
  BY DEF SInv, Shapes, Proceed, Executions

LEMMA Leaves ==
  ASSUME SInv, NEW c \in Consumers, NEW p, Leave(c, p)
  PROVE  /\ exec'[c].pc = p
         /\ \A d \in Consumers \ {c} : exec'[d] = exec[d]
  BY DEF SInv, Shapes, Leave, NoExecution

LEMMA Answers ==
  ASSUME SInv, NEW c \in Consumers, NEW e,
         exec' = [exec EXCEPT ![c] = [@ EXCEPT !.pc = "mark", !.event = e]]
  PROVE  /\ exec'[c].pc = "mark" /\ exec'[c].seen = exec[c].seen /\ exec'[c].event = e
         /\ \A d \in Consumers \ {c} : exec'[d] = exec[d]
  BY DEF SInv, Shapes, Executions

LEMMA Stops ==
  ASSUME SInv, NEW c \in Consumers, Stop(c)
  PROVE  /\ exec'[c].pc = "idle"
         /\ \A d \in Consumers \ {c} : exec'[d] = exec[d]
  BY DEF SInv, Shapes, Stop, NoExecution

LEMMA HeldStep ==
  ASSUME SInv, TInv, QFacts, [Next]_vars
  PROVE  Held'
  <1> USE DEF Held, TInv, SInv, Shapes, QFacts, QueueTypeOK
  <1>1. ASSUME NEW c \in Consumers, NEW m \in Messages, Claim(c, m) PROVE Held'
    <2>1. m # Idle
      BY JobsAssumption DEF AutomationAssumption, Messages, Idle
    <2> QED BY <1>1, <2>1 DEF Claim, ClaimJob, SkipJob, At, Proceed, Executions
  <1>2. ASSUME NEW c \in Consumers,
               Check(c) \/ StatementFails(c) \/ Notify(c) \/ Retry(c) \/ Fail(c) \/ Crash(c)
        PROVE  Held'
    <2>1. CASE UNCHANGED run /\ exec[c].pc \notin {"idle", "review"}
               /\ (Proceed(c, "load") \/ Leave(c, "fail"))
      BY <2>1 DEF Proceed, Leave, NoExecution, Executions
    <2>2. CASE run' = [run EXCEPT ![c] = Idle] /\ \E p \in {"idle", "review"} :
                 exec' = [exec EXCEPT ![c] = [NoExecution EXCEPT !.pc = p]]
      BY <2>2 DEF NoExecution
    <2>3. Stop(c) => \E p \in {"idle", "review"} :
                 exec' = [exec EXCEPT ![c] = [NoExecution EXCEPT !.pc = p]]
      BY DEF Stop, NoExecution
    <2>4. CASE Check(c)
      BY <2>1, <2>2, <2>3, <2>4 DEF Check, CompleteJob, Settle, At, automationVars
    <2>5. CASE Notify(c)
      BY <2>1, <2>2, <2>3, <2>5 DEF Notify, CompleteJob, Settle, At, automationVars
    <2>6. CASE Retry(c)
      BY <2>1, <2>2, <2>3, <2>6 DEF Retry, RetryJob, Settle, At, automationVars
    <2>7. CASE Fail(c)
      BY <2>2, <2>3, <2>7 DEF Fail, FailJob, Settle, Leave
    <2>8. CASE StatementFails(c)
      BY <2>1, <2>8 DEF StatementFails, automationVars
    <2>9. CASE Crash(c)
      <3>1. run' = [run EXCEPT ![c] = Idle]
        <4>1. CASE Die(c)
          BY <4>1 DEF Die
        <4>2. CASE At(c, "review") /\ UNCHANGED automationVars
          BY <4>2 DEF At, automationVars
        <4> QED BY <2>9, <4>1, <4>2 DEF Crash
      <3> QED BY <2>2, <2>3, <2>9, <3>1 DEF Crash
    <2> QED BY <1>2, <2>4, <2>5, <2>6, <2>7, <2>8, <2>9
  <1>3. ASSUME NEW c \in Consumers,
               \/ Load(c) \/ Create(c) \/ Update(c) \/ Delete(c)
               \/ MarkScheduled(c) \/ MarkCancelled(c)
        PROVE  Held'
    <2>1. run' = run /\ exec[c].pc \notin {"idle", "review"}
      BY <1>3 DEF Load, Create, Update, Delete, Call, MarkScheduled, MarkCancelled, RowStep, At,
         automationVars
    <2>2. /\ exec'[c].pc \notin {"idle", "review"}
          /\ \A d \in Consumers \ {c} : exec'[d] = exec[d]
      <3>1. CASE Load(c)
        BY <3>1 DEF Load, FirstStep, Executions
      <3>2. CASE \E p \in {"fail", "retry", "notify"} : Leave(c, p)
        BY <3>2, Leaves
      <3>3. CASE Create(c) \/ Update(c) \/ Delete(c)
        BY <3>2, <3>3, Answers DEF Create, Update, Delete, Call
      <3>4. CASE MarkScheduled(c) \/ MarkCancelled(c)
        BY <3>2, <3>4 DEF MarkScheduled, MarkCancelled
      <3> QED BY <1>3, <3>1, <3>3, <3>4
    <2> QED BY <2>1, <2>2
  <1>4. ASSUME NEW c \in Consumers, Review(c) PROVE Held'
    BY <1>4 DEF Review, RowStep, Stop, NoExecution, At, automationVars
  <1>5. CASE UNCHANGED <<run, exec>>
    BY <1>5
  <1> QED BY <1>1, <1>2, <1>3, <1>4, <1>5, CallerKeepsHeld DEF ConsumerStep

-----------------------------------------------------------------------------
\* What a request that ends or goes on leaves of the others.
LEMMA Ends ==
  ASSUME SInv, NEW q \in Callers, End(q)
  PROVE  req'[q].pc = "idle" /\ \A p \in Callers \ {q} : req'[p] = req[p]
  BY DEF SInv, Shapes, End, NoRequest

LEMMA Continues ==
  ASSUME SInv, NEW q \in Callers, NEW p, Continue(q, p)
  PROVE  /\ req'[q].pc = p /\ req'[q].kind = req[q].kind /\ req'[q].time = req[q].time
         /\ req'[q].seen = req[q].seen
         /\ \A r \in Callers \ {q} : req'[r] = req[r]
  BY DEF SInv, Shapes, Continue, Requests

\* Only an automated request gives another time.
LEMMA AskTimed ==
  ASSUME SInv, TInv, NEW q \in Callers, NEW kind \in Offered, NEW t \in Slots, Ask(q, kind, t)
  PROVE  Timed'
  <1>1. /\ req'[q].time = t /\ req'[q].pc # "insert"
        /\ \A p \in Callers \ {q} : req'[p] = req[p]
    BY DEF SInv, Shapes, Ask
  <1>2. UNCHANGED <<row, jstat, exec>>
    BY DEF Ask, rowVars, automationVars
  <1> QED BY <1>1, <1>2 DEF TInv, Timed, Inserting, Made

LEMMA PrepareTimed ==
  ASSUME SInv, TInv, NEW q \in Callers, PrepareSchedule(q) \/ PrepareCancel(q)
  PROVE  Timed'
  <1>1. /\ UNCHANGED <<jstat, exec>> /\ Continue(q, "insert") /\ req[q].time \in Slots
        /\ row \in Rows
    BY DEF PrepareSchedule, PrepareCancel, Prepare, Unbothered, Is, TInv, Timed, automationVars,
       SInv, Shapes
  <1>2. row'.slot \in Slots \/ (req[q].kind = "cancel" /\ row'.slot = row.slot)
    <2>1. CASE PrepareSchedule(q)
      <3>1. row' = [row EXCEPT !.slot = req[q].time, !.shown = req[q].time,
                               !.sched = "queued", !.version = req[q].seen.version + 1]
        BY <2>1 DEF PrepareSchedule, Prepare
      <3> QED BY <1>1, <3>1 DEF Rows
    <2>2. CASE PrepareCancel(q)
      BY <1>1, <2>2 DEF PrepareCancel, Prepare, Is, Rows
    <2> QED BY <2>1, <2>2
  <1>3. row.slot \in Slots => row'.slot \in Slots
    BY <1>2
  <1> QED BY <1>1, <1>2, <1>3, Continues DEF TInv, Timed, Inserting, Made

LEMMA EnqueueTimed ==
  ASSUME SInv, TInv, QFacts, NEW q \in Callers, Enqueue(q)
  PROVE  Timed'
  <1> DEFINE j == [act |-> req[q].kind, version |-> req[q].seen.version + 1]
  <1>1. j \in ScheduleJobs /\ Inserting(q)
    BY KeyExists DEF Enqueue, Is, Inserting
  <1>2. \A k \in ScheduleJobs : Made(k)' => Made(k) \/ k = j
    BY <1>1 DEF Enqueue, CreateJob, FindJob, queueVars, Made, QFacts, QueueTypeOK
  <1>3. UNCHANGED <<row, exec>> /\ End(q)
    BY DEF Enqueue, rowVars
  <1> QED BY <1>1, <1>2, <1>3, Ends DEF TInv, Timed, Inserting

\* The others leave the time and the jobs alone.
LEMMA RequestTimed ==
  ASSUME SInv, TInv, NEW q \in Callers,
         \/ Send(q) \/ SaveResult(q) \/ ScheduleOffline(q) \/ CardWrites(q)
         \/ StartWrites(q) \/ StartLoads(q) \/ RequestCalls(q) \/ DirectSaves(q)
         \/ StartSaves(q) \/ RequestDies(q)
  PROVE  Timed'
  <1>1. row'.slot = row.slot
    BY DEF Send, SaveResult, ScheduleOffline, CardWrites, StartWrites, StartLoads, RequestCalls,
       DirectSaves, StartSaves, RequestDies, Write, rowVars, SInv, Shapes, Rows
  <1>2. UNCHANGED <<jstat, exec>>
    BY DEF Send, SaveResult, ScheduleOffline, CardWrites, StartWrites, StartLoads, RequestCalls,
       DirectSaves, StartSaves, RequestDies, Write, Unbothered, automationVars, SendMessage,
       LoseMessage
  <1>3. /\ \A p \in Callers \ {q} : req'[p] = req[p]
        /\ req'[q].pc # "idle" => req'[q].time \in Slots
        /\ Inserting(q)' => Inserting(q) /\ req' = req
    <2>1. CASE End(q)
      BY <2>1, Ends DEF Inserting
    <2>2. CASE UNCHANGED req
      BY <2>2 DEF TInv, Timed, Inserting
    <2>3. CASE req[q].pc # "idle" /\ \E p \in {"call", "load"} : Continue(q, p)
      BY <2>3, Continues DEF TInv, Timed, Inserting
    <2>4. CASE StartLoads(q)
      <3>1. ASSUME NEW t \in {req[q].time, row.shown} \ {NoEvent},
                   req' = [req EXCEPT ![q] = [@ EXCEPT !.pc = "call", !.time = t,
                                                       !.seen.fs = NoEvent]]
            PROVE  /\ \A p \in Callers \ {q} : req'[p] = req[p]
                   /\ req'[q].time = t /\ req'[q].pc = "call"
        BY <3>1 DEF SInv, Shapes, Requests
      <3>2. \A t \in {req[q].time, row.shown} \ {NoEvent} : t \in Slots
        BY DEF SInv, Shapes, Requests, Rows, Times
      <3> QED BY <2>1, <2>4, <3>1, <3>2 DEF StartLoads, Inserting
    <2>5. CASE RequestCalls(q)
      <3>1. ASSUME NEW e, req' = [req EXCEPT ![q] = [@ EXCEPT !.pc = "save", !.event = e]]
            PROVE  /\ \A p \in Callers \ {q} : req'[p] = req[p]
                   /\ req'[q].time = req[q].time /\ req'[q].pc = "save"
        BY <3>1 DEF SInv, Shapes, Requests
      <3> QED BY <2>1, <2>5, <3>1 DEF RequestCalls, Is, TInv, Timed, Inserting
    <2> QED BY <2>1, <2>2, <2>3, <2>4, <2>5 DEF Send, SaveResult, ScheduleOffline, CardWrites,
            StartWrites, DirectSaves, StartSaves, RequestDies, Is
  <1> QED BY <1>1, <1>2, <1>3 DEF TInv, Timed, Inserting, Made

LEMMA ConsumerTimed ==
  ASSUME SInv, TInv, QFacts, NEW c \in Consumers,
         ConsumerStep(c) \/ Crash(c) \/ \E m \in Messages : Claim(c, m)
  PROVE  Timed'
  <1>1. row'.slot = row.slot /\ req' = req
    BY DEF ConsumerStep, Crash, Claim, Check, Load, Create, Update, Delete, MarkScheduled,
       MarkCancelled, StatementFails, Notify, Retry, Fail, Review, Call, RowStep, JobStep, rowVars, SInv, Shapes,
       Rows
  <1>2. \A j \in ScheduleJobs : Made(j)' <=> Made(j)
    BY ConsumerMakes
  <1>3. ASSUME NEW d \in Consumers, exec'[d].pc \in {"create", "update"}
        PROVE  exec'[d].seen.slot \in Slots
    <2>1. CASE Load(c)
      <3>1. CASE d = c
        <4>1. exec'[c].seen = row /\ exec'[c].pc = FirstStep(c)
          BY <2>1 DEF Load, SInv, Shapes, Executions
        <4>2. Act(c) # "cancel"
          BY <1>3, <3>1, <4>1 DEF FirstStep
        <4>3. run[c] # Idle
          BY <2>1 DEF Load, At, TInv, Held
        <4>4. row.slot \in Slots
          BY <4>2, <4>3, HeldJob DEF TInv, Timed, Act
        <4> QED BY <3>1, <4>1, <4>4
      <3>2. CASE d # c
        BY <1>3, <2>1, <3>2 DEF Load, SInv, Shapes, TInv, Timed
      <3> QED BY <3>1, <3>2
    <2>2. CASE \/ \E p \in {"check", "load"} : Proceed(c, p)
               \/ \E p \in {"notify", "retry", "fail", "review"} : Leave(c, p)
      BY <1>3, <2>2, Proceeds, Leaves DEF TInv, Timed
    <2>3. CASE Stop(c)
      BY <1>3, <2>3, Stops DEF TInv, Timed
    <2>4. CASE exec' = exec
      BY <1>3, <2>4 DEF TInv, Timed
    <2>5. ASSUME NEW e, exec' = [exec EXCEPT ![c] = [@ EXCEPT !.pc = "mark", !.event = e]]
          PROVE  exec'[d].seen.slot \in Slots
      BY <1>3, <2>5, Answers DEF TInv, Timed
    <2>6. CASE Fail(c)
      BY <1>3, <2>6 DEF Fail, Leave, NoExecution, SInv, Shapes, TInv, Timed
    <2> QED BY <2>1, <2>2, <2>3, <2>4, <2>5, <2>6 DEF ConsumerStep, Crash, Claim, Check, Create,
            Update, Delete, MarkScheduled, MarkCancelled, StatementFails, Notify, Retry, Review, Call
  <1> QED BY <1>1, <1>2, <1>3 DEF TInv, Timed, Inserting

LEMMA TimedStep ==
  ASSUME SInv, TInv, QFacts, [Next]_vars
  PROVE  Timed'
  <1>1. ASSUME NEW m \in Messages, Duplicate(m) PROVE Timed'
    BY <1>1 DEF Duplicate, DuplicateMessage, JobStep, rowVars, TInv, Timed, Inserting, Made
  <1>2. CASE UNCHANGED vars
    BY <1>2 DEF vars, rowVars, automationVars, TInv, Timed, Inserting, Made
  <1> QED BY <1>1, <1>2, AskTimed, PrepareTimed, EnqueueTimed, RequestTimed, ConsumerTimed
          DEF Next, CallerStep

LEMMA TInit == Init => TInv
  <1> SUFFICES ASSUME Init PROVE TInv
    OBVIOUS
  <1>1. Kept
    <2>1. calendar \in [Events -> Slots \cup {"free", "gone"}] /\ lost \in 0..MaxLost
      BY ScheduleAssumption DEF Init
    <2>2. disturbed \in BOOLEAN /\ orphans \subseteq Events
      BY Zenon DEF Init
    <2> QED BY <2>1, <2>2 DEF Kept
  <1>2. Held
    BY DEF Init, QueueInit, Held, NoExecution
  <1>3. \A j \in ScheduleJobs : ~Made(j)
    BY DEF Init, QueueInit, Made
  <1>4. \A q \in Callers : req[q].pc = "idle"
    BY DEF Init, NoRequest
  <1>5. \A c \in Consumers : exec[c].pc = "idle"
    BY DEF Init, NoExecution
  <1> QED BY <1>1, <1>2, <1>3, <1>4, <1>5 DEF TInv, Timed, Inserting

LEMMA TypesKnown == Spec => [](SInv /\ TInv /\ QFacts)
  <1>1. SInv /\ TInv /\ QFacts /\ [Next]_vars => TInv'
    BY KeptStep, HeldStep, TimedStep DEF TInv
  <1> QED BY TInit, <1>1, VersionsHold, QueueKnown, PTL DEF Spec

\* Every variable keeps its type: no event is created without a time, whatever
\* requests, invocations, duplicates and lost answers do.
THEOREM ScheduleTypes == Spec => []TypeOK
  <1>1. SInv /\ TInv /\ QFacts => TypeOK
    BY DEF SInv, Shapes, TInv, Kept, QFacts, TypeOK
  <1> QED BY <1>1, TypesKnown, PTL

-----------------------------------------------------------------------------
(* Undisturbed behaviours: the requests *)

\* What disturbs once disturbs for good.
LEMMA DisturbanceStays ==
  ASSUME SInv, TInv, [Next]_vars, ~disturbed'
  PROVE  ~disturbed
  <1>1. ASSUME NEW q \in Callers, CallerStep(q) PROVE disturbed => disturbed'
    BY <1>1 DEF CallerStep, PrepareSchedule, PrepareCancel, Prepare, Enqueue, Send,
       SaveResult, ScheduleOffline, CardWrites, StartWrites, StartLoads, RequestCalls,
       DirectSaves, StartSaves, RequestDies, Write, historyVars
  <1>2. ASSUME NEW q \in Callers, NEW kind, NEW t, Ask(q, kind, t) PROVE disturbed => disturbed'
    BY <1>2 DEF Ask
  <1>3. ASSUME NEW c \in Consumers,
               ConsumerStep(c) \/ Crash(c) \/ \E m \in Messages : Claim(c, m)
        PROVE  disturbed' = disturbed
    BY <1>3 DEF ConsumerStep, Crash, Claim, Check, Load, Create, Update, Delete, MarkScheduled,
       MarkCancelled, StatementFails, Notify, Retry, Fail, Review, Call, RowStep, JobStep,
       historyVars
  <1>4. ASSUME NEW m \in Messages, Duplicate(m) PROVE disturbed' = disturbed
    BY <1>4 DEF Duplicate, JobStep, historyVars
  <1>5. UNCHANGED vars => disturbed' = disturbed
    BY DEF vars, historyVars
  <1> QED BY <1>1, <1>2, <1>3, <1>4, <1>5 DEF Next, TInv, Kept

\* The state an undisturbed step starts from.
Calm == SInv /\ TInv /\ QFacts /\ Ordered

\* Two invocations past their checks hold the one job of the newest version.
LEMMA OneWorks ==
  ASSUME Calm, NEW c \in Consumers, NEW d \in Consumers, Working(c), Working(d)
  PROVE  c = d
  <1>1. run[c] # Idle /\ run[d] # Idle
    BY DEF Calm, TInv, Held, Working, Past
  <1>2. run[c].job.version = row.version /\ run[d].job.version = row.version
    BY DEF Calm, Ordered, Current
  <1>3. run[c].job = run[d].job
    BY <1>1, <1>2, HeldJob DEF Calm, Ordered, Keys
  <1> QED BY <1>1, <1>3 DEF Calm, QFacts

\* Requests that neither write the row nor make a job.
LEMMA QuietEnd ==
  ASSUME Calm, NEW q \in Callers, End(q), UNCHANGED jstat, row'.version = row.version
  PROVE  Quiet' /\ Keys'
  <1>1. /\ \A p \in Callers : req'[p].pc # "idle" => p # q /\ req'[p] = req[p]
    BY Ends DEF Calm
  <1> QED BY <1>1 DEF Calm, Ordered, Quiet, Keys, Inserting, Made

LEMMA AskOrdered ==
  ASSUME Calm, NEW q \in Callers, NEW kind \in Offered, NEW t \in Slots, Ask(q, kind, t),
         ~disturbed'
  PROVE  Ordered'
  <1>1. UNCHANGED <<row, calendar, orphans, exec, run, jstat>>
    BY DEF Ask, rowVars, automationVars
  <1>2. kind \in Automated \cup {"result"}
    BY DEF Ask
  <1>3. /\ req'[q].pc = "write" /\ req'[q].kind = kind /\ req'[q].seen = row
        /\ \A p \in Callers \ {q} : req'[p] = req[p]
    BY <1>2 DEF Ask, Automated, Calm, SInv, Shapes
  <1>4. kind \in Automated => row.status # "cancelled"
    BY DEF Ask, Accepts, Automated
  <1>5. Quiet'
    BY <1>2, <1>3, <1>4 DEF Quiet, Calm, Ordered
  <1>6. Keys'
    BY <1>1, <1>3 DEF Keys, Calm, Ordered, Inserting, Made
  <1>7. Current' /\ Known' /\ Outcome'
    BY <1>1 DEF Calm, Ordered, Current, Working, Known, KnownLive, LiveEvents, Live, Marking, Act, Outcome,
       Agrees, CancelMade, DoneMeansAgreed, Made
  <1> QED BY <1>5, <1>6, <1>7 DEF Ordered

\* The row an automated request writes has a version nobody knows.
LEMMA PrepareOrdered ==
  ASSUME Calm, NEW q \in Callers, PrepareSchedule(q) \/ PrepareCancel(q), ~disturbed'
  PROVE  Ordered'
  <1>1. /\ UNCHANGED <<calendar, orphans, exec, run, jstat>> /\ Continue(q, "insert")
        /\ req[q].pc = "write" /\ req[q].kind \in Automated
        /\ row \in Rows /\ row.version \in Nat
    <2>1. row \in Rows /\ row.version \in Nat
      BY ScheduleAssumption DEF Calm, SInv, Shapes, Rows
    <2> QED BY <2>1 DEF PrepareSchedule, PrepareCancel, Prepare, Unbothered, Is, Automated,
            automationVars
  <1>2. row = req[q].seen /\ \A c \in Consumers : ~Working(c)
    BY DEF PrepareSchedule, PrepareCancel, Prepare, Working, Past
  <1>3. /\ row'.version = row.version + 1 /\ row'.cal = row.cal
        /\ row'.sched # "cancelled" /\ row'.status # "cancelled"
    <2>1. row.status # "cancelled"
      BY <1>1, <1>2 DEF Calm, Ordered, Quiet, Automated
    <2>2. CASE PrepareSchedule(q)
      <3>1. row' = [row EXCEPT !.slot = req[q].time, !.shown = req[q].time,
                               !.sched = "queued", !.version = req[q].seen.version + 1]
        BY <2>2 DEF PrepareSchedule, Prepare
      <3> QED BY <1>1, <1>2, <2>1, <3>1 DEF Rows
    <2>3. CASE PrepareCancel(q)
      <3>1. row' = [row EXCEPT !.status = "cancel_pending", !.sched = "cancel_pending",
                               !.version = req[q].seen.version + 1]
        BY <2>3 DEF PrepareCancel, Prepare
      <3> QED BY <1>1, <1>2, <3>1 DEF Rows
    <2> QED BY <2>2, <2>3
  <1>4. /\ req'[q].pc = "insert" /\ req'[q].kind = req[q].kind /\ req'[q].seen = req[q].seen
        /\ \A r \in Callers \ {q} : req'[r] = req[r]
    BY <1>1, Continues DEF Calm
  <1>5. Quiet'
    BY <1>1, <1>4 DEF Calm, Ordered, Quiet
  <1>6. Keys'
    <2>1. /\ \A j \in ScheduleJobs : j.version \in Nat
          /\ \A r \in Callers : req[r].seen.version \in Nat
      BY ScheduleAssumption DEF ScheduleJobs, Calm, SInv, Shapes, Requests, Rows
    <2>2. /\ \A j \in ScheduleJobs : Made(j)' <=> Made(j)
          /\ \A r \in Callers : Inserting(r)' => r = q \/ Inserting(r)
      BY <1>1, <1>4 DEF Made, Inserting
    <2>3. \A j \in ScheduleJobs : Made(j) => j.version < row'.version
      BY <1>1, <1>3, <2>1 DEF Calm, Ordered, Keys
    <2>4. \A r \in Callers : Inserting(r) => req[r].seen.version < req[q].seen.version
      BY <1>2 DEF Calm, Ordered, Keys
    <2>5. \A p, r \in Callers : Inserting(p)' /\ Inserting(r)' /\ p # r =>
             req'[p].seen.version # req'[r].seen.version
      BY <1>4, <2>1, <2>2, <2>4 DEF Calm, Ordered, Keys
    <2>6. \A r \in Callers : Inserting(r)' =>
             /\ req'[r].seen.version < row'.version
             /\ \A j \in ScheduleJobs : Made(j) => j.version # req'[r].seen.version + 1
      BY <1>1, <1>2, <1>3, <1>4, <2>1, <2>2, <2>3, <2>4 DEF Calm, Ordered, Keys
    <2> QED BY <1>1, <1>3, <2>1, <2>2, <2>3, <2>5, <2>6 DEF Calm, Ordered, Keys
  <1>7. \A c \in Consumers : ~Working(c)' /\ ~Marking(c)'
    BY <1>1, <1>2 DEF Working, Marking, Past
  <1>8. Current' /\ Known'
    BY <1>1, <1>2, <1>3, <1>7 DEF Calm, Ordered, Current, Known, KnownLive, LiveEvents, Live, Marking,
       Working, Past
  <1>9. Outcome'
    <2>1. \A j \in ScheduleJobs : Made(j)' => j.version # row'.version
      BY <1>1, <1>3, ScheduleAssumption DEF Calm, Ordered, Keys, ScheduleJobs, Made
    <2>2. DoneMeansAgreed({"reschedule"})'
      BY <2>1 DEF DoneMeansAgreed, Made
    <2>3. \A c \in Consumers : exec'[c].pc \notin {"mark", "notify"}
      BY <1>7 DEF Working, Past
    <2> QED BY <1>3, <2>2, <2>3 DEF Outcome
  <1> QED BY <1>5, <1>6, <1>8, <1>9 DEF Ordered

\* The job of a version is made once, by the request that wrote the version.
LEMMA EnqueueOrdered ==
  ASSUME Calm, NEW q \in Callers, Enqueue(q)
  PROVE  Ordered'
  <1> DEFINE j == [act |-> req[q].kind, version |-> req[q].seen.version + 1]
  <1>1. j \in ScheduleJobs /\ Inserting(q) /\ ~Made(j)
    BY KeyExists DEF Enqueue, Is, Inserting, Calm, Ordered, Keys
  <1>2. /\ UNCHANGED <<row, calendar, orphans, exec, run>> /\ End(q)
        /\ jstat' = [jstat EXCEPT ![j] = "queued"]
    BY <1>1 DEF Enqueue, rowVars, historyVars, CreateJob, FindJob, Made
  <1>3. jstat \in [ScheduleJobs -> JobStatus]
    BY DEF Calm, QFacts, QueueTypeOK
  <1>4. j.version = req[q].seen.version + 1
    OBVIOUS
  <1> HIDE DEF j
  <1>5. \A k \in ScheduleJobs : jstat'[k] = IF k = j THEN "queued" ELSE jstat[k]
    BY <1>1, <1>2, <1>3
  <1>6. \A p \in Callers : req'[p].pc # "idle" => p # q /\ req'[p] = req[p]
    BY <1>2, Ends DEF Calm
  <1>7. Quiet'
    BY <1>6 DEF Calm, Ordered, Quiet
  <1>8. Keys'
    <2>1. /\ \A k \in ScheduleJobs : k.version \in Nat
          /\ \A r \in Callers : req[r].seen.version \in Nat
          /\ row.version \in Nat
      BY ScheduleAssumption DEF ScheduleJobs, Calm, SInv, Shapes, Requests, Rows
    <2>2. \A k \in ScheduleJobs : Made(k)' => k = j \/ Made(k)
      BY <1>5 DEF Made
    <2>3. j.version <= row.version
      BY <1>1, <1>4, <2>1 DEF Calm, Ordered, Keys
    <2>4. \A k \in ScheduleJobs : Made(k) => k.version # j.version
      BY <1>1, <1>4 DEF Calm, Ordered, Keys
    <2>5. \A p \in Callers : Inserting(p)' =>
             Inserting(p) /\ p # q /\ req'[p] = req[p] /\ req[p].seen.version # req[q].seen.version
      BY <1>1, <1>6 DEF Calm, Ordered, Keys, Inserting
    <2>6. \A p \in Callers : Inserting(p)' => j.version # req[p].seen.version + 1
      BY <1>4, <2>1, <2>5
    <2>7. \A p \in Callers : Inserting(p)' =>
             /\ req'[p].seen.version < row'.version
             /\ \A k \in ScheduleJobs : Made(k)' => k.version # req'[p].seen.version + 1
      BY <1>2, <2>2, <2>5, <2>6 DEF Calm, Ordered, Keys
    <2>8. \A p, r \in Callers : Inserting(p)' /\ Inserting(r)' /\ p # r =>
             req'[p].seen.version # req'[r].seen.version
      BY <2>5 DEF Calm, Ordered, Keys
    <2>9. \A i, k \in ScheduleJobs : Made(i)' /\ Made(k)' /\ i.version = k.version => i = k
      BY <2>2, <2>4 DEF Calm, Ordered, Keys
    <2>10. \A k \in ScheduleJobs : Made(k)' => k.version <= row'.version
      BY <1>2, <2>2, <2>3 DEF Calm, Ordered, Keys
    <2> QED BY <2>7, <2>8, <2>9, <2>10 DEF Keys
  <1>9. Current' /\ Known'
    BY <1>2 DEF Calm, Ordered, Current, Working, Known, KnownLive, LiveEvents, Live, Marking, Act
  <1>10. Outcome'
    <2>1. DoneMeansAgreed({"reschedule"})'
      BY <1>2, <1>5 DEF Calm, Ordered, Outcome, DoneMeansAgreed
    <2>2. CancelMade => CancelMade'
      BY <1>2, <1>5 DEF CancelMade, Made
    <2> QED BY <1>2, <2>1, <2>2 DEF Calm, Ordered, Outcome, KnownLive, LiveEvents, Live, Act, Agrees
  <1> QED BY <1>7, <1>8, <1>9, <1>10 DEF Ordered

\* The other requests of an undisturbed interview: a result, a message sent or
\* not, a request cut short.
LEMMA RequestOrdered ==
  ASSUME Calm, NEW q \in Callers,
         \/ Send(q) \/ SaveResult(q) \/ ScheduleOffline(q) \/ CardWrites(q)
         \/ StartWrites(q) \/ StartLoads(q) \/ RequestCalls(q) \/ DirectSaves(q)
         \/ StartSaves(q) \/ RequestDies(q)
  PROVE  Ordered'
  <1>1. Send(q) \/ SaveResult(q) \/ RequestDies(q)
    BY DEF Calm, Ordered, Quiet, Is, Automated, ScheduleOffline, CardWrites, StartWrites,
       StartLoads, RequestCalls, DirectSaves, StartSaves
  <1>2. UNCHANGED <<calendar, orphans, exec, run, jstat>>
    BY <1>1 DEF Send, SaveResult, RequestDies, Write, Unbothered, rowVars, automationVars, historyVars,
       SendMessage, LoseMessage
  <1>3. /\ row'.version = row.version /\ row'.slot = row.slot /\ row'.cal = row.cal
        /\ row'.sched = row.sched
        /\ row'.status = row.status \/ row'.status = "completed"
    BY <1>1 DEF Send, SaveResult, RequestDies, Write, rowVars, Calm, SInv, Shapes, Rows
  <1>4. UNCHANGED req \/ End(q)
    BY <1>1 DEF Send, SaveResult, RequestDies
  <1>5. Quiet' /\ Keys'
    BY <1>2, <1>3, <1>4, QuietEnd DEF Calm, Ordered, Quiet, Keys, Inserting, Made
  <1>6. Current' /\ Known'
    BY <1>2, <1>3 DEF Calm, Ordered, Current, Working, Known, KnownLive, LiveEvents, Live, Marking, Act
  <1>7. Outcome'
    BY <1>2, <1>3 DEF Calm, Ordered, Outcome, KnownLive, LiveEvents, Live, Act, Agrees, CancelMade,
       DoneMeansAgreed, Made
  <1> QED BY <1>5, <1>6, <1>7 DEF Ordered

-----------------------------------------------------------------------------
(* Undisturbed behaviours: the invocations *)

\* An invocation makes no job, and no request or version changes with it.
LEMMA ConsumerKeys ==
  ASSUME Calm, NEW c \in Consumers,
         ConsumerStep(c) \/ Crash(c) \/ \E m \in Messages : Claim(c, m)
  PROVE  /\ Quiet' /\ Keys' /\ req' = req
         /\ \A j \in ScheduleJobs : Made(j)' <=> Made(j)
         /\ row'.version = row.version /\ row'.slot = row.slot
  <1>1. row'.version = row.version /\ row'.slot = row.slot /\ req' = req
    BY DEF ConsumerStep, Crash, Claim, Check, Load, Create, Update, Delete, MarkScheduled,
       MarkCancelled, StatementFails, Notify, Retry, Fail, Review, Call, RowStep, JobStep, rowVars, Calm, SInv,
       Shapes, Rows
  <1>2. \A j \in ScheduleJobs : Made(j)' <=> Made(j)
    BY ConsumerMakes DEF Calm
  <1> QED BY <1>1, <1>2 DEF Calm, Ordered, Quiet, Keys, Inserting

\* The job an invocation past its check holds is the only one of its version.
LEMMA HeldIsCurrent ==
  ASSUME Calm, NEW c \in Consumers, Working(c)
  PROVE  /\ run[c].job \in ScheduleJobs /\ Made(run[c].job) /\ jstat[run[c].job] = "running"
         /\ run[c].job.version = row.version
         /\ \A j \in ScheduleJobs : Made(j) /\ j.version = row.version => j = run[c].job
         /\ CancelMade <=> Act(c) = "cancel"
  <1>1. run[c] # Idle
    BY DEF Calm, TInv, Held, Working, Past
  <1>2. /\ run[c].job \in ScheduleJobs /\ Made(run[c].job)
        /\ jstat[run[c].job] = "running" /\ run[c].job.version = row.version
    BY <1>1, HeldJob DEF Calm, Ordered, Current, QFacts
  <1>3. \A j \in ScheduleJobs : Made(j) /\ j.version = row.version => j = run[c].job
    BY <1>2 DEF Calm, Ordered, Keys
  <1> QED BY <1>2, <1>3 DEF CancelMade, Act

\* A step of an invocation that is not about the calendar or its event.
LEMMA AsideOrdered ==
  ASSUME Calm, NEW c \in Consumers, Quiet', Keys', UNCHANGED <<calendar, orphans>>,
         \A j \in ScheduleJobs : Made(j)' <=> Made(j),
         \A j \in ScheduleJobs : jstat'[j] \in {"succeeded", "partial"} => jstat'[j] = jstat[j],
         row'.version = row.version, row'.slot = row.slot, row'.cal = row.cal,
         \/ row'.status = row.status /\ row'.sched = row.sched
         \/ row'.status = "manual_review" /\ row'.sched = "failed",
         \A d \in Consumers \ {c} : exec'[d] = exec[d] /\ run'[d] = run[d],
         exec[c].pc # "mark",
         exec'[c].pc \notin {"create", "update", "delete", "mark", "notify"},
         Working(c)' => run'[c].job.version = row.version
  PROVE  Ordered'
  <1>1. Current'
    BY DEF Calm, Ordered, Current, Working, Act
  <1>2. Known'
    BY DEF Calm, Ordered, Known, KnownLive, LiveEvents, Live, Marking, Act
  <1>3. Outcome'
    <2>1. DoneMeansAgreed({"reschedule"})'
      BY DEF Calm, Ordered, Outcome, DoneMeansAgreed
    <2>2. CancelMade' <=> CancelMade
      BY DEF CancelMade
    <2> QED BY <2>1, <2>2 DEF Calm, Ordered, Outcome, KnownLive, LiveEvents, Live, Act, Agrees
  <1> QED BY <1>1, <1>2, <1>3 DEF Ordered

\* A job that is given up, by a failure or with its invocation: an event that
\* lives and is no orphan is the row's.
LEMMA LeaveOrdered ==
  ASSUME Calm, NEW c \in Consumers, Working(c), Quiet', Keys',
         \A e \in KnownLive' : e \in KnownLive /\ e = row.cal,
         \A j \in ScheduleJobs : Made(j)' <=> Made(j),
         UNCHANGED <<row, jstat>>,
         \A d \in Consumers \ {c} : exec'[d] = exec[d] /\ run'[d] = run[d],
         exec'[c].pc \in {"fail", "retry", "idle"},
         Working(c)' => run'[c] = run[c]
  PROVE  Ordered'
  <1>1. \A d \in Consumers \ {c} : ~Working(d)
    BY OneWorks
  <1>2. \A d \in Consumers : exec'[d].pc \notin {"create", "update", "delete", "mark", "notify"}
    BY <1>1 DEF Working, Past
  <1>3. Current'
    BY <1>1, <1>2 DEF Calm, Ordered, Current, Working
  <1>4. Known'
    BY <1>2 DEF Known, Marking
  <1>5. DoneMeansAgreed({"reschedule"})'
    BY HeldIsCurrent DEF DoneMeansAgreed, Made
  <1>6. CancelMade' <=> CancelMade
    BY DEF CancelMade
  <1>7. KnownLive = {} => KnownLive' = {}
    OBVIOUS
  <1>8. Outcome'
    BY <1>2, <1>5, <1>6, <1>7 DEF Calm, Ordered, Outcome
  <1> QED BY <1>3, <1>4, <1>8 DEF Ordered

LEMMA ClaimOrdered ==
  ASSUME Calm, NEW c \in Consumers, NEW m \in Messages, Claim(c, m)
  PROVE  Ordered'
  <1>1. Quiet' /\ Keys' /\ \A j \in ScheduleJobs : Made(j)' <=> Made(j)
    BY ConsumerKeys
  <1>2. /\ UNCHANGED <<row, calendar, orphans>> /\ exec[c].pc = "idle"
        /\ exec'[c].pc \in {"idle", "check"} /\ \A d \in Consumers \ {c} : exec'[d] = exec[d]
    <2>1. Proceed(c, "check") \/ UNCHANGED exec
      BY DEF Claim
    <2> QED BY <2>1, Proceeds DEF Claim, JobStep, rowVars, historyVars, At, Calm
  <1>3. /\ \A d \in Consumers \ {c} : run'[d] = run[d]
        /\ \A j \in ScheduleJobs : jstat'[j] \in {"succeeded", "partial"} => jstat'[j] = jstat[j]
    BY DEF Claim, ClaimJob, SkipJob, Calm, QFacts, QueueTypeOK, Messages
  <1> QED BY <1>1, <1>2, <1>3, AsideOrdered DEF Working, Past

\* A job that is settled other than by success.
LEMMA SettledAside ==
  ASSUME QFacts, NEW c \in Consumers, NEW s \in {"cancelled", "queued", "failed"}, Settle(c, s)
  PROVE  /\ \A d \in Consumers \ {c} : run'[d] = run[d]
         /\ \A j \in ScheduleJobs : jstat'[j] \in {"succeeded", "partial"} => jstat'[j] = jstat[j]
  BY DEF Settle, QFacts, QueueTypeOK

LEMMA CheckOrdered ==
  ASSUME Calm, NEW c \in Consumers, Check(c) \/ Retry(c)
  PROVE  Ordered'
  <1>1. /\ Quiet' /\ Keys' /\ \A j \in ScheduleJobs : Made(j)' <=> Made(j)
    BY ConsumerKeys DEF ConsumerStep
  <1>2. UNCHANGED <<row, calendar, orphans>> /\ exec[c].pc # "mark"
    BY DEF Check, Retry, JobStep, rowVars, historyVars, At
  <1>3. CASE Stop(c) /\ \E s \in {"cancelled", "queued", "failed"} : Settle(c, s)
    BY <1>1, <1>2, <1>3, Stops, SettledAside, AsideOrdered DEF Working, Past, Calm
  <1>4. CASE /\ UNCHANGED automationVars /\ run[c].job.version = row.version
             /\ (Proceed(c, "load") \/ Leave(c, "fail"))
    <2>1. /\ exec'[c].pc \in {"load", "fail"} /\ \A d \in Consumers \ {c} : exec'[d] = exec[d]
      BY <1>4, Proceeds, Leaves DEF Calm
    <2>2. UNCHANGED <<run, jstat>>
      BY <1>4 DEF automationVars
    <2> QED BY <1>1, <1>2, <1>4, <2>1, <2>2, AsideOrdered
  <1>5. CASE Check(c)
    BY <1>3, <1>4, <1>5 DEF Check, Stale, CompleteJob
  <1>6. CASE Retry(c)
    BY <1>3, <1>4, <1>6 DEF Retry, RetryJob, At, Calm, Ordered, Current, Working, Past
  <1> QED BY <1>5, <1>6

LEMMA FailOrdered ==
  ASSUME Calm, NEW c \in Consumers, Fail(c) \/ Review(c)
  PROVE  Ordered'
  <1>1. /\ Quiet' /\ Keys' /\ row'.version = row.version /\ row'.slot = row.slot
        /\ \A j \in ScheduleJobs : Made(j)' <=> Made(j)
    BY ConsumerKeys DEF ConsumerStep
  <1>2. UNCHANGED <<calendar, orphans>> /\ exec[c].pc # "mark"
    BY DEF Fail, Review, JobStep, RowStep, rowVars, historyVars, At
  <1>3. CASE Fail(c)
    <2>1. Settle(c, "failed") /\ UNCHANGED row
      BY <1>3 DEF Fail, FailJob, JobStep, rowVars
    <2>2. /\ exec'[c].pc = "review" /\ \A d \in Consumers \ {c} : exec'[d] = exec[d]
      BY <1>3, Leaves DEF Fail, Calm
    <2> QED BY <1>1, <1>2, <2>1, <2>2, SettledAside, AsideOrdered DEF Calm, Working, Past
  <1>4. CASE Review(c)
    <2>1. /\ row'.cal = row.cal /\ row'.status = "manual_review" /\ row'.sched = "failed"
          /\ UNCHANGED <<run, jstat>> /\ Stop(c)
      BY <1>4 DEF Review, RowStep, automationVars, Calm, SInv, Shapes, Rows
    <2> QED BY <1>1, <1>2, <2>1, Stops, AsideOrdered DEF Calm, Working, Past
  <1> QED BY <1>3, <1>4

\* The handler starts from the row, which has no event but its own.
LEMMA LoadOrdered ==
  ASSUME Calm, NEW c \in Consumers, Load(c)
  PROVE  Ordered'
  <1>1. /\ Quiet' /\ Keys' /\ \A j \in ScheduleJobs : Made(j)' <=> Made(j)
    BY ConsumerKeys DEF ConsumerStep
  <1>2. /\ UNCHANGED <<row, calendar, orphans, run, jstat>> /\ Working(c) /\ ~Marking(c)
        /\ exec'[c].pc = FirstStep(c) /\ exec'[c].seen = row
        /\ \A d \in Consumers \ {c} : exec'[d] = exec[d] /\ ~Working(d)
    <2>1. Working(c)
      BY DEF Load, At, Working, Past
    <2>2. \A d \in Consumers \ {c} : ~Working(d)
      BY <2>1, OneWorks
    <2> QED BY <2>1, <2>2 DEF Load, At, Marking, RowStep, automationVars, historyVars, Calm, SInv, Shapes,
            Executions
  <1>3. /\ run[c].job \in ScheduleJobs /\ run[c].job.version = row.version
        /\ Act(c) \in Automated /\ row.cal \in Events \cup {NoEvent}
    BY <1>2, HeldIsCurrent DEF Act, ScheduleJobs, Calm, SInv, Shapes, Rows
  <1>4. \A d \in Consumers : ~Marking(d)
    BY <1>2 DEF Marking, Working, Past
  <1>5. \A d \in Consumers \ {c} : ~Working(d)' /\ ~Marking(d)'
    BY <1>2 DEF Working, Marking, Past
  <1>6. Current'
    BY <1>2, <1>3, <1>5 DEF Current, FirstStep, Act, Automated, Working
  <1>7. FirstStep(c) = "mark" => Act(c) = "cancel" /\ row.cal = NoEvent
    BY DEF FirstStep
  <1>8. KnownLive' = KnownLive /\ Act(c)' = Act(c) /\ \A e \in KnownLive : e = row.cal
    BY <1>2, <1>4 DEF KnownLive, LiveEvents, Live, Act, Calm, Ordered, Known
  <1>9. Known'
    BY <1>2, <1>5, <1>7, <1>8 DEF Known, Marking
  <1>10. Outcome'
    <2>1. row.cal = NoEvent => KnownLive = {}
      BY <1>8, ScheduleAssumption DEF KnownLive, LiveEvents, Events
    <2>2. FirstStep(c) = "notify" => Act(c) = "schedule"
      BY DEF FirstStep
    <2>3. CancelMade' <=> CancelMade
      BY <1>2 DEF CancelMade, Made
    <2>4. DoneMeansAgreed({"reschedule"})'
      BY <1>2 DEF Calm, Ordered, Outcome, DoneMeansAgreed
    <2>5. \A d \in Consumers \ {c} : exec'[d].pc \notin {"mark", "notify"}
      BY <1>5 DEF Working, Past
    <2> QED BY <1>2, <1>7, <1>8, <2>1, <2>2, <2>3, <2>4, <2>5 DEF Calm, Ordered, Outcome
  <1> QED BY <1>1, <1>6, <1>9, <1>10 DEF Ordered

\* A call that is answered leaves one event, the one it is about, or none.
LEMMA CallOrdered ==
  ASSUME Calm, NEW c \in Consumers, Create(c) \/ Update(c) \/ Delete(c)
  PROVE  Ordered'
  <1>1. /\ Quiet' /\ Keys' /\ \A j \in ScheduleJobs : Made(j)' <=> Made(j)
    BY ConsumerKeys DEF ConsumerStep
  <1>2. /\ UNCHANGED <<row, run, jstat>> /\ Working(c) /\ ~Marking(c)
        /\ exec[c].pc \in {"create", "update", "delete"}
        /\ \A d \in Consumers \ {c} : ~Working(d)
    <2>1. exec[c].pc \in {"create", "update", "delete"}
      BY DEF Create, Update, Delete, At
    <2>2. Working(c)
      BY <2>1 DEF Working, Past
    <2> QED BY <2>1, <2>2, OneWorks DEF Create, Update, Delete, Call, automationVars, Marking
  <1>3. /\ exec[c].seen.slot = row.slot /\ exec[c].seen.cal = row.cal
        /\ run[c].job.version = row.version
    BY <1>2 DEF Calm, Ordered, Current
  <1>4. \A e \in KnownLive : e = row.cal
    BY <1>2 DEF Calm, Ordered, Known, Marking, Working, Past
  <1>5. lost \in Nat
    BY ScheduleAssumption DEF Calm, TInv, Kept
  \* No answer comes, whether or not the call took effect.
  <1>6. ASSUME \E p \in {"fail", "retry"} : Leave(c, p), KnownLive' \subseteq KnownLive
        PROVE  Ordered'
    BY <1>1, <1>2, <1>4, <1>6, Leaves, LeaveOrdered DEF Calm
  \* The answer comes: the handler goes on to mark the row.
  <1>7. ASSUME NEW e,
               exec' = [exec EXCEPT ![c] = [@ EXCEPT !.pc = "mark", !.event = e]],
               exec[c].pc # "delete" =>
                  /\ e \in Events /\ calendar'[e] = row.slot
                  /\ row.cal # NoEvent => e = row.cal,
               KnownLive' \subseteq (IF exec[c].pc = "delete" THEN {} ELSE {e})
        PROVE  Ordered'
    <2>1. /\ exec'[c].pc = "mark" /\ exec'[c].seen = exec[c].seen /\ exec'[c].event = e
          /\ \A d \in Consumers \ {c} : exec'[d] = exec[d]
      BY <1>7, Answers DEF Calm
    <2>2. \A d \in Consumers \ {c} : ~Working(d)' /\ ~Marking(d)'
      BY <1>2, <2>1 DEF Working, Marking, Past
    <2>3. Act(c)' = Act(c) /\ (Act(c) = "cancel" <=> exec[c].pc = "delete")
      BY <1>2 DEF Act, Calm, Ordered, Current
    <2>4. Current'
      BY <1>2, <1>3, <2>1, <2>2 DEF Current, Working
    <2>5. Known'
      BY <1>2, <1>3, <1>7, <2>1, <2>2, <2>3 DEF Known, Marking
    <2>6. Outcome'
      <3>1. CancelMade' <=> CancelMade
        BY <1>2 DEF CancelMade, Made
      <3>2. CancelMade <=> Act(c) = "cancel"
        BY <1>2, HeldIsCurrent
      <3>3. DoneMeansAgreed({"reschedule"})'
        BY <1>2, HeldIsCurrent DEF DoneMeansAgreed, Made
      <3>4. \A d \in Consumers \ {c} : exec'[d].pc \notin {"mark", "notify"}
        BY <2>2 DEF Working, Past
      <3> QED BY <1>2, <1>7, <2>1, <2>3, <3>1, <3>2, <3>3, <3>4 DEF Calm, Ordered, Outcome
    <2> QED BY <1>1, <2>4, <2>5, <2>6 DEF Ordered
  <1>8. CASE Create(c)
    <2>1. exec[c].pc = "create" /\ row.cal = NoEvent /\ row.slot \in Slots
      BY <1>2, <1>3, <1>8 DEF Create, At, Calm, Ordered, Current, TInv, Timed
    <2>2. KnownLive = {}
      BY <1>4, <2>1, ScheduleAssumption DEF KnownLive, LiveEvents, Events
    <2>3. PICK e \in Events :
            /\ Call(c, NewEvent(e, row.slot), e, "fail")
            /\ orphans' = IF lost' = lost THEN orphans ELSE orphans \cup {e}
      BY <1>3, <1>8 DEF Create
    <2>4. ASSUME NewEvent(e, row.slot)
          PROVE  calendar'[e] = row.slot /\ LiveEvents' \subseteq LiveEvents \cup {e}
      BY <2>4 DEF NewEvent, LiveEvents, Live, Calm, TInv, Kept
    <2>5. CASE /\ NewEvent(e, row.slot) /\ Answered
               /\ exec' = [exec EXCEPT ![c] = [@ EXCEPT !.pc = "mark", !.event = e]]
      <3>1. KnownLive' \subseteq {e}
        BY <2>2, <2>3, <2>4, <2>5 DEF Answered, KnownLive
      <3> QED BY <1>7, <2>1, <2>4, <2>5, <3>1
    <2>6. CASE NewEvent(e, row.slot) /\ AnswerLost /\ Leave(c, "fail")
      <3>1. orphans' = orphans \cup {e}
        BY <1>5, <2>3, <2>6 DEF AnswerLost
      <3>2. KnownLive' \subseteq KnownLive
        BY <2>4, <2>6, <3>1 DEF KnownLive
      <3> QED BY <1>6, <2>6, <3>2
    <2>7. CASE Leave(c, "fail") /\ UNCHANGED <<calendar, lost>>
      <3>1. KnownLive' = KnownLive
        BY <2>3, <2>7 DEF KnownLive, LiveEvents, Live
      <3> QED BY <1>6, <2>7, <3>1
    <2> QED BY <2>3, <2>5, <2>6, <2>7 DEF Call
  <1>9. CASE Update(c)
    <2>1. exec[c].pc = "update" /\ row.cal \in Events /\ UNCHANGED orphans
      BY <1>2, <1>9 DEF Update, At, Calm, Ordered, Current
    <2>2. Call(c, MoveEvent(row.cal, row.slot), row.cal, "retry")
      BY <1>3, <1>9 DEF Update
    <2>3. ASSUME MoveEvent(row.cal, row.slot)
          PROVE  calendar'[row.cal] = row.slot /\ LiveEvents' \subseteq LiveEvents
      BY <2>1, <2>3 DEF MoveEvent, LiveEvents, Live, Calm, TInv, Kept
    <2>4. UNCHANGED calendar \/ MoveEvent(row.cal, row.slot) => KnownLive' \subseteq KnownLive
      BY <2>1, <2>3 DEF KnownLive, LiveEvents, Live
    <2>5. KnownLive \subseteq {row.cal}
      BY <1>4
    <2>6. CASE /\ MoveEvent(row.cal, row.slot)
               /\ exec' = [exec EXCEPT ![c] = [@ EXCEPT !.pc = "mark", !.event = row.cal]]
      BY <1>7, <2>1, <2>3, <2>4, <2>5, <2>6
    <2> QED BY <1>6, <2>2, <2>4, <2>6 DEF Call
  <1>10. CASE Delete(c)
    <2>1. exec[c].pc = "delete" /\ UNCHANGED orphans
      BY <1>10 DEF Delete, At
    <2>2. Call(c, DeleteEvent(row.cal), NoEvent, "fail")
      BY <1>3, <1>10 DEF Delete
    <2>3. ASSUME DeleteEvent(row.cal) PROVE KnownLive' = {}
      BY <1>4, <2>1, <2>3, ScheduleAssumption
         DEF DeleteEvent, KnownLive, LiveEvents, Live, Calm, TInv, Kept
    <2>4. UNCHANGED calendar => KnownLive' = KnownLive
      BY <2>1 DEF KnownLive, LiveEvents, Live
    <2>5. CASE /\ DeleteEvent(row.cal)
               /\ exec' = [exec EXCEPT ![c] = [@ EXCEPT !.pc = "mark", !.event = NoEvent]]
      BY <1>7, <2>1, <2>3, <2>5
    <2> QED BY <1>6, <2>2, <2>3, <2>4, <2>5 DEF Call
  <1> QED BY <1>8, <1>9, <1>10

\* A failing statement, or the end of the invocation, makes an orphan of the
\* event it created; an event it moved is the row's.
LEMMA ForgetOrdered ==
  ASSUME Calm, NEW c \in Consumers, StatementFails(c) \/ Crash(c)
  PROVE  Ordered'
  <1>1. /\ Quiet' /\ Keys' /\ \A j \in ScheduleJobs : Made(j)' <=> Made(j)
    BY ConsumerKeys DEF ConsumerStep
  <1>2. UNCHANGED <<row, calendar, jstat>> /\ orphans' = orphans \cup Unrecorded(c)
    BY DEF StatementFails, Crash, Die, Forget, rowVars, automationVars
  <1>3. /\ exec'[c].pc \in {"fail", "idle"} /\ \A d \in Consumers \ {c} : exec'[d] = exec[d]
        /\ StatementFails(c) => exec'[c].pc = "fail"
        /\ Crash(c) => exec'[c].pc = "idle"
    BY Leaves, Stops DEF StatementFails, Crash, Calm
  <1>4. \A d \in Consumers \ {c} : run'[d] = run[d]
    BY DEF StatementFails, Crash, Die, automationVars, Calm, QFacts, QueueTypeOK
  <1>5. CASE Working(c)
    <2>1. LiveEvents' = LiveEvents
      BY <1>2 DEF LiveEvents, Live
    <2>2. \A d \in Consumers \ {c} : ~Marking(d)
      BY <1>5, OneWorks DEF Marking, Working, Past
    <2>3. ASSUME NEW e \in KnownLive' PROVE e \in KnownLive /\ e = row.cal
      <3>1. e \in KnownLive /\ e \notin Unrecorded(c)
        BY <1>2, <2>1, <2>3 DEF KnownLive
      <3>2. CASE Marking(c)
        <4>1. exec[c].event \in Events /\ e = exec[c].event
          BY <3>1, <3>2 DEF Calm, Ordered, Known
        <4>2. exec[c].seen.cal # NoEvent
          BY <3>1, <3>2, <4>1 DEF Unrecorded, Marking, At
        <4>3. e = exec[c].seen.cal
          BY <3>2, <4>1, <4>2 DEF Calm, Ordered, Known
        <4>4. exec[c].seen.cal = row.cal
          BY <1>5, <3>2 DEF Calm, Ordered, Current, Marking
        <4> QED BY <3>1, <4>3, <4>4
      <3>3. CASE ~Marking(c)
        BY <2>2, <3>1, <3>3 DEF Calm, Ordered, Known
      <3> QED BY <3>2, <3>3
    <2>4. Working(c)' => run'[c] = run[c]
      BY <1>3 DEF Working, Past, StatementFails, automationVars
    <2> QED BY <1>1, <1>2, <1>3, <1>4, <1>5, <2>3, <2>4, LeaveOrdered
  <1>6. CASE ~Working(c)
    <2>1. Crash(c) /\ exec[c].pc # "mark"
      BY <1>6 DEF StatementFails, Working, Past
    <2>2. orphans' = orphans
      BY <1>2, <2>1 DEF Unrecorded, At
    <2>3. ~Working(c)'
      BY <1>3, <2>1 DEF Working, Past
    <2> QED BY <1>1, <1>2, <1>3, <1>4, <2>1, <2>2, <2>3, AsideOrdered
  <1> QED BY <1>5, <1>6

\* The row gets the event that lives, or is cancelled when none does.
LEMMA MarkOrdered ==
  ASSUME Calm, NEW c \in Consumers, MarkScheduled(c) \/ MarkCancelled(c)
  PROVE  /\ Ordered'
         /\ MarkScheduled(c) => row.status # "cancelled"
  <1>1. /\ Quiet' /\ Keys' /\ row'.version = row.version /\ row'.slot = row.slot
        /\ \A j \in ScheduleJobs : Made(j)' <=> Made(j)
    BY ConsumerKeys DEF ConsumerStep
  <1>2. /\ UNCHANGED <<calendar, orphans, run, jstat>> /\ Working(c) /\ exec[c].pc = "mark"
        /\ exec'[c].pc = "notify" /\ row \in Rows
        /\ \A d \in Consumers \ {c} : exec'[d] = exec[d] /\ ~Working(d)
    <2>1. exec[c].pc = "mark" /\ Leave(c, "notify")
      BY DEF MarkScheduled, MarkCancelled, At
    <2>2. Working(c)
      BY <2>1 DEF Working, Past
    <2>3. exec'[c].pc = "notify" /\ \A d \in Consumers \ {c} : exec'[d] = exec[d]
      BY <2>1, Leaves DEF Calm
    <2> QED BY <2>1, <2>2, <2>3, OneWorks DEF MarkScheduled, MarkCancelled, RowStep,
            automationVars, historyVars, Calm, SInv, Shapes
  <1>3. \A d \in Consumers \ {c} : exec'[d].pc \notin Past
    BY <1>2 DEF Working
  <1>4. \A d \in Consumers : ~Marking(d)'
    BY <1>2, <1>3 DEF Marking, Past
  <1>5. Current'
    BY <1>1, <1>2, <1>3 DEF Current, Working, Calm, Ordered
  <1>6. CancelMade' <=> Act(c) = "cancel"
    <2>1. CancelMade' <=> CancelMade
      BY <1>1 DEF CancelMade
    <2> QED BY <1>2, <2>1, HeldIsCurrent
  <1>7. DoneMeansAgreed({"reschedule"})'
    BY <1>1, <1>2, HeldIsCurrent DEF DoneMeansAgreed, Made
  <1>8. Act(c)' = Act(c) /\ KnownLive' = KnownLive
    BY <1>2 DEF Act, KnownLive, LiveEvents, Live
  <1>9. CASE MarkScheduled(c)
    <2>1. Marking(c)
      BY <1>2, <1>9 DEF MarkScheduled, Marking
    <2>2. /\ row'.cal = exec[c].event /\ row'.status = "scheduled" /\ row'.sched = "scheduled"
      BY <1>2, <1>9 DEF MarkScheduled, Rows
    <2>3. /\ row'.cal \in Events /\ calendar[row'.cal] = row.slot
          /\ KnownLive \subseteq {row'.cal}
      BY <2>1, <2>2 DEF Calm, Ordered, Known
    <2>4. Known'
      BY <1>4, <1>8, <2>3 DEF Known
    <2>5. Agrees'
      BY <1>1, <1>2, <2>3, ScheduleAssumption DEF Agrees, Events
    <2>6. Outcome'
      BY <1>2, <1>3, <1>7, <1>8, <2>1, <2>2, <2>5 DEF Outcome, Marking, Past
    <2>7. row.status # "cancelled"
      BY <1>2, <2>1, HeldIsCurrent DEF Calm, Ordered, Outcome, Marking
    <2> QED BY <1>1, <1>5, <2>4, <2>6, <2>7 DEF Ordered
  <1>10. CASE MarkCancelled(c)
    <2>1. /\ row'.cal = row.cal /\ Act(c) = "cancel" /\ KnownLive = {}
      BY <1>2, <1>10 DEF MarkCancelled, Rows, Calm, Ordered, Outcome
    <2>2. Known'
      BY <1>4, <1>8, <2>1 DEF Known
    <2>3. Outcome'
      BY <1>2, <1>3, <1>6, <1>7, <1>8, <2>1 DEF Outcome, Past
    <2>4. ~MarkScheduled(c)
      BY <2>1 DEF MarkScheduled
    <2> QED BY <1>1, <1>5, <2>2, <2>3, <2>4 DEF Ordered
  <1> QED BY <1>9, <1>10

\* Success is reported of a reschedule only when row and calendar agree.
LEMMA NotifyOrdered ==
  ASSUME Calm, NEW c \in Consumers, Notify(c)
  PROVE  Ordered'
  <1>1. /\ Quiet' /\ Keys' /\ \A j \in ScheduleJobs : Made(j)' <=> Made(j)
    BY ConsumerKeys DEF ConsumerStep
  <1>2. UNCHANGED <<row, calendar, orphans>> /\ exec[c].pc = "notify" /\ Working(c)
    BY DEF Notify, JobStep, rowVars, historyVars, At, Working, Past
  <1>3. CASE Leave(c, "fail") /\ UNCHANGED automationVars
    BY <1>1, <1>2, <1>3, Leaves, AsideOrdered
       DEF Calm, Ordered, Current, Working, Past, automationVars
  <1>4. ASSUME NEW s \in {"succeeded", "partial"}, Settle(c, s), Stop(c) PROVE Ordered'
    <2>1. /\ exec'[c].pc = "idle" /\ \A d \in Consumers \ {c} : exec'[d] = exec[d]
      BY <1>4, Stops DEF Calm
    <2>2. /\ \A d \in Consumers \ {c} : run'[d] = run[d]
          /\ \A j \in ScheduleJobs : j # run[c].job => jstat'[j] = jstat[j]
      BY <1>4 DEF Settle, Calm, QFacts, QueueTypeOK
    <2>3. Current'
      BY <1>2, <2>1, <2>2 DEF Calm, Ordered, Current, Working, Past, Act
    <2>4. Known'
      BY <1>2, <2>1, <2>2 DEF Calm, Ordered, Known, KnownLive, LiveEvents, Live, Marking, Act
    <2>5. CancelMade' <=> CancelMade
      BY <1>1, <1>2 DEF CancelMade
    <2>6. DoneMeansAgreed({"reschedule"})'
      <3> SUFFICES ASSUME NEW j \in ScheduleJobs, j.act = "reschedule", j.version = row.version,
                          jstat'[j] \in {"succeeded", "partial"}
                   PROVE  Agrees
        BY <1>2 DEF DoneMeansAgreed, Agrees
      <3>1. CASE j = run[c].job
        BY <1>2, <3>1 DEF Calm, Ordered, Outcome, Act
      <3>2. CASE j # run[c].job
        BY <2>2, <3>2 DEF Calm, Ordered, Outcome, DoneMeansAgreed, Agrees
      <3> QED BY <3>1, <3>2
    <2>7. Outcome'
      BY <1>2, <2>1, <2>2, <2>5, <2>6 DEF Calm, Ordered, Outcome, KnownLive, LiveEvents, Live, Act, Agrees
    <2> QED BY <1>1, <2>3, <2>4, <2>7 DEF Ordered
  <1> QED BY <1>3, <1>4 DEF Notify, CompleteJob

-----------------------------------------------------------------------------
LEMMA OrderedStep ==
  ASSUME Calm, [Next]_vars, ~disturbed'
  PROVE  Ordered'
  <1>1. CASE UNCHANGED <<row, calendar, orphans, req, exec, run, jstat>>
    BY <1>1 DEF Calm, Ordered, Quiet, Keys, Inserting, Made, Current, Working, Known, KnownLive,
       LiveEvents, Live, Marking, Act, Outcome, Agrees, CancelMade, DoneMeansAgreed
  <1>2. ASSUME NEW m \in Messages, Duplicate(m)
        PROVE  UNCHANGED <<row, calendar, orphans, req, exec, run, jstat>>
    BY <1>2 DEF Duplicate, DuplicateMessage, JobStep, rowVars, historyVars
  <1>3. UNCHANGED vars => UNCHANGED <<row, calendar, orphans, req, exec, run, jstat>>
    BY DEF vars, rowVars, automationVars, historyVars
  <1>4. ASSUME NEW c \in Consumers, ConsumerStep(c) \/ Crash(c) \/ \E m \in Messages : Claim(c, m)
        PROVE  Ordered'
    BY <1>4, ClaimOrdered, CheckOrdered, FailOrdered, LoadOrdered, CallOrdered, MarkOrdered,
       ForgetOrdered, NotifyOrdered DEF ConsumerStep
  <1>5. ASSUME NEW q \in Callers, CallerStep(q) PROVE Ordered'
    BY <1>5, PrepareOrdered, EnqueueOrdered, RequestOrdered DEF CallerStep
  <1> QED BY <1>1, <1>2, <1>3, <1>4, <1>5, AskOrdered DEF Next

LEMMA OrderedInit == Init => EInv
  <1> SUFFICES ASSUME Init PROVE Ordered
    BY DEF EInv
  <1>1. \A q \in Callers : req[q].pc = "idle"
    BY DEF Init, NoRequest
  <1>2. \A c \in Consumers : exec[c].pc = "idle"
    BY DEF Init, NoExecution
  <1>3. \A j \in ScheduleJobs : jstat[j] = "none"
    BY DEF Init, QueueInit
  <1>4. row = NewRow /\ KnownLive = {}
    BY ScheduleAssumption DEF Init, KnownLive, LiveEvents, Live
  <1> QED BY <1>1, <1>2, <1>3, <1>4 DEF Ordered, Quiet, Keys, Inserting, Made, Current, Working,
          Past, Known, Marking, Outcome, DoneMeansAgreed, NewRow

\* As long as nothing goes round the version check, every version has one
\* request and one job, the newest job is executed by one invocation, and the
\* calendar holds at most the event the row names or is about to name and the
\* events of invocations that ended before markScheduled had recorded them.
THEOREM ScheduleOrdered == Spec => []EInv
  <1>1. SInv /\ TInv /\ QFacts /\ EInv /\ [Next]_vars => EInv'
    BY DisturbanceStays, OrderedStep DEF EInv, Calm
  <1> QED BY OrderedInit, <1>1, TypesKnown, PTL DEF Spec

\* Undisturbed, jobs that run late, again, out of order or fail half way, at any
\* statement or call, leave an interview at most one event in the calendar that
\* was recorded or is about to be.
THEOREM ScheduleOneEvent == Spec => []OneLiveEvent
  <1>1. SInv /\ TInv /\ QFacts /\ EInv => OneLiveEvent
    <2> SUFFICES ASSUME Calm PROVE Cardinality(KnownLive) <= 1
      BY DEF EInv, Calm, OneLiveEvent, KnownLive
    <2>1. \E x : KnownLive \subseteq {x}
      <3>1. CASE \E c \in Consumers : Marking(c)
        BY <3>1 DEF Calm, Ordered, Known
      <3>2. CASE ~\E c \in Consumers : Marking(c)
        BY <3>2 DEF Calm, Ordered, Known
      <3> QED BY <3>1, <3>2
    <2>2. PICK x : KnownLive \subseteq {x}
      BY <2>1
    <2>3. IsFiniteSet({x}) /\ Cardinality({x}) = 1
      BY FS_Singleton
    <2> QED BY <2>2, <2>3, FS_Subset
  <1> QED BY <1>1, ScheduleOrdered, TypesKnown, PTL

\* Undisturbed, a reschedule that succeeded and is the newest job left the
\* row's event at the row's time.
THEOREM RescheduleTells == Spec => []RescheduleAgrees
  <1>1. EInv => RescheduleAgrees
    BY DEF EInv, Ordered, Outcome, RescheduleAgrees
  <1> QED BY <1>1, ScheduleOrdered, PTL

\* Undisturbed, a finished cancellation left no event but those that were never
\* recorded.
THEOREM CancellationEmpties == Spec => []CancelledIsEmpty
  <1>1. EInv => CancelledIsEmpty
    BY DEF EInv, Ordered, Outcome, CancelledIsEmpty, KnownLive
  <1> QED BY <1>1, ScheduleOrdered, PTL

\* Undisturbed, no job that was queued before a cancellation schedules the
\* interview again.
THEOREM CancellationStays == Spec => CancelledStays
  <1>1. ASSUME Calm, [Next]_vars, ~disturbed', row.status = "cancelled"
        PROVE  row'.status # "scheduled"
    <2>1. ASSUME NEW q \in Callers, CallerStep(q) PROVE row'.status # "scheduled"
      <3>1. CASE PrepareSchedule(q) \/ PrepareCancel(q)
        BY <1>1, <3>1 DEF PrepareSchedule, PrepareCancel, Prepare, Calm, SInv, Shapes, Rows
      <3>2. CASE ~(PrepareSchedule(q) \/ PrepareCancel(q))
        BY <1>1, <2>1, <3>2 DEF CallerStep, Enqueue, Send, SaveResult, ScheduleOffline, CardWrites,
           StartWrites, StartLoads, RequestCalls, DirectSaves, StartSaves, RequestDies, Write, rowVars,
           Calm, Ordered, Quiet, Is, Automated, SInv, Shapes, Rows
      <3> QED BY <3>1, <3>2
    <2>2. ASSUME NEW q \in Callers, NEW kind, NEW t, Ask(q, kind, t) PROVE row' = row
      BY <2>2 DEF Ask, rowVars
    <2>3. ASSUME NEW c \in Consumers,
                 ConsumerStep(c) \/ Crash(c) \/ \E m \in Messages : Claim(c, m)
          PROVE  row'.status # "scheduled"
      <3>1. ~MarkScheduled(c)
        BY <1>1, MarkOrdered
      <3>2. UNCHANGED row \/ MarkCancelled(c) \/ Review(c)
        BY <2>3, <3>1 DEF ConsumerStep, Crash, Claim, Check, Load, Create, Update, Delete,
           StatementFails, Notify, Retry, Fail, Call, JobStep, rowVars
      <3> QED BY <1>1, <3>2 DEF MarkCancelled, Review, Calm, SInv, Shapes, Rows
    <2>4. ASSUME NEW m \in Messages, Duplicate(m) PROVE row' = row
      BY <2>4 DEF Duplicate, JobStep, rowVars
    <2>5. UNCHANGED vars => row' = row
      BY DEF vars, rowVars
    <2> QED BY <1>1, <2>1, <2>2, <2>3, <2>4, <2>5 DEF Next
  <1>2. SInv /\ TInv /\ QFacts /\ EInv /\ [Next]_vars =>
          [~disturbed' /\ row.status = "cancelled" => row'.status # "scheduled"]_vars
    BY <1>1, DisturbanceStays DEF EInv, Calm
  <1> QED BY <1>2, ScheduleOrdered, TypesKnown, PTL DEF Spec, CancelledStays

=============================================================================
