------------------------- MODULE TalentReviewProofs -------------------------
(***************************************************************************)
(* For any numbers of resumes, records, clerks, requests, failing calls    *)
(* and dying invocations: a record of the screening queue is decided once  *)
(* and for all, and the two timestamps of a resume say what its status     *)
(* says.                                                                   *)
(*                                                                         *)
(* Neither property is inductive.  That a commit finds its record          *)
(* undecided needs that the record is still claimed by the clerk (Held)    *)
(* and by no other (Alone); that a stamp fits the status needs that the    *)
(* clerk who is about to write it wrote the status (Stamps).               *)
(***************************************************************************)
EXTENDS TalentReview, TLAPS

Holding == {"commit", "release"}
Deciding == {"read", "write", "stamp"}

\* A clerk about to commit holds the claim of an undecided record; one about to
\* release holds it unless the commit took effect.
Held ==
    \A c \in Clerks :
        /\ op[c].pc \in Deciding => op[c].resume \in Resumes /\ op[c].kind \in Kinds
        /\ op[c].pc \in Holding =>
              /\ op[c].record \in Records /\ op[c].resume \in Resumes
              /\ op[c].kind \in {"approve", "reject"} /\ (op[c].inserts => op[c].kind = "approve")
              /\ Claimed(c) \/ (op[c].pc = "release" /\ Decided(op[c].record))
              /\ record[op[c].record].resume = op[c].resume

\* Two clerks never work on one record.
Alone ==
    \A c, d \in Clerks :
        op[c].pc \in Holding /\ op[d].pc \in Holding /\ op[c].record = op[d].record => c = d

\* A record that exists belongs to a resume.
Linked == \A e \in Records : record[e].status # "none" => record[e].resume \in Resumes

\* Only an approval puts a row into the talent pool.
PoolEmpty == \A e \in Records : ~Decided(e) => pool[e] = 0

\* A resume nobody disturbed has at most one decision between its two
\* statements, and that one wrote the status.
Stamps ==
    \A x \in Resumes : x \notin torn =>
        /\ \A c, d \in Clerks :
              op[c].pc = "stamp" /\ op[c].resume = x /\ op[d].pc = "stamp" /\ op[d].resume = x => c = d
        /\ \A c \in Clerks :
              op[c].pc = "stamp" /\ op[c].resume = x => resume[x].status = NewStatus(op[c].kind)
        /\ (\A c \in Clerks : ~(op[c].pc = "stamp" /\ op[c].resume = x)) => Agrees(resume[x])

RInv == TypeOK /\ Linked /\ Held /\ Alone /\ PoolEmpty /\ Stamps

-----------------------------------------------------------------------------
(* What the decisions write *)

\* Each kind of decision writes a status.
LEMMA NewStatusType == \A kind \in Kinds : NewStatus(kind) \in Statuses
  BY DEF Kinds, NewStatus, Statuses

\* The two columns after a decision timestamp, for each event.
LEMMA StampColumns ==
  ASSUME NEW row \in Rows, NEW event \in {"approved", "rejected", "reset"}
  PROVE  /\ Stamped(row, event) \in Rows
         /\ Stamped(row, event).status = row.status
         /\ Stamped(row, event).approved <=> event = "approved"
         /\ Stamped(row, event).rejected <=> event = "rejected"
<1>1. PICK s \in Statuses, a \in BOOLEAN, r \in BOOLEAN :
        row = [status |-> s, approved |-> a, rejected |-> r]
  BY DEF Rows
<1>2. ASSUME NEW b \in BOOLEAN, NEW d \in BOOLEAN,
             Stamped(row, event) = [row EXCEPT !.approved = b, !.rejected = d]
      PROVE  Stamped(row, event) = [status |-> row.status, approved |-> b, rejected |-> d]
  BY <1>1, <1>2
<1>3. CASE event = "approved"
  <2>1. (event = "approved") = TRUE /\ (event = "rejected") = FALSE
    BY <1>3
  <2>2. Stamped(row, event) = [row EXCEPT !.approved = TRUE, !.rejected = FALSE]
    BY <2>1, Zenon DEF Stamped
  <2> QED  BY <1>1, <1>2, <1>3, <2>2 DEF Rows
<1>4. CASE event = "rejected"
  <2>1. (event = "approved") = FALSE /\ (event = "rejected") = TRUE
    BY <1>4
  <2>2. Stamped(row, event) = [row EXCEPT !.approved = FALSE, !.rejected = TRUE]
    BY <2>1, Zenon DEF Stamped
  <2> QED  BY <1>1, <1>2, <1>4, <2>2 DEF Rows
<1>5. CASE event = "reset"
  <2>1. (event = "approved") = FALSE /\ (event = "rejected") = FALSE
    BY <1>5
  <2>2. Stamped(row, event) = [row EXCEPT !.approved = FALSE, !.rejected = FALSE]
    BY <2>1, Zenon DEF Stamped
  <2> QED  BY <1>1, <1>2, <1>5, <2>2 DEF Rows
<1> QED
  BY <1>3, <1>4, <1>5

\* The stamp of a decision fits the status it writes.
LEMMA StampFits ==
  ASSUME NEW row \in Rows, NEW kind \in Kinds, row.status = NewStatus(kind)
  PROVE  Stamped(row, Event(kind)) \in Rows /\ Agrees(Stamped(row, Event(kind)))
<1>1. Event(kind) \in {"approved", "rejected", "reset"}
  BY DEF Kinds, Event
<1>2. Event(kind) = "approved" <=> NewStatus(kind) \in {"approved", "pending_interview"}
  BY DEF Kinds, Event, NewStatus
<1>3. Event(kind) = "rejected" <=> NewStatus(kind) = "rejected"
  BY DEF Kinds, Event, NewStatus
<1> QED
  BY <1>1, <1>2, <1>3, StampColumns DEF Agrees

\* What a commit or a business decision writes at once fits as well.
LEMMA ConcludedFits ==
  ASSUME NEW status \in {"approved", "rejected"}
  PROVE  Concluded(status) \in Rows /\ Agrees(Concluded(status)) /\ Concluded(status).status = status
<1> DEFINE blank == [status |-> status, approved |-> FALSE, rejected |-> FALSE]
<1>1. blank \in Rows /\ blank.status = status
  BY DEF Rows, Statuses
<1>2. Concluded(status) = Stamped(blank, status)
  BY DEF Concluded
<1> HIDE DEF blank
<1> QED
  BY <1>1, <1>2, StampColumns DEF Agrees

-----------------------------------------------------------------------------
(* The inductive invariant *)

\* It holds at first.
LEMMA ReviewInit == Init => RInv
<1> SUFFICES ASSUME Init PROVE RInv
  OBVIOUS
<1>1. NoOp \in Ops /\ NoOp.pc = "idle"
  BY DEF NoOp, Ops
<1>2. TypeOK
  BY <1>1, ReviewAssumption DEF Init, TypeOK, Rows, RecordRows, Statuses, RecordStatus
<1>3. Held /\ Alone
  BY <1>1 DEF Init, Held, Alone, Holding, Deciding
<1>4. PoolEmpty /\ Linked
  BY DEF Init, PoolEmpty, Linked
<1>5. Stamps
  BY <1>1 DEF Init, Stamps, Agrees
<1> QED
  BY <1>2, <1>3, <1>4, <1>5 DEF RInv

\* A step that only moves clerk c to a point where it neither holds a record
\* nor owes a stamp; what it leaves behind is torn.
LEMMA Leaves ==
  ASSUME RInv, NEW c \in Clerks, NEW o \in Ops, op' = [op EXCEPT ![c] = o],
         Abandons(c), UNCHANGED <<resume, record, pool>>,
         o.pc \in {"idle", "read", "write"},
         o.pc # "idle" => o.resume \in Resumes /\ o.kind \in Kinds,
         asked' \in 0..MaxAsked, faults' \in 0..MaxFaults, deaths' \in 0..MaxDeaths
  PROVE  RInv'
<1>1. \A x \in Resumes : x \notin torn' <=> x \notin torn /\ ~(op[c].pc = "stamp" /\ op[c].resume = x)
  BY DEF Abandons, At
<1>2. \A d \in Clerks : op'[d] = IF d = c THEN o ELSE op[d]
  BY DEF RInv, TypeOK
<1>3. TypeOK'
  <2>1. op[c].pc = "stamp" => op[c].resume \in Resumes
    BY DEF RInv, Held, Deciding
  <2>2. torn' \subseteq Resumes
    BY <2>1 DEF Abandons, At, RInv, TypeOK
  <2> QED  BY <2>2 DEF RInv, TypeOK
<1>4. Held'
  BY <1>2 DEF RInv, Held, Holding, Deciding, Claimed, Decided
<1>5. Alone'
  BY <1>2 DEF RInv, Alone, Holding
<1>6. PoolEmpty' /\ Linked'
  BY DEF RInv, PoolEmpty, Linked, Decided
<1>7. Stamps'
  BY <1>1, <1>2 DEF RInv, Stamps, Agrees
<1> QED
  BY <1>3, <1>4, <1>5, <1>6, <1>7 DEF RInv

\* Where Onward takes a clerk: to an idle state, or to the next id of the batch.
LEMMA OnwardTo ==
  ASSUME TypeOK, NEW c \in Clerks, op[c].pc \in Deciding, op[c].kind \in Kinds, Onward(c)
  PROVE  \E o \in Ops : /\ op' = [op EXCEPT ![c] = o]
                        /\ o.pc \in {"idle", "read"}
                        /\ o.pc # "idle" => o.resume \in Resumes /\ o.kind \in Kinds
<1>0. op[c] \in Ops
  BY DEF TypeOK
<1>1. CASE End(c)
  <2>1. NoOp \in Ops /\ NoOp.pc = "idle"
    BY DEF NoOp, Ops
  <2> QED  BY <1>1, <2>1 DEF End
<1>2. ASSUME NEW x \in op[c].todo,
             op' = [op EXCEPT ![c].pc = "read", ![c].resume = x, ![c].todo = @ \ {x}]
      PROVE  \E o \in Ops : /\ op' = [op EXCEPT ![c] = o]
                            /\ o.pc \in {"idle", "read"}
                            /\ o.pc # "idle" => o.resume \in Resumes /\ o.kind \in Kinds
  <2> DEFINE o == [op[c] EXCEPT !.pc = "read", !.resume = x, !.todo = @ \ {x}]
  <2>1. x \in Resumes
    BY <1>0 DEF Ops
  <2>2. o \in Ops /\ o.pc = "read" /\ o.resume = x /\ o.kind = op[c].kind
    BY <1>0, <2>1 DEF Ops
  <2>3. op' = [op EXCEPT ![c] = o]
    BY <1>2 DEF TypeOK
  <2> QED  BY <2>1, <2>2, <2>3
<1> QED
  BY <1>1, <1>2 DEF Onward

\* The bound on requests.
LEMMA AskingCounts ==
  ASSUME TypeOK, asked < MaxAsked, asked' = asked + 1
  PROVE  asked' \in 0..MaxAsked
  BY ReviewAssumption DEF TypeOK

\* The bounds on failing calls and on deaths.
LEMMA FaultCounts ==
  ASSUME TypeOK, Fault
  PROVE  faults' \in 0..MaxFaults
  BY ReviewAssumption DEF TypeOK, Fault

LEMMA DeathCounts ==
  ASSUME TypeOK, deaths < MaxDeaths, deaths' = deaths + 1
  PROVE  deaths' \in 0..MaxDeaths
  BY ReviewAssumption DEF TypeOK

\* A new record has no clerk.
LEMMA EnterKeeps ==
  ASSUME RInv, NEW e \in Records, NEW x \in Resumes, Enter(e, x)
  PROVE  RInv'
<1> DEFINE row == [status |-> "pending", resume |-> x, claim |-> NoToken]
<1>1. row \in RecordRows /\ row.status = "pending"
  BY DEF RecordRows, RecordStatus
<1>2. \A d \in Records : record'[d] = IF d = e THEN row ELSE record[d]
  BY DEF Enter, RInv, TypeOK
<1>3. TypeOK'
  BY <1>1, <1>2 DEF Enter, RInv, TypeOK
<1>4. \A c \in Clerks : op[c].pc \in Holding => op[c].record # e
  BY DEF Enter, RInv, Held, Claimed, Decided
<1> HIDE DEF row
<1>5. Held'
  BY <1>2, <1>4 DEF Enter, RInv, Held, Holding, Claimed, Decided
<1>6. Alone'
  BY DEF Enter, RInv, Alone
<1>7. PoolEmpty' /\ Linked'
  BY <1>1, <1>2 DEF Enter, RInv, PoolEmpty, Linked, Decided, row
<1>8. Stamps'
  BY DEF Enter, RInv, Stamps, Agrees
<1> QED
  BY <1>3, <1>5, <1>6, <1>7, <1>8 DEF RInv

\* A claim takes a record no clerk works on.
LEMMA ClaimKeeps ==
  ASSUME RInv, NEW c \in Clerks, NEW e \in Records, NEW kind \in {"approve", "reject"},
         NEW inserts \in BOOLEAN, NEW t \in Tokens, inserts => kind = "approve",
         Claim(c, e, kind, inserts, t)
  PROVE  RInv'
<1> DEFINE o == [pc |-> "commit", kind |-> kind, resume |-> record[e].resume,
                 todo |-> {}, record |-> e, token |-> t, inserts |-> inserts]
           row == [record[e] EXCEPT !.status = "processing", !.claim = t]
<1>1. record[e] \in RecordRows /\ record[e].status = "pending" /\ record[e].resume \in Resumes
  BY DEF Claim, RInv, Linked, TypeOK
<1>2. row \in RecordRows /\ row.status = "processing" /\ row.claim = t /\ row.resume = record[e].resume
  BY <1>1 DEF RecordRows, RecordStatus
<1>3. o \in Ops /\ o.pc = "commit" /\ o.kind = kind /\ o.resume = record[e].resume
      /\ o.record = e /\ o.token = t /\ (o.inserts => kind = "approve")
  BY <1>1 DEF Ops, Kinds
<1>4. op' = [op EXCEPT ![c] = o] /\ record' = [record EXCEPT ![e] = row]
  BY DEF Claim, RInv, TypeOK
<1> HIDE DEF o, row
<1>5. \A d \in Clerks : op'[d] = IF d = c THEN o ELSE op[d]
  BY <1>4 DEF RInv, TypeOK
<1>6. \A d \in Records : record'[d] = IF d = e THEN row ELSE record[d]
  BY <1>4 DEF RInv, TypeOK
<1>7. TypeOK'
  <2>1. asked' \in 0..MaxAsked
    BY AskingCounts DEF Claim, Asking, RInv
  <2>2. op' \in [Clerks -> Ops] /\ record' \in [Records -> RecordRows]
    BY <1>2, <1>3, <1>4 DEF RInv, TypeOK
  <2>3. UNCHANGED <<resume, pool, torn, faults, deaths>>
    BY DEF Claim
  <2> QED  BY <2>1, <2>2, <2>3 DEF RInv, TypeOK
<1>8. \A d \in Clerks : op[d].pc \in Holding => op[d].record # e
  BY <1>1 DEF RInv, Held, Claimed, Decided
<1>9. Held'
  BY <1>1, <1>2, <1>3, <1>5, <1>6, <1>8 DEF RInv, Held, Holding, Deciding, Claimed, Decided
<1>10. Alone'
  BY <1>3, <1>5, <1>8 DEF RInv, Alone, Holding
<1>11. PoolEmpty' /\ Linked'
  BY <1>1, <1>2, <1>6 DEF Claim, RInv, PoolEmpty, Linked, Decided
<1>12. op[c].pc # "stamp"
  BY DEF Claim, Asking, NoOp
<1>13. Stamps'
  BY <1>3, <1>5, <1>12 DEF Claim, RInv, Stamps, Agrees
<1> QED
  BY <1>7, <1>9, <1>10, <1>11, <1>13 DEF RInv

\* What the batch of a commit writes: the record, its resume, the pool.
LEMMA CommitWrites ==
  ASSUME RInv, NEW c \in Clerks, op[c].pc = "commit", CommitBatch(c)
  PROVE  \E e \in Records, x \in Resumes, status \in {"approved", "rejected"}, n \in {0, 1} :
            /\ op[c].record = e /\ op[c].resume = x /\ record[e].resume = x
            /\ ~Decided(e) /\ (n = 1 => status = "approved")
            /\ record' = [record EXCEPT ![e].status = status]
            /\ resume' = [resume EXCEPT ![x] = Concluded(status)]
            /\ pool' = [pool EXCEPT ![e] = n]
            /\ Disturbs(x, Outstanding(x))
<1> DEFINE e == op[c].record
           x == op[c].resume
           status == NewStatus(op[c].kind)
           n == IF op[c].inserts THEN 1 ELSE 0
<1>1. /\ e \in Records /\ x \in Resumes /\ record[e].resume = x
      /\ op[c].kind \in {"approve", "reject"} /\ (op[c].inserts => op[c].kind = "approve")
      /\ Claimed(c)
  BY DEF RInv, Held, Holding
<1>2. status \in {"approved", "rejected"} /\ (n = 1 => status = "approved") /\ n \in {0, 1}
  BY <1>1 DEF NewStatus
<1>3. ~Decided(e) /\ pool[e] = 0
  BY <1>1 DEF Claimed, Decided, RInv, PoolEmpty
<1>4. /\ record' = [record EXCEPT ![e].status = status]
      /\ resume' = [resume EXCEPT ![x] = Concluded(status)]
      /\ Disturbs(x, Outstanding(x))
  BY <1>1 DEF CommitBatch
<1>5. pool' = [pool EXCEPT ![e] = n]
  <2>1. pool' = [pool EXCEPT ![e] = IF op[c].inserts THEN pool[e] + 1 ELSE pool[e]]
    BY DEF CommitBatch
  <2> QED  BY <1>3, <2>1
<1> HIDE DEF e, x, status, n
<1>6. op[c].record = e /\ op[c].resume = x
  BY DEF e, x
<1> QED
  BY <1>1, <1>2, <1>3, <1>4, <1>5, <1>6

\* The commit, with the clerk done or about to release: its record is decided,
\* and so is its resume, unless another decision on it was not through.
LEMMA CommitKeeps ==
  ASSUME RInv, NEW c \in Clerks, op[c].pc = "commit", CommitBatch(c),
         NEW o \in {NoOp, [op[c] EXCEPT !.pc = "release"]}, op' = [op EXCEPT ![c] = o],
         UNCHANGED <<asked, deaths>>, faults' \in 0..MaxFaults
  PROVE  RInv'
<1>1. PICK e \in Records, x \in Resumes, status \in {"approved", "rejected"}, n \in {0, 1} :
            /\ op[c].record = e /\ op[c].resume = x /\ record[e].resume = x
            /\ ~Decided(e) /\ (n = 1 => status = "approved")
            /\ record' = [record EXCEPT ![e].status = status]
            /\ resume' = [resume EXCEPT ![x] = Concluded(status)]
            /\ pool' = [pool EXCEPT ![e] = n]
            /\ Disturbs(x, Outstanding(x))
  BY CommitWrites
<1>2. Concluded(status) \in Rows /\ Agrees(Concluded(status))
  BY ConcludedFits
<1> DEFINE row == [record[e] EXCEPT !.status = status]
<1>3. row \in RecordRows /\ row.status = status /\ row.resume = x
  BY <1>1 DEF RInv, TypeOK, RecordRows, RecordStatus
<1>4. \A d \in Records : record'[d] = IF d = e THEN row ELSE record[d]
  BY <1>1 DEF RInv, TypeOK
<1> HIDE DEF row
<1>5. /\ o \in Ops /\ o.pc \in {"idle", "release"}
      /\ o.pc = "release" => o.record = e /\ o.resume = x /\ o.kind = op[c].kind /\ (o.inserts => op[c].inserts)
  <2>1. op[c] \in Ops
    BY DEF RInv, TypeOK
  <2>2. NoOp \in Ops /\ NoOp.pc = "idle"
    BY DEF NoOp, Ops
  <2>3. CASE o = NoOp
    BY <2>2, <2>3
  <2>4. CASE o = [op[c] EXCEPT !.pc = "release"]
    <3>1. o \in Ops /\ o.pc = "release"
      BY <2>1, <2>4 DEF Ops
    <3>2. o.record = op[c].record /\ o.resume = op[c].resume /\ o.kind = op[c].kind
      BY <2>1, <2>4 DEF Ops
    <3>3. o.inserts => op[c].inserts
      BY <2>1, <2>4 DEF Ops
    <3> QED  BY <1>1, <3>1, <3>2, <3>3
  <2> QED  BY <2>3, <2>4
<1>6. \A d \in Clerks : op'[d] = IF d = c THEN o ELSE op[d]
  BY DEF RInv, TypeOK
<1>7. torn' \subseteq Resumes
  BY <1>1 DEF Disturbs, RInv, TypeOK
<1>8. TypeOK'
  BY <1>1, <1>2, <1>3, <1>4, <1>5, <1>7 DEF RInv, TypeOK
<1>9. \A d \in Clerks : d # c /\ op[d].pc \in Holding => op[d].record # e
  BY <1>1 DEF RInv, Alone, Holding
<1>10. Held'
  BY <1>1, <1>3, <1>4, <1>5, <1>6, <1>9 DEF RInv, Held, Holding, Deciding, Claimed, Decided
<1>11. Alone'
  BY <1>1, <1>5, <1>6, <1>9 DEF RInv, Alone, Holding
<1>12. PoolEmpty' /\ Linked'
  BY <1>1, <1>3, <1>4 DEF RInv, PoolEmpty, Linked, Decided, TypeOK
<1>13. Stamps'
  <2>1. ASSUME NEW y \in Resumes, y # x
        PROVE  resume'[y] = resume[y] /\ (y \in torn' <=> y \in torn)
    BY <1>1, <2>1 DEF Disturbs, RInv, TypeOK
  <2>2. resume'[x] = Concluded(status)
    BY <1>1 DEF RInv, TypeOK
  <2>3. x \notin torn' => \A d \in Clerks : ~(op[d].pc = "stamp" /\ op[d].resume = x)
    BY <1>1 DEF Disturbs, Outstanding, At
  <2> QED  BY <1>2, <1>5, <1>6, <2>1, <2>2, <2>3 DEF RInv, Stamps, Agrees
<1> QED
  BY <1>8, <1>10, <1>11, <1>12, <1>13 DEF RInv

\* A commit that was rolled back leaves the claim to be released.
LEMMA RollbackKeeps ==
  ASSUME RInv, NEW c \in Clerks, op[c].pc = "commit",
         op' = [op EXCEPT ![c].pc = "release"],
         UNCHANGED <<resume, record, pool, torn, asked, deaths>>, faults' \in 0..MaxFaults
  PROVE  RInv'
<1> DEFINE o == [op[c] EXCEPT !.pc = "release"]
<1>1. /\ o \in Ops /\ o.pc = "release" /\ o.record = op[c].record /\ o.resume = op[c].resume
      /\ o.kind = op[c].kind /\ o.inserts = op[c].inserts /\ o.token = op[c].token
  BY DEF RInv, TypeOK, Ops
<1>2. op' = [op EXCEPT ![c] = o]
  BY DEF RInv, TypeOK
<1>3. \A d \in Clerks : op'[d] = IF d = c THEN o ELSE op[d]
  BY <1>2 DEF RInv, TypeOK
<1> HIDE DEF o
<1>4. TypeOK'
  BY <1>1, <1>2 DEF RInv, TypeOK
<1>5. Held'
  BY <1>1, <1>3 DEF RInv, Held, Holding, Deciding, Claimed, Decided
<1>6. Alone'
  BY <1>1, <1>3 DEF RInv, Alone, Holding
<1>7. PoolEmpty' /\ Linked'
  BY DEF RInv, PoolEmpty, Linked, Decided
<1>8. Stamps'
  BY <1>1, <1>3 DEF RInv, Stamps, Agrees
<1> QED
  BY <1>4, <1>5, <1>6, <1>7, <1>8 DEF RInv

\* A release only opens a record that is still claimed.
LEMMA ReleaseKeeps ==
  ASSUME RInv, NEW c \in Clerks, Release(c)
  PROVE  RInv'
<1> DEFINE e == op[c].record
           row == IF Claimed(c) THEN [record[e] EXCEPT !.status = "pending"] ELSE record[e]
<1>1. /\ op[c].pc = "release" /\ e \in Records /\ record[e].resume \in Resumes
      /\ Claimed(c) \/ Decided(e)
  BY DEF Release, At, RInv, Held, Holding
<1>2. /\ row \in RecordRows /\ row.resume = record[e].resume
      /\ row.status \in {"approved", "rejected"} <=> Decided(e)
  BY <1>1 DEF RInv, TypeOK, RecordRows, RecordStatus, Claimed, Decided
<1>3. record' = [record EXCEPT ![e] = row]
  BY DEF Release, RInv, TypeOK
<1>4. \A d \in Records : record'[d] = IF d = e THEN row ELSE record[d]
  BY <1>3 DEF RInv, TypeOK
<1>5. NoOp \in Ops /\ NoOp.pc = "idle"
  BY DEF NoOp, Ops
<1>6. \A d \in Clerks : op'[d] = IF d = c THEN NoOp ELSE op[d]
  BY DEF Release, End, RInv, TypeOK
<1>7. \A d \in Clerks : d # c /\ op[d].pc \in Holding => op[d].record # e
  BY <1>1 DEF RInv, Alone, Holding
<1> HIDE DEF row, e
<1>8. TypeOK'
  BY <1>2, <1>3, <1>5 DEF Release, End, RInv, TypeOK
<1>9. Held'
  BY <1>4, <1>5, <1>6, <1>7 DEF RInv, Held, Holding, Deciding, Claimed, Decided
<1>10. Alone'
  BY <1>5, <1>6 DEF RInv, Alone, Holding
<1>11. PoolEmpty' /\ Linked'
  BY <1>1, <1>2, <1>4 DEF Release, RInv, PoolEmpty, Linked, Decided
<1>12. Stamps'
  BY <1>1, <1>5, <1>6 DEF Release, RInv, Stamps, Agrees
<1> QED
  BY <1>8, <1>9, <1>10, <1>11, <1>12 DEF RInv

\* A request to decide on resumes.
LEMMA AskKeeps ==
  ASSUME RInv, NEW c \in Clerks, NEW kind \in Kinds, NEW x \in Resumes,
         (\E rest \in SUBSET Resumes : DecideBatch(c, kind, x, rest)) \/ Decide(c, kind, x)
  PROVE  RInv'
<1>1. PICK o \in Ops : /\ op' = [op EXCEPT ![c] = o]
                       /\ o.pc \in {"read", "write"} /\ o.resume = x /\ o.kind = kind
  <2>1. ASSUME NEW rest \in SUBSET Resumes, DecideBatch(c, kind, x, rest)
        PROVE  \E o \in Ops : /\ op' = [op EXCEPT ![c] = o]
                              /\ o.pc \in {"read", "write"} /\ o.resume = x /\ o.kind = kind
    <3> DEFINE o == [NoOp EXCEPT !.pc = "read", !.kind = kind, !.resume = x, !.todo = rest \ {x}]
    <3>1. o \in Ops /\ o.pc = "read" /\ o.resume = x /\ o.kind = kind
      BY DEF NoOp, Ops
    <3>2. op' = [op EXCEPT ![c] = o]
      BY <2>1 DEF DecideBatch
    <3> HIDE DEF o
    <3> QED  BY <3>1, <3>2
  <2>2. ASSUME Decide(c, kind, x)
        PROVE  \E o \in Ops : /\ op' = [op EXCEPT ![c] = o]
                              /\ o.pc \in {"read", "write"} /\ o.resume = x /\ o.kind = kind
    <3> DEFINE o == [NoOp EXCEPT !.pc = "write", !.kind = kind, !.resume = x]
    <3>1. o \in Ops /\ o.pc = "write" /\ o.resume = x /\ o.kind = kind
      BY DEF NoOp, Ops
    <3>2. op' = [op EXCEPT ![c] = o]
      BY <2>2 DEF Decide
    <3> HIDE DEF o
    <3> QED  BY <3>1, <3>2
  <2> QED  BY <2>1, <2>2
<1>2. Asking(c) /\ UNCHANGED <<resume, record, pool, torn, faults, deaths>>
  BY DEF DecideBatch, Decide
<1>3. op[c].pc = "idle"
  BY <1>2 DEF Asking, NoOp
<1>4. asked' \in 0..MaxAsked
  BY <1>2, AskingCounts DEF Asking, RInv
<1>5. Abandons(c)
  BY <1>2, <1>3 DEF Abandons, At
<1>6. faults' \in 0..MaxFaults /\ deaths' \in 0..MaxDeaths
  BY <1>2 DEF RInv, TypeOK
<1> QED
  BY <1>1, <1>2, <1>4, <1>5, <1>6, Leaves

\* A clerk goes on with the next id, or with the status of this one.
LEMMA ReadStatusKeeps ==
  ASSUME RInv, NEW c \in Clerks, ReadStatus(c)
  PROVE  RInv'
<1>1. /\ op[c] \in Ops /\ op[c].pc = "read"
      /\ op[c].resume \in Resumes /\ op[c].kind \in Kinds
  BY DEF ReadStatus, At, RInv, TypeOK, Held, Deciding
<1>2. PICK o \in Ops : /\ op' = [op EXCEPT ![c] = o]
                       /\ o.pc \in {"idle", "read", "write"}
                       /\ o.pc # "idle" => o.resume \in Resumes /\ o.kind \in Kinds
  <2>1. CASE Onward(c)
    BY <1>1, <2>1, OnwardTo DEF RInv, Deciding
  <2>2. CASE Continue(c, "write")
    <3> DEFINE o == [op[c] EXCEPT !.pc = "write"]
    <3>1. o \in Ops /\ o.pc = "write" /\ o.resume \in Resumes /\ o.kind \in Kinds
      BY <1>1 DEF Ops
    <3>2. op' = [op EXCEPT ![c] = o]
      BY <2>2 DEF Continue, RInv, TypeOK
    <3> QED  BY <3>1, <3>2
  <2> QED  BY <2>1, <2>2 DEF ReadStatus
<1>3. Abandons(c)
  BY <1>1 DEF Abandons, At, ReadStatus
<1>4. asked' \in 0..MaxAsked /\ faults' \in 0..MaxFaults /\ deaths' \in 0..MaxDeaths
  BY DEF ReadStatus, RInv, TypeOK
<1> QED
  BY <1>2, <1>3, <1>4, Leaves DEF ReadStatus

\* A statement fails, or the invocation dies.
LEMMA LossKeeps ==
  ASSUME RInv, NEW c \in Clerks, StatementFails(c) \/ Die(c)
  PROVE  RInv'
<1>1. CASE StatementFails(c)
  <2>1. op[c].pc \in Deciding /\ op[c].kind \in Kinds
    BY <1>1 DEF StatementFails, RInv, Held, Deciding
  <2>2. PICK o \in Ops : /\ op' = [op EXCEPT ![c] = o]
                         /\ o.pc \in {"idle", "read"}
                         /\ o.pc # "idle" => o.resume \in Resumes /\ o.kind \in Kinds
    BY <1>1, <2>1, OnwardTo DEF StatementFails, RInv
  <2>3. asked' \in 0..MaxAsked /\ faults' \in 0..MaxFaults /\ deaths' \in 0..MaxDeaths
    BY <1>1, FaultCounts DEF StatementFails, RInv, TypeOK
  <2> QED  BY <1>1, <2>2, <2>3, Leaves DEF StatementFails
<1>2. CASE Die(c)
  <2>1. NoOp \in Ops /\ NoOp.pc = "idle"
    BY DEF NoOp, Ops
  <2>2. asked' \in 0..MaxAsked /\ faults' \in 0..MaxFaults /\ deaths' \in 0..MaxDeaths
    BY <1>2, DeathCounts DEF Die, RInv, TypeOK
  <2>3. op' = [op EXCEPT ![c] = NoOp] /\ Abandons(c) /\ UNCHANGED <<resume, record, pool>>
    BY <1>2 DEF Die, End
  <2> HIDE DEF NoOp
  <2> QED  BY <2>1, <2>2, <2>3, Leaves
<1> QED
  BY <1>1, <1>2

\* The first of the two statements.
LEMMA WriteStatusKeeps ==
  ASSUME RInv, NEW c \in Clerks, WriteStatus(c)
  PROVE  RInv'
<1> DEFINE x == op[c].resume
           o == [op[c] EXCEPT !.pc = "stamp"]
           row == [resume[x] EXCEPT !.status = NewStatus(op[c].kind)]
<1>1. op[c].pc = "write" /\ x \in Resumes /\ op[c].kind \in Kinds
  BY DEF WriteStatus, At, RInv, Held, Deciding
<1>2. o \in Ops /\ o.pc = "stamp" /\ o.resume = x /\ o.kind = op[c].kind
  BY DEF RInv, TypeOK, Ops
<1>3. row \in Rows /\ row.status = NewStatus(op[c].kind)
  BY <1>1, NewStatusType DEF RInv, TypeOK, Rows
<1>4. op' = [op EXCEPT ![c] = o] /\ resume' = [resume EXCEPT ![x] = row]
  BY <1>1 DEF WriteStatus, Continue, RInv, TypeOK
<1>5. Disturbs(x, Outstanding(x)) /\ UNCHANGED <<record, pool, asked, faults, deaths>>
  BY DEF WriteStatus
<1> HIDE DEF x, o, row
<1>6. \A d \in Clerks : op'[d] = IF d = c THEN o ELSE op[d]
  BY <1>4 DEF RInv, TypeOK
<1>7. \A y \in Resumes : resume'[y] = IF y = x THEN row ELSE resume[y]
  BY <1>4 DEF RInv, TypeOK
<1>8. TypeOK'
  <2>1. torn' \subseteq Resumes
    BY <1>1, <1>5 DEF Disturbs, RInv, TypeOK
  <2> QED  BY <1>2, <1>3, <1>4, <1>5, <2>1 DEF RInv, TypeOK
<1>9. Held'
  BY <1>1, <1>2, <1>5, <1>6 DEF RInv, Held, Holding, Deciding, Claimed, Decided
<1>10. Alone'
  BY <1>2, <1>6 DEF RInv, Alone, Holding
<1>11. PoolEmpty' /\ Linked'
  BY <1>5 DEF RInv, PoolEmpty, Linked, Decided
<1>12. Stamps'
  <2>1. \A y \in Resumes : y # x => (y \in torn' <=> y \in torn)
    BY <1>5 DEF Disturbs
  <2>2. x \notin torn' => \A d \in Clerks : ~(op[d].pc = "stamp" /\ op[d].resume = x)
    BY <1>5 DEF Disturbs, Outstanding, At
  <2> QED  BY <1>1, <1>2, <1>3, <1>6, <1>7, <2>1, <2>2 DEF RInv, Stamps, Agrees
<1> QED
  BY <1>8, <1>9, <1>10, <1>11, <1>12 DEF RInv

\* The second of the two statements.
LEMMA WriteStampKeeps ==
  ASSUME RInv, NEW c \in Clerks, WriteStamp(c)
  PROVE  RInv'
<1> DEFINE x == op[c].resume
           row == Stamped(resume[x], Event(op[c].kind))
<1>1. op[c].pc = "stamp" /\ x \in Resumes /\ op[c].kind \in Kinds
  BY DEF WriteStamp, At, RInv, Held, Deciding
<1>2. PICK o \in Ops : /\ op' = [op EXCEPT ![c] = o]
                       /\ o.pc \in {"idle", "read"}
                       /\ o.pc # "idle" => o.resume \in Resumes /\ o.kind \in Kinds
  BY <1>1, OnwardTo DEF WriteStamp, RInv, Deciding
<1>3. row \in Rows
  <2>1. resume[x] \in Rows /\ Event(op[c].kind) \in {"approved", "rejected", "reset"}
    BY <1>1 DEF RInv, TypeOK, Kinds, Event
  <2> QED  BY <2>1, StampColumns
<1>4. x \notin torn => Agrees(row)
  BY <1>1, StampFits DEF RInv, Stamps, TypeOK
<1>5. resume' = [resume EXCEPT ![x] = row] /\ UNCHANGED <<record, pool, torn, asked, faults, deaths>>
  BY DEF WriteStamp
<1> HIDE DEF row
<1>6. \A d \in Clerks : op'[d] = IF d = c THEN o ELSE op[d]
  BY <1>2 DEF RInv, TypeOK
<1>7. \A y \in Resumes : resume'[y] = IF y = x THEN row ELSE resume[y]
  BY <1>5 DEF RInv, TypeOK
<1>8. TypeOK'
  BY <1>2, <1>3, <1>5 DEF RInv, TypeOK
<1>9. Held'
  BY <1>2, <1>5, <1>6 DEF RInv, Held, Holding, Deciding, Claimed, Decided
<1>10. Alone'
  BY <1>2, <1>6 DEF RInv, Alone, Holding
<1>11. PoolEmpty' /\ Linked'
  BY <1>5 DEF RInv, PoolEmpty, Linked, Decided
<1>12. Stamps'
  BY <1>1, <1>2, <1>4, <1>5, <1>6, <1>7 DEF RInv, Stamps, Agrees
<1> QED
  BY <1>8, <1>9, <1>10, <1>11, <1>12 DEF RInv

\* A business decision.
LEMMA BusinessKeeps ==
  ASSUME RInv, NEW x \in Resumes, NEW status \in {"approved", "rejected"}, BusinessDecides(x, status)
  PROVE  RInv'
<1> DEFINE row == Concluded(status)
<1>1. row \in Rows /\ Agrees(row)
  BY ConcludedFits
<1>2. /\ resume' = [resume EXCEPT ![x] = row] /\ Disturbs(x, Outstanding(x))
      /\ UNCHANGED <<record, pool, op, faults, deaths>>
  BY DEF BusinessDecides
<1>3. asked' \in 0..MaxAsked
  BY AskingCounts DEF BusinessDecides, RInv
<1> HIDE DEF row
<1>4. \A y \in Resumes : resume'[y] = IF y = x THEN row ELSE resume[y]
  BY <1>2 DEF RInv, TypeOK
<1>5. TypeOK'
  <2>1. torn' \subseteq Resumes
    BY <1>2 DEF Disturbs, RInv, TypeOK
  <2> QED  BY <1>1, <1>2, <1>3, <2>1 DEF RInv, TypeOK
<1>6. Held' /\ Alone' /\ PoolEmpty' /\ Linked'
  BY <1>2 DEF RInv, Held, Alone, PoolEmpty, Linked, Claimed, Decided
<1>7. Stamps'
  <2>1. \A y \in Resumes : y # x => (y \in torn' <=> y \in torn)
    BY <1>2 DEF Disturbs
  <2>2. x \notin torn' => \A d \in Clerks : ~(op[d].pc = "stamp" /\ op[d].resume = x)
    BY <1>2 DEF Disturbs, Outstanding, At
  <2> QED  BY <1>1, <1>2, <1>4, <2>1, <2>2 DEF RInv, Stamps, Agrees
<1> QED
  BY <1>5, <1>6, <1>7 DEF RInv

\* Every step keeps the invariant.
LEMMA ReviewStep == RInv /\ [Next]_vars => RInv'
<1> SUFFICES ASSUME RInv, [Next]_vars PROVE RInv'
  OBVIOUS
<1>1. ASSUME NEW e \in Records, NEW x \in Resumes, Enter(e, x) PROVE RInv'
  BY <1>1, EnterKeeps
<1>2. ASSUME NEW c \in Clerks, NEW e \in Records, NEW kind \in {"approve", "reject"},
             NEW inserts \in BOOLEAN, NEW t \in Tokens,
             inserts => kind = "approve", Claim(c, e, kind, inserts, t)
      PROVE  RInv'
  BY <1>2, ClaimKeeps
<1>3. ASSUME NEW c \in Clerks, NEW kind \in {"approve", "reject"}, NEW x \in Resumes,
             NEW rest \in SUBSET Resumes, DecideBatch(c, kind, x, rest)
      PROVE  RInv'
  BY <1>3, AskKeeps DEF Kinds
<1>4. ASSUME NEW c \in Clerks, NEW kind \in {"confirm", "reopen", "interview", "waitlist"},
             NEW x \in Resumes, Decide(c, kind, x)
      PROVE  RInv'
  BY <1>4, AskKeeps DEF Kinds
<1>5. ASSUME NEW c \in Clerks, Commit(c) PROVE RInv'
  <2>1. faults' \in 0..MaxFaults
    BY <1>5 DEF Commit, RInv, TypeOK
  <2> QED  BY <1>5, <2>1, CommitKeeps DEF Commit, At, End
<1>6. ASSUME NEW c \in Clerks, CommitFails(c) PROVE RInv'
  <2>1. op[c].pc = "commit" /\ faults' \in 0..MaxFaults /\ UNCHANGED <<asked, deaths>>
    BY <1>6, FaultCounts DEF CommitFails, At, RInv
  <2>2. op' = [op EXCEPT ![c].pc = "release"]
    BY <1>6 DEF CommitFails, Continue
  <2>3. CASE CommitBatch(c)
    <3> DEFINE o == [op[c] EXCEPT !.pc = "release"]
    <3>1. op' = [op EXCEPT ![c] = o]
      BY <2>2 DEF RInv, TypeOK
    <3> QED  BY <2>1, <2>3, <3>1, CommitKeeps
  <2>4. CASE UNCHANGED <<resume, record, pool, torn>>
    BY <2>1, <2>2, <2>4, RollbackKeeps
  <2> QED  BY <1>6, <2>3, <2>4 DEF CommitFails
<1>7. ASSUME NEW c \in Clerks, Release(c) PROVE RInv'
  BY <1>7, ReleaseKeeps
<1>8. ASSUME NEW c \in Clerks, ReadStatus(c) \/ WriteStatus(c) \/ WriteStamp(c) PROVE RInv'
  BY <1>8, ReadStatusKeeps, WriteStatusKeeps, WriteStampKeeps
<1>9. ASSUME NEW c \in Clerks, StatementFails(c) \/ Die(c) PROVE RInv'
  BY <1>9, LossKeeps
<1>10. ASSUME NEW x \in Resumes, NEW status \in {"approved", "rejected"}, BusinessDecides(x, status)
       PROVE  RInv'
  BY <1>10, BusinessKeeps
<1>11. CASE UNCHANGED vars
  <2>1. UNCHANGED <<resume, record, pool, op, torn, asked, faults, deaths>>
    BY <1>11 DEF vars
  <2> QED
    BY <2>1 DEF RInv, TypeOK, Held, Alone, PoolEmpty, Linked, Stamps, Claimed, Decided, Agrees
<1> QED
  BY <1>1, <1>2, <1>3, <1>4, <1>5, <1>6, <1>7, <1>8, <1>9, <1>10, <1>11 DEF Next, ClerkStep

\* A step that writes a record: its creation, its claim, its commit or a release
\* of what is not decided.
LEMMA DecidedStep ==
  ASSUME RInv, RInv', [Next]_vars, NEW e \in Records
  PROVE  /\ Decided(e) => record'[e] = record[e] /\ pool'[e] = pool[e]
         /\ ~Decided(e) /\ Decided(e)' =>
               /\ resume'[record[e].resume] = Concluded(record'[e].status)
               /\ pool'[e] \in (IF record'[e].status = "approved" THEN {0, 1} ELSE {0})
         /\ ~Decided(e)' => pool'[e] = 0
<1> DEFINE G == /\ Decided(e) => record'[e] = record[e] /\ pool'[e] = pool[e]
                /\ ~Decided(e) /\ Decided(e)' =>
                      /\ resume'[record[e].resume] = Concluded(record'[e].status)
                      /\ pool'[e] \in (IF record'[e].status = "approved" THEN {0, 1} ELSE {0})
<1>1. ASSUME UNCHANGED <<record, pool>> PROVE G
  <2>1. record' = record /\ pool' = pool
    BY <1>1
  <2>2. Decided(e)' <=> Decided(e)
    BY <2>1 DEF Decided
  <2> QED  BY <2>1, <2>2
<1>2. ASSUME NEW d \in Records, NEW x \in Resumes, Enter(d, x) PROVE G
  BY <1>2 DEF Enter, Decided, RInv, TypeOK
<1>3. ASSUME NEW c \in Clerks, NEW d \in Records, NEW kind \in {"approve", "reject"},
             NEW inserts \in BOOLEAN, NEW t \in Tokens, Claim(c, d, kind, inserts, t)
      PROVE  G
  BY <1>3 DEF Claim, Decided, RInv, TypeOK, RecordRows
<1>4. ASSUME NEW c \in Clerks, op[c].pc = "commit", CommitBatch(c) PROVE G
  <2>1. PICK d \in Records, x \in Resumes, status \in {"approved", "rejected"}, n \in {0, 1} :
            /\ op[c].record = d /\ op[c].resume = x /\ record[d].resume = x
            /\ ~Decided(d) /\ (n = 1 => status = "approved")
            /\ record' = [record EXCEPT ![d].status = status]
            /\ resume' = [resume EXCEPT ![x] = Concluded(status)]
            /\ pool' = [pool EXCEPT ![d] = n]
            /\ Disturbs(x, Outstanding(x))
    BY <1>4, CommitWrites
  <2>2. CASE d = e
    <3>1. record'[e].status = status /\ pool'[e] = n /\ resume'[x] = Concluded(status)
      BY <2>1, <2>2 DEF RInv, TypeOK, RecordRows
    <3> QED  BY <2>1, <2>2, <3>1
  <2>3. CASE d # e
    BY <2>1, <2>3 DEF RInv, TypeOK, Decided
  <2> QED  BY <2>2, <2>3
<1>5. ASSUME NEW c \in Clerks, Release(c) PROVE G
  <2>1. UNCHANGED <<resume, pool>> /\ op[c].record \in Records
    BY <1>5 DEF Release, At, RInv, Held, Holding
  <2>2. CASE Claimed(c)
    <3>1. ~Decided(op[c].record) /\ record' = [record EXCEPT ![op[c].record].status = "pending"]
      BY <1>5, <2>2 DEF Release, Claimed, Decided
    <3> QED  BY <2>1, <3>1 DEF Decided, RInv, TypeOK, RecordRows
  <2>3. CASE ~Claimed(c)
    BY <1>5, <2>1, <2>3 DEF Release, Decided
  <2> QED  BY <2>2, <2>3
<1>6. G
  BY <1>1, <1>2, <1>3, <1>4, <1>5
     DEF Next, ClerkStep, vars, DecideBatch, Decide, Commit, CommitFails, At, ReadStatus, WriteStatus,
         WriteStamp, StatementFails, Die, BusinessDecides
<1>7. ~Decided(e)' => pool'[e] = 0
  BY DEF RInv, PoolEmpty, Decided
<1> QED
  BY <1>6, <1>7

-----------------------------------------------------------------------------
(* The theorems *)

\* The inductive invariant: every variable keeps its type, each claim has one
\* holder, and a decision between its two statements wrote the status.
THEOREM ReviewInvariant == Spec => []RInv
<1>1. Init => RInv
  BY ReviewInit
<1>2. RInv /\ [Next]_vars => RInv'
  BY ReviewStep
<1> QED  BY <1>1, <1>2, PTL DEF Spec

\* For any numbers of records, reviewers and failures, a record is decided once,
\* together with its resume and its row of the talent pool, and stays decided.
THEOREM RecordsDecidedOnce == Spec => DecidedOnce
<1>1. RInv /\ RInv' /\ [Next]_vars =>
        [\A e \in Records :
          /\ Decided(e) => record'[e] = record[e] /\ pool'[e] = pool[e]
          /\ ~Decided(e) /\ Decided(e)' =>
                /\ resume'[record[e].resume] = Concluded(record'[e].status)
                /\ pool'[e] \in (IF record'[e].status = "approved" THEN {0, 1} ELSE {0})
          /\ ~Decided(e)' => pool'[e] = 0]_vars
  BY DecidedStep
<1>2. Spec => []RInv
  BY ReviewInvariant
<1> QED  BY <1>1, <1>2, PTL DEF Spec, DecidedOnce

\* For any numbers of decisions, in any order, cut short anywhere: what the
\* daily report counts of an undisturbed resume is what its status says.
THEOREM TimestampsAgree == Spec => []StampsAgree
<1>1. RInv => StampsAgree
  BY DEF RInv, Stamps, StampsAgree, Outstanding, At
<1>2. Spec => []RInv
  BY ReviewInvariant
<1> QED  BY <1>1, <1>2, PTL
=============================================================================
