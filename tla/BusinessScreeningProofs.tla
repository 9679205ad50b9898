------------------------ MODULE BusinessScreeningProofs ------------------------
(***************************************************************************)
(* Theorems about BusinessScreening that hold for any number of resumes,   *)
(* batches, requests and decisions.                                        *)
(*                                                                         *)
(* First, a decision made through a link stands, and a rejection by HR is  *)
(* not undone by what overlaps it: a resume HR rejected is never one that  *)
(* passed (Overruled).  The shape of a row is all they need of types.      *)
(*                                                                         *)
(* Second, types, and what was decided: what a link is told was applied is *)
(* the decision the resume has, with its verdict and its millisecond, it   *)
(* closes the items of its push in every link, and the request that made   *)
(* it reports it.  The invariant is in parts: what a decided     *)
(* item says of its resume (LinkInv), what the items of one push say       *)
(* (PushInv), what a request that has written finds (ReportInv).           *)
(***************************************************************************)
EXTENDS BusinessScreening, FiniteSetTheorems, WellFoundedInduction, TLAPS

Columns == {"ai", "status", "hr", "bss", "batch", "group", "at"}
RowShape ==
    /\ resume = [r \in Resumes |-> resume[r]]
    /\ \A r \in Resumes : DOMAIN resume[r] = Columns
Overruled == \A r \in Resumes : resume[r].hr = "rejected" => resume[r].bss # "passed"
DInv == RowShape /\ Overruled

\* The first rows satisfy the invariant.
LEMMA ScreeningInitInv == Init => DInv
  <1> SUFFICES ASSUME Init PROVE DInv
    OBVIOUS
  <1>1. resume = [r \in Resumes |-> resume[r]]
    BY DEF Init
  <1>2. \A r \in Resumes : resume[r] \in Rows /\ resume[r].hr = "pending"
    BY DEF Init
  <1>3. \A r \in Resumes : DOMAIN resume[r] = Columns
    BY <1>2 DEF Rows, Columns
  <1> QED BY <1>1, <1>2, <1>3 DEF DInv, RowShape, Overruled

-----------------------------------------------------------------------------
(* What a step can do to a row *)

\* The rows are left alone, or written by one of seven statements.
LEMMA RowWriters ==
  ASSUME [Next]_vars
  PROVE  \/ UNCHANGED resume
         \/ \E p \in Staff : Override(p) \/ Mark(p) \/ Relink(p) \/ Reset(p) \/ RejectWrites(p)
         \/ \E d \in Deciders : DecideWrites(d)
         \/ \E r \in Resumes : SetStatus(r) \/ ResetToPending(r) \/ MarkInterviewing(r) \/ Screen(r)
  <1>1. ASSUME NEW p \in Staff, StaffStep(p)
        PROVE  \/ UNCHANGED resume
               \/ Override(p) \/ Mark(p) \/ Relink(p) \/ Reset(p) \/ RejectWrites(p)
    BY <1>1 DEF StaffStep, PushReads, PushLoads, Reopen, Extend, Append, Regroup, Create, Insert,
       Gather, Upsert, ResendLists, Delete, RejectChecks, RejectRevokes, Reads, WritesBatch,
       WritesItem, tables
  <1>2. ASSUME NEW d \in Deciders, DeciderStep(d) PROVE UNCHANGED resume \/ DecideWrites(d)
    BY <1>2 DEF DeciderStep, Expire, DecideReads, DecideReports, CountPending, Complete,
       DeciderReads, tables
  <1>3. ASSUME NEW p \in Staff, NEW kind, NEW ids, NEW b, Ask(p, kind, ids, b)
        PROVE  UNCHANGED resume
    BY <1>3 DEF Ask, tables
  <1>4. ASSUME NEW d \in Deciders, NEW b, NEW v, NEW ids, NEW single, OpenLink(d, b, v, ids, single)
        PROVE  UNCHANGED resume
    BY <1>4 DEF OpenLink, tables
  <1>5. ASSUME NEW b \in Batches, Lapse(b) \/ Renew(b) PROVE UNCHANGED resume
    BY <1>5 DEF Lapse, Renew
  <1>6. CASE Die \/ UNCHANGED vars
    BY <1>6 DEF Die, vars, tables
  <1> QED BY <1>1, <1>2, <1>3, <1>4, <1>5, <1>6 DEF Next

\* What becomes of a row: its outcome is left alone, a push or a removal or a
\* decision writes one that had none, or HR rejects.
Same(r) == resume'[r].hr = resume[r].hr /\ resume'[r].at = resume[r].at /\ resume'[r].bss = resume[r].bss

Pushed(r) ==
    /\ resume[r].status # "rejected" /\ resume[r].bss \notin Verdicts
    /\ resume'[r].hr # "rejected" /\ resume'[r].at = resume[r].at
Settled(r) ==
    /\ resume[r].hr # "rejected" /\ resume[r].bss \notin Verdicts
    /\ resume'[r].hr # "rejected"
Rejected(r) ==
    /\ resume'[r].hr = "rejected" /\ resume'[r].bss \in {"rejected", "not_ready"}
    /\ resume[r].hr = "rejected" => resume'[r].bss = "not_ready"
Becomes(r) == Same(r) \/ Pushed(r) \/ Settled(r) \/ Rejected(r)

\* Relink writes the batch of one row and nothing else.
LEMMA RelinkRow ==
  ASSUME RowShape, NEW p \in Staff, Relink(p)
  PROVE  RowShape' /\ \A r \in Resumes : Same(r)
  <1> PICK x \in DOMAIN staff[p].seen : resume' = [resume EXCEPT ![x].batch = staff[p].batch]
    BY DEF Relink
  <1>1. resume' = [r \in Resumes |-> resume'[r]]
    BY DEF RowShape
  <1>2. ASSUME NEW r \in Resumes PROVE DOMAIN resume'[r] = Columns /\ Same(r)
    <2>1. CASE r = x
      <3>1. resume'[r] = [resume[r] EXCEPT !.batch = staff[p].batch]
        BY <2>1 DEF RowShape
      <3> QED BY <3>1 DEF RowShape, Columns, Same
    <2>2. CASE r # x
      <3>1. resume'[r] = resume[r]
        BY <2>2 DEF RowShape
      <3> QED BY <3>1 DEF RowShape, Same
    <2> QED BY <2>1, <2>2
  <1> QED BY <1>1, <1>2 DEF RowShape

\* The statements that write whole sets of rows, each by its WHERE.
LEMMA SetRows ==
  ASSUME RowShape, NEW p \in Staff, Override(p) \/ Mark(p) \/ Reset(p) \/ RejectWrites(p)
  PROVE  RowShape' /\ \A r \in Resumes : Becomes(r)
  <1> USE DEF RowShape, Columns
  <1>1. CASE Override(p)
    <2>1. \A r \in Resumes : \/ resume'[r] = resume[r]
                             \/ \E a : resume'[r] = [resume[r] EXCEPT !.ai = a]
      BY <1>1 DEF Override
    <2>2. resume' = [r \in Resumes |-> resume'[r]]
      BY <1>1 DEF Override
    <2>3. \A r \in Resumes : DOMAIN resume'[r] = Columns /\ Same(r)
      BY <2>1 DEF Same
    <2> QED BY <2>2, <2>3 DEF Becomes
  <1>2. CASE Mark(p)
    <2>1. \A r \in Resumes :
            \/ resume'[r] = resume[r]
            \/ /\ resume[r].status \notin {"approved", "rejected"} /\ resume[r].bss \notin Verdicts
               /\ resume'[r] = [resume[r] EXCEPT !.hr = "pushed", !.bss = "pending",
                                   !.batch = staff[p].batch, !.group = staff[p].group]
      BY <1>2 DEF Mark
    <2>2. resume' = [r \in Resumes |-> resume'[r]]
      BY <1>2 DEF Mark
    <2>3. \A r \in Resumes : DOMAIN resume'[r] = Columns /\ (Same(r) \/ Pushed(r))
      BY <2>1 DEF Same, Pushed
    <2> QED BY <2>2, <2>3 DEF Becomes
  <1>3. CASE Reset(p)
    <2>1. \A r \in Resumes :
            \/ resume'[r] = resume[r]
            \/ /\ resume[r].bss \in {"not_ready", "pending"} /\ resume[r].hr # "rejected"
               /\ resume'[r] = [resume[r] EXCEPT !.hr = "pending", !.bss = "not_ready",
                                   !.batch = NoBatch, !.group = NoGroup, !.at = Nobody]
      BY <1>3 DEF Reset
    <2>2. resume' = [r \in Resumes |-> resume'[r]]
      BY <1>3 DEF Reset
    <2>3. \A r \in Resumes : DOMAIN resume'[r] = Columns /\ (Same(r) \/ Settled(r))
      BY <2>1 DEF Same, Settled, Verdicts
    <2> QED BY <2>2, <2>3 DEF Becomes
  <1>4. CASE RejectWrites(p)
    <2>0. PICK t \in Stamps : resume' = [r \in Resumes |->
            IF r \notin staff[p].ids THEN resume[r]
            ELSE [resume[r] EXCEPT !.hr = "rejected", !.status = "rejected",
                     !.bss = IF resume[r].hr = "pushed" THEN "rejected" ELSE "not_ready",
                     !.at = IF resume[r].hr = "pushed" THEN t ELSE Nobody]]
      BY <1>4 DEF RejectWrites
    <2>1. \A r \in Resumes :
            \/ resume'[r] = resume[r]
            \/ resume'[r] = [resume[r] EXCEPT !.hr = "rejected", !.status = "rejected",
                  !.bss = IF resume[r].hr = "pushed" THEN "rejected" ELSE "not_ready",
                  !.at = IF resume[r].hr = "pushed" THEN t ELSE Nobody]
      BY <2>0
    <2>2. resume' = [r \in Resumes |-> resume'[r]]
      BY <2>0
    <2>3. \A r \in Resumes : DOMAIN resume'[r] = Columns /\ (Same(r) \/ Rejected(r))
      BY <2>1 DEF Same, Rejected
    <2> QED BY <2>2, <2>3 DEF Becomes
  <1> QED BY <1>1, <1>2, <1>3, <1>4

\* A decision writes one row, if that has no outcome yet.
LEMMA DecisionRow ==
  ASSUME RowShape, NEW d \in Deciders, DecideWrites(d)
  PROVE  RowShape' /\ \A r \in Resumes : Becomes(r)
  <1> USE DEF RowShape, Columns
  <1> DEFINE x == decider[d].now
             new == Row(d)
  <1>1. CASE resume' = resume
    BY <1>1 DEF Becomes, Same
  <1>2. CASE Decides(x, decider[d].batch, decider[d].group) /\ resume' = [resume EXCEPT ![x] = new]
    <2>1. resume[x].hr # "rejected" /\ resume[x].bss \notin Verdicts
      BY <1>2 DEF Decides, Verdicts
    <2>2. ASSUME NEW r \in Resumes PROVE DOMAIN resume'[r] = Columns /\ Becomes(r)
      <3>1. CASE r = x
        <4>1. resume'[r] = new
          BY <1>2, <3>1
        <4>2. DOMAIN new = Columns /\ new.hr = resume[x].hr
          BY <3>1 DEF Row
        <4> QED BY <2>1, <3>1, <4>1, <4>2 DEF Becomes, Settled
      <3>2. CASE r # x
        <4>1. resume'[r] = resume[r]
          BY <1>2, <3>2
        <4> QED BY <4>1 DEF Becomes, Same
      <3> QED BY <3>1, <3>2
    <2>3. resume' = [r \in Resumes |-> resume'[r]]
      BY <1>2
    <2> QED BY <2>2, <2>3
  <1> QED BY <1>1, <1>2 DEF DecideWrites

\* The routes of HR that look at nothing else write the status or the AI's result.
LEMMA HrRow ==
  ASSUME RowShape, NEW x \in Resumes,
         SetStatus(x) \/ ResetToPending(x) \/ MarkInterviewing(x) \/ Screen(x)
  PROVE  RowShape' /\ \A r \in Resumes : Same(r)
  <1> USE DEF RowShape, Columns
  <1>1. PICK new : /\ resume' = [resume EXCEPT ![x] = new]
                   /\ \/ \E s : new = [resume[x] EXCEPT !.status = s]
                      \/ \E s, a : new = [resume[x] EXCEPT !.status = s, !.ai = a]
                      \/ \E a : new = [resume[x] EXCEPT !.ai = a]
    <2>1. CASE SetStatus(x)
      BY <2>1 DEF SetStatus, HrWrites
    <2>2. CASE ResetToPending(x)
      BY <2>2 DEF ResetToPending, HrWrites
    <2>3. CASE MarkInterviewing(x)
      BY <2>3 DEF MarkInterviewing, HrWrites
    <2>4. CASE Screen(x)
      BY <2>4 DEF Screen, HrWrites
    <2> QED BY <2>1, <2>2, <2>3, <2>4
  <1>2. /\ DOMAIN new = Columns /\ new.hr = resume[x].hr
        /\ new.at = resume[x].at /\ new.bss = resume[x].bss
    BY <1>1
  <1>3. \A r \in Resumes : resume'[r] = IF r = x THEN new ELSE resume[r]
    BY <1>1
  <1>4. resume' = [r \in Resumes |-> resume'[r]]
    BY <1>1
  <1> QED BY <1>2, <1>3, <1>4 DEF Same

LEMMA RowStep ==
  ASSUME RowShape, [Next]_vars
  PROVE  RowShape' /\ \A r \in Resumes : Becomes(r)
  <1>1. CASE UNCHANGED resume
    BY <1>1 DEF RowShape, Becomes, Same
  <1> QED BY <1>1, RowWriters, RelinkRow, SetRows, DecisionRow, HrRow DEF Becomes

-----------------------------------------------------------------------------
LEMMA ScreeningInvStep == DInv /\ [Next]_vars => DInv'
  <1> SUFFICES ASSUME DInv, [Next]_vars PROVE DInv'
    OBVIOUS
  <1>1. RowShape' /\ \A r \in Resumes : Becomes(r)
    BY RowStep DEF DInv
  <1>2. Overruled'
    BY <1>1, ScreeningAssumption
       DEF DInv, Overruled, Becomes, Same, Pushed, Settled, Rejected
  <1> QED BY <1>1, <1>2 DEF DInv

\* A resume HR rejected is not one that passed business screening.
THEOREM RejectionOverrules == Spec => []DInv
  BY ScreeningInitInv, ScreeningInvStep, PTL DEF Spec

\* A decision made through a link stands: among any number of overlapping
\* pushes, resends, consolidations, removals and other decisions, only HR's
\* rejection overrules it.
THEOREM LinkDecisionStands == Spec => DecisionStands
  <1>1. ASSUME DInv, [Next]_vars
        PROVE  [\A r \in Resumes : Decided(r) =>
                  \/ resume'[r].at = resume[r].at /\ resume'[r].bss = resume[r].bss
                  \/ resume'[r].hr = "rejected"]_vars
    <2>1. \A r \in Resumes : Becomes(r)
      BY <1>1, RowStep DEF DInv
    <2> QED BY <1>1, <2>1 DEF Decided, Becomes, Same, Pushed, Settled, Rejected
  <1> QED BY <1>1, RejectionOverrules, PTL DEF Spec, DecisionStands

\* A rejection by HR holds: no request that read the resume before, and no open
\* link, undoes it or decides over it.
THEOREM RejectionHolds == Spec => HrRejectionHolds
  <1>1. ASSUME DInv, [Next]_vars
        PROVE  [\A r \in Resumes : resume[r].hr = "rejected" /\ resume[r].status = "rejected" =>
                  /\ resume'[r].hr = "rejected"
                  /\ resume'[r].bss \in Verdicts =>
                        resume'[r].bss = resume[r].bss /\ resume'[r].at = resume[r].at]_vars
    <2>1. \A r \in Resumes : Becomes(r)
      BY <1>1, RowStep DEF DInv
    <2> QED BY <1>1, <2>1 DEF Becomes, Same, Pushed, Settled, Rejected, Verdicts
  <1> QED BY <1>1, RejectionOverrules, PTL DEF Spec, HrRejectionHolds

-----------------------------------------------------------------------------
(* Who decided, and what the items of a push say: the inductive invariant *)

\* A request works on a batch and a resume that are there.
Placed ==
    /\ \A p \in Staff : staff[p].pc = "list" => staff[p].batch \in Batches
    /\ \A d \in Deciders :
          /\ decider[d].pc \in {"read", "write", "report"} => decider[d].batch \in Batches
          /\ decider[d].pc \in {"write", "report"} =>
                decider[d].now \in Resumes /\ decider[d].at \in Stamps

\* A dispatch group is one that a request brought, so that the next is new.
Young ==
    /\ \A r \in Resumes : resume[r].group <= asked
    /\ \A b \in Batches, r \in Resumes : item[b][r].group <= asked
    /\ \A p \in Staff : staff[p].pc # "idle" => staff[p].group \in 1..asked

Outcome(r) == resume[r].bss \in Verdicts
Upheld(r) == resume[r].hr # "rejected" /\ r \notin again
Calm(r) == Undisturbed(r) /\ r \notin again

\* An item a link decided says so, and its resume has the same date.
Stamped ==
    \A b \in Batches, r \in Resumes : item[b][r].at \in Stamps =>
        /\ item[b][r].st \in Verdicts
        /\ Upheld(r) => Outcome(r) /\ resume[r].at = item[b][r].at

\* What a link reported as applied is the outcome of the resume, and its own.
Told ==
    \A r \in Resumes : \A w \in applied[r] :
        /\ resume[r].bss = w[2]
        /\ Upheld(r) => resume[r].at = w[1]

\* While a resume has no outcome, none of its items is decided.
Clean ==
    \A r \in Resumes : Calm(r) /\ resume[r].hr # "rejected" /\ ~Outcome(r) =>
        \A b \in Batches : item[b][r].st \notin Verdicts

\* No request under way can add an item to the push of a decided resume.
Over ==
    \A r \in Resumes : Decided(r) /\ Calm(r) =>
        \A p \in Staff : staff[p].pc # "idle" => staff[p].group # resume[r].group

\* A request that has written finds what it wrote until it has reported it.
Finds(d, r) ==
    LET b == decider[d].batch  it == item[b][r] IN
    /\ decider[d].pc = "report" /\ decider[d].now = r /\ r \notin decider[d].gone
    /\ decider[d].verdict = resume[r].bss /\ decider[d].at = resume[r].at
    /\ decider[d].group = resume[r].group /\ b = resume[r].batch
    /\ it.st = resume[r].bss /\ it.at = resume[r].at /\ ItemGroup(b, it) = resume[r].group
ReportInv ==
    \A r \in Resumes : Decided(r) /\ Undisturbed(r) /\ deaths = 0 =>
        \/ \E d \in Deciders : Finds(d, r)
        \/ <<resume[r].at, resume[r].bss>> \in applied[r]

TInv == TypeOK /\ Placed /\ Young
LinkInv == Stamped /\ Told
PushInv == Clean /\ SiblingsAgree /\ Over

-----------------------------------------------------------------------------
(* Types *)

LEMMA IdleRecords ==
    /\ StaffIdle \in StaffRecords /\ StaffIdle.pc = "idle"
    /\ DeciderIdle \in DeciderRecords /\ DeciderIdle.pc = "idle"
  <1>1. NoGroup \in Groups
    BY ScreeningAssumption DEF NoGroup, Groups
  <1>2. [r \in {} |-> "none"] \in Views
    <2>1. [r \in {} |-> "none"] \in [{} -> {"pending"} \cup Verdicts]
      OBVIOUS
    <2> QED BY <2>1 DEF Views
  <1> QED BY <1>1, <1>2 DEF StaffIdle, StaffRecords, StaffPc, StaffKinds, NoBatch,
             DeciderIdle, DeciderRecords, DeciderPc, Verdicts

\* Every group a row, an item or a request can name.
LEMMA GroupValues ==
    /\ \A n \in 0..MaxAsked : n \in Groups
    /\ \A b \in Batches \cup {NoBatch} : -b \in Groups /\ -b <= 0
    /\ \A row \in Rows : RowGroup(row) \in Groups
    /\ \A row \in Rows, b \in Batches, it \in Items :
          ItemGroup(b, it) \in Groups /\ KnownGroup(row, b, it) \in Groups
  BY ScreeningAssumption DEF Groups, Batches, NoBatch, Rows, Items, RowGroup, ItemGroup, KnownGroup

\* The latest of some batches is one of them.
LEMMA NewestThere ==
  ASSUME NEW S \in SUBSET Batches
  PROVE  Newest(S) \in Batches \cup {NoBatch}
  <1>1. CASE S = {}
    BY <1>1 DEF Newest
  <1>2. CASE S # {}
    <2> DEFINE T == {n \in Nat : MaxBatches - n \in S}
    <2>1. \A b \in S : b \in Int /\ MaxBatches - b \in Nat /\ MaxBatches - (MaxBatches - b) = b
      BY ScreeningAssumption DEF Batches
    <2>2. T # {} /\ T \in SUBSET Nat
      <3>1. PICK b \in S : TRUE
        BY <1>2
      <3>2. MaxBatches - b \in T
        BY <2>1
      <3> QED BY <3>2
    <2>3. PICK m \in T : \A k \in T : <<k, m>> \notin OpToRel(<, Nat)
      BY <2>2, NatLessThanWellFounded, WFMin
    <2>4. \A k \in T : ~(k < m)
      <3> SUFFICES ASSUME NEW k \in T, k < m PROVE FALSE
        OBVIOUS
      <3>1. <<k, m>> \in OpToRel(<, Nat)
        BY DEF OpToRel
      <3> QED BY <2>3, <3>1
    <2>5. MaxBatches - m \in S /\ m \in Nat
      OBVIOUS
    <2>6. \A c \in S : c <= MaxBatches - m
      <3> SUFFICES ASSUME NEW c \in S PROVE c <= MaxBatches - m
        OBVIOUS
      <3>1. MaxBatches - c \in T /\ c \in Int
        BY <2>1
      <3>2. ~(MaxBatches - c < m)
        BY <2>4, <3>1
      <3> QED BY <2>5, <3>1, <3>2, ScreeningAssumption
    <2> HIDE DEF T
    <2> QED BY <1>2, <2>5, <2>6 DEF Newest
  <1> QED BY <1>1, <1>2

LEMMA CurrentThere ==
  ASSUME NEW i, NEW auto
  PROVE  /\ CurrentBatch(i) \in Batches \cup {NoBatch}
         /\ FirstOf(ByScope(i, auto), Latest(i)) \in Batches \cup {NoBatch}
  <1>1. ByScope(i, auto) \in Batches \cup {NoBatch} /\ ByScope(i, FALSE) \in Batches \cup {NoBatch}
    BY NewestThere DEF ByScope, Of
  <1>2. ByInterviewer(i) \in Batches \cup {NoBatch} /\ Latest(i) \in Batches \cup {NoBatch}
    BY NewestThere DEF ByInterviewer, Latest, Of
  <1> QED BY <1>1, <1>2 DEF CurrentBatch, FirstOf

LEMMA ScreeningTypesInit == Init => TInv
  <1> SUFFICES ASSUME Init PROVE TInv
    OBVIOUS
  <1>1. \A r \in Resumes : resume[r] \in Rows /\ resume[r].group = NoGroup
    BY DEF Init
  <1>2. resume \in [Resumes -> Rows]
    BY DEF Init
  <1>3. NoItem \in Items /\ NoItem.group = NoGroup
    BY ScreeningAssumption DEF NoItem, Items, NoGroup, Groups
  <1>4. item \in [Batches -> [Resumes -> Items]] /\ \A b \in Batches, r \in Resumes : item[b][r] = NoItem
    BY <1>3 DEF Init
  <1>5. batch \in [Batches -> BatchRows]
    BY DEF Init, BatchRows
  <1>6. /\ staff \in [Staff -> StaffRecords] /\ decider \in [Deciders -> DeciderRecords]
        /\ \A p \in Staff : staff[p].pc = "idle"
        /\ \A d \in Deciders : decider[d].pc = "idle"
    BY IdleRecords DEF Init
  <1>7. /\ applied \in [Resumes -> SUBSET (Stamps \X Verdicts)]
        /\ meddled \subseteq Resumes /\ again \subseteq Resumes
        /\ asked \in 0..MaxAsked /\ decisions \in 0..MaxDecisions /\ deaths \in 0..MaxDeaths
        /\ asked = 0
    BY ScreeningAssumption DEF Init
  <1> QED BY <1>1, <1>2, <1>3, <1>4, <1>5, <1>6, <1>7 DEF TInv, TypeOK, Placed, Young, NoGroup

\* A request of HR goes on, with its group, or ends.
Continues ==
    /\ staff' \in [Staff -> StaffRecords]
    /\ \A p \in Staff : staff'[p].pc = "list" => staff'[p].batch \in Batches
    /\ \A p \in Staff : staff'[p].pc # "idle" =>
          staff[p].pc # "idle" /\ staff'[p].group = staff[p].group

LEMMA BecomesRecord ==
  ASSUME TInv, NEW p \in Staff, NEW rec \in StaffRecords, staff' = [staff EXCEPT ![p] = rec],
         rec.pc # "list",
         rec.pc = "idle" \/ (staff[p].pc # "idle" /\ rec.group = staff[p].group)
  PROVE  Continues
  <1> USE DEF TInv, TypeOK, Placed
  <1>1. staff' \in [Staff -> StaffRecords]
    OBVIOUS
  <1>2. \A q \in Staff : staff'[q] = IF q = p THEN rec ELSE staff[q]
    OBVIOUS
  <1> QED BY <1>1, <1>2 DEF Continues

LEMMA LeaveContinues ==
  ASSUME TInv, NEW p \in Staff, Leave(p)
  PROVE  Continues
  BY BecomesRecord, IdleRecords DEF Leave

LEMMA GotoContinues ==
  ASSUME TInv, NEW p \in Staff, NEW pc \in StaffPc, pc # "list", staff[p].pc # "idle", Goto(p, pc)
  PROVE  Continues
  <1> DEFINE rec == [staff[p] EXCEPT !.pc = pc]
  <1>1. staff[p] \in StaffRecords
    BY DEF TInv, TypeOK
  <1>2. rec \in StaffRecords /\ rec.pc = pc /\ rec.group = staff[p].group
    BY <1>1 DEF StaffRecords
  <1>3. staff' = [staff EXCEPT ![p] = rec]
    BY DEF Goto
  <1> HIDE DEF rec
  <1> QED BY <1>2, <1>3, BecomesRecord

LEMMA NextInterviewerContinues ==
  ASSUME TInv, NEW p \in Staff, staff[p].pc # "idle", NextInterviewer(p)
  PROVE  Continues
  <1>1. CASE Leave(p)
    BY <1>1, LeaveContinues
  <1>2. CASE staff' = [staff EXCEPT ![p].pc = "load", ![p].seen = StaffIdle.seen]
    <2> DEFINE rec == [staff[p] EXCEPT !.pc = "load", !.seen = StaffIdle.seen]
    <2>1. staff[p] \in StaffRecords /\ StaffIdle.seen \in Views
      BY IdleRecords DEF TInv, TypeOK, StaffRecords
    <2>2. rec \in StaffRecords /\ rec.pc = "load" /\ rec.group = staff[p].group
      BY <2>1 DEF StaffRecords, StaffPc
    <2>3. staff' = [staff EXCEPT ![p] = rec]
      BY <1>2, <2>1 DEF TInv, TypeOK, StaffRecords
    <2> HIDE DEF rec
    <2> QED BY <2>2, <2>3, BecomesRecord
  <1> QED BY <1>1, <1>2 DEF NextInterviewer

LEMMA ShownThere ==
  ASSUME TypeOK, NEW rows \in SUBSET Resumes
  PROVE  [r \in rows |-> ShownAs(resume[r])] \in Views
  <1>1. [r \in rows |-> ShownAs(resume[r])] \in [rows -> {"pending"} \cup Verdicts]
    BY DEF ShownAs, Verdicts
  <1> QED BY <1>1 DEF Views

LEMMA ViewThere ==
  ASSUME NEW view \in Views
  PROVE  /\ DOMAIN view \subseteq Resumes
         /\ \A r \in DOMAIN view : view[r] \in {"pending"} \cup Verdicts
         /\ \A S \in SUBSET DOMAIN view : [x \in S |-> view[x]] \in Views
  <1>1. PICK T \in SUBSET Resumes : view \in [T -> {"pending"} \cup Verdicts]
    BY DEF Views
  <1>2. ASSUME NEW S \in SUBSET DOMAIN view PROVE [x \in S |-> view[x]] \in Views
    <2>1. [x \in S |-> view[x]] \in [S -> {"pending"} \cup Verdicts]
      BY <1>1
    <2> QED BY <1>1, <2>1 DEF Views
  <1> QED BY <1>1, <1>2

LEMMA GroupThere ==
  ASSUME TypeOK, NEW p \in Staff
  PROVE  Group(p) \subseteq Resumes
  BY DEF Group, TypeOK, StaffRecords

LEMMA StaffContinues ==
  ASSUME TInv, NEW p \in Staff, StaffStep(p)
  PROVE  Continues
  <1> USE DEF StaffAt
  <1>0. staff[p] \in StaffRecords /\ \A r \in Resumes : resume[r] \in Rows
    BY DEF TInv, TypeOK
  <1>1. CASE Override(p) \/ Reopen(p) \/ Extend(p) \/ Append(p) \/ Regroup(p) \/ Delete(p)
    <2>1. \E pc \in StaffPc \ {"list"} : Goto(p, pc)
      BY <1>1 DEF Override, Reopen, Extend, Append, Regroup, Delete, StaffPc
    <2>2. staff[p].pc # "idle"
      BY <1>1 DEF Override, Reopen, Extend, Append, Regroup, Delete
    <2> QED BY <2>1, <2>2, GotoContinues
  <1>2. CASE Insert(p) \/ RejectChecks(p) \/ RejectWrites(p) \/ Reset(p) \/ RejectRevokes(p)
    <2>1. Leave(p) \/ \E pc \in StaffPc \ {"list"} : Goto(p, pc)
      BY <1>2 DEF Insert, RejectChecks, RejectWrites, Reset, RejectRevokes, StaffPc
    <2>2. staff[p].pc # "idle"
      BY <1>2 DEF Insert, RejectChecks, RejectWrites, Reset, RejectRevokes
    <2> QED BY <2>1, <2>2, GotoContinues, LeaveContinues
  <1>3. CASE Mark(p)
    <2>1. Leave(p) \/ NextInterviewer(p) \/ Goto(p, "gather")
      BY <1>3 DEF Mark
    <2>2. staff[p].pc # "idle" /\ "gather" \in StaffPc
      BY <1>3 DEF Mark, StaffPc
    <2> QED BY <2>1, <2>2, GotoContinues, LeaveContinues, NextInterviewerContinues
  <1>4. CASE Upsert(p)
    <2>1. Goto(p, "relink") /\ staff[p].pc # "idle" /\ "relink" \in StaffPc
      BY <1>4 DEF Upsert, StaffPc
    <2> QED BY <2>1, GotoContinues
  <1>5. CASE PushReads(p)
    <2> DEFINE good == {r \in staff[p].ids : Eligible(r, Kind(p) = "temp")}
               todo == UNION {Responsible[r] : r \in good}
               rec == [staff[p] EXCEPT !.ids = good, !.todo = todo, !.pc = "load"]
    <2>1. CASE Leave(p)
      BY <2>1, LeaveContinues
    <2>2. CASE staff' = [staff EXCEPT ![p].ids = good, ![p].todo = todo, ![p].pc = "load"]
      <3>1. good \in SUBSET Resumes
        BY <1>0 DEF StaffRecords
      <3>2. todo \in SUBSET Interviewers
        BY <3>1, ScreeningAssumption
      <3> HIDE DEF good, todo
      <3>3. rec \in StaffRecords /\ rec.pc = "load" /\ rec.group = staff[p].group
        BY <1>0, <3>1, <3>2 DEF StaffRecords, StaffPc
      <3>4. staff' = [staff EXCEPT ![p] = rec]
        BY <1>0, <2>2 DEF TInv, TypeOK, StaffRecords
      <3>5. staff[p].pc # "idle"
        BY <1>5 DEF PushReads
      <3> HIDE DEF rec
      <3> QED BY <3>3, <3>4, <3>5, BecomesRecord
    <2> QED BY <1>5, <2>1, <2>2 DEF PushReads
  <1>6. CASE PushLoads(p)
    <2>1. PICK i \in staff[p].todo : \E b \in {NoBatch, CurrentBatch(i)} :
            staff' = [staff EXCEPT ![p] = [@ EXCEPT !.who = i, !.batch = b, !.todo = staff[p].todo \ {i},
                         !.pc = IF b = NoBatch THEN "create" ELSE "reopen"]]
      BY <1>6 DEF PushLoads
    <2>2. PICK b \in {NoBatch, CurrentBatch(i)} :
            staff' = [staff EXCEPT ![p] = [@ EXCEPT !.who = i, !.batch = b, !.todo = staff[p].todo \ {i},
                         !.pc = IF b = NoBatch THEN "create" ELSE "reopen"]]
      BY <2>1
    <2> DEFINE rec == [staff[p] EXCEPT !.who = i, !.batch = b, !.todo = staff[p].todo \ {i},
                         !.pc = IF b = NoBatch THEN "create" ELSE "reopen"]
    <2>3. b \in Batches \cup {NoBatch} /\ i \in Interviewers
      BY <1>0, CurrentThere DEF StaffRecords
    <2>4. /\ rec \in StaffRecords /\ rec.group = staff[p].group
          /\ rec.pc # "list"
      BY <1>0, <2>3 DEF StaffRecords, StaffPc
    <2>5. staff[p].pc # "idle"
      BY <1>6 DEF PushLoads
    <2>6. staff' = [staff EXCEPT ![p] = rec]
      BY <2>2 DEF TInv, TypeOK
    <2> HIDE DEF rec
    <2> QED BY <2>4, <2>5, <2>6, BecomesRecord
  <1>7. CASE Create(p)
    <2>1. PICK b \in Batches, pc \in {"append", "insert"} :
            staff' = [staff EXCEPT ![p].batch = b, ![p].pc = pc]
      BY <1>7 DEF Create
    <2> DEFINE rec == [staff[p] EXCEPT !.batch = b, !.pc = pc]
    <2>2. rec \in StaffRecords /\ rec.pc # "list" /\ rec.group = staff[p].group
      BY <1>0 DEF StaffRecords, StaffPc
    <2>3. staff' = [staff EXCEPT ![p] = rec] /\ staff[p].pc # "idle"
      BY <1>0, <1>7, <2>1 DEF Create, TInv, TypeOK, StaffRecords
    <2> HIDE DEF rec
    <2> QED BY <2>2, <2>3, BecomesRecord
  <1>8. CASE Gather(p)
    <2>0. staff[p].pc # "idle"
      BY <1>8 DEF Gather
    <2>1. CASE NextInterviewer(p)
      BY <2>0, <2>1, NextInterviewerContinues
    <2>2. ASSUME NEW rows \in SUBSET Resumes,
                 staff' = [staff EXCEPT ![p].pc = "upsert",
                             ![p].seen = [r \in rows |-> ShownAs(resume[r])]]
          PROVE  Continues
      <3> DEFINE view == [r \in rows |-> ShownAs(resume[r])]
                 rec == [staff[p] EXCEPT !.pc = "upsert", !.seen = view]
      <3>1. view \in Views
        BY ShownThere DEF TInv
      <3>2. staff' = [staff EXCEPT ![p].pc = "upsert", ![p].seen = view]
        BY <2>2
      <3> HIDE DEF view
      <3>3. rec \in StaffRecords /\ rec.pc # "list" /\ rec.group = staff[p].group
        BY <1>0, <3>1 DEF StaffRecords, StaffPc
      <3>4. staff' = [staff EXCEPT ![p] = rec]
        BY <1>0, <3>2 DEF TInv, TypeOK, StaffRecords
      <3> HIDE DEF rec
      <3> QED BY <2>0, <3>3, <3>4, BecomesRecord
    <2>3. staff[p].ids \subseteq Resumes
      BY <1>0 DEF StaffRecords
    <2>4. \/ NextInterviewer(p)
          \/ \E rows \in SUBSET Resumes :
                staff' = [staff EXCEPT ![p].pc = "upsert",
                             ![p].seen = [r \in rows |-> ShownAs(resume[r])]]
      BY <1>8, <2>3 DEF Gather
    <2> QED BY <2>1, <2>2, <2>4
  <1>9. CASE Relink(p)
    <2>0. staff[p].pc # "idle"
      BY <1>9 DEF Relink
    <2>1. CASE NextInterviewer(p)
      BY <2>0, <2>1, NextInterviewerContinues
    <2>2. ASSUME NEW S \in SUBSET DOMAIN staff[p].seen,
                 staff' = [staff EXCEPT ![p].seen = [x \in S |-> staff[p].seen[x]]]
          PROVE  Continues
      <3> DEFINE view == [x \in S |-> staff[p].seen[x]]
                 rec == [staff[p] EXCEPT !.seen = view]
      <3>1. view \in Views
        BY <1>0, ViewThere DEF StaffRecords
      <3>2. staff' = [staff EXCEPT ![p].seen = view]
        BY <2>2
      <3> HIDE DEF view
      <3>3. rec \in StaffRecords /\ rec.pc # "list" /\ rec.group = staff[p].group
        BY <1>0, <1>9, <3>1 DEF StaffRecords, Relink
      <3>4. staff' = [staff EXCEPT ![p] = rec]
        BY <1>0, <3>2 DEF TInv, TypeOK, StaffRecords
      <3> HIDE DEF rec
      <3> QED BY <2>0, <3>3, <3>4, BecomesRecord
    <2>3. \/ NextInterviewer(p)
          \/ \E S \in SUBSET DOMAIN staff[p].seen :
                staff' = [staff EXCEPT ![p].seen = [x \in S |-> staff[p].seen[x]]]
      BY <1>9 DEF Relink
    <2> QED BY <2>1, <2>2, <2>3
  <1>10. CASE ResendLists(p)
    <2> DEFINE i == batch[staff[p].batch].owner
               ids == {r \in Resumes : item[staff[p].batch][r].st = "pending"}
               current == FirstOf(ByScope(i, batch[staff[p].batch].auto), Latest(i))
               rec == [staff[p] EXCEPT !.ids = ids, !.who = i, !.batch = current,
                          !.pc = IF current = NoBatch THEN "create" ELSE "append"]
    <2>1. CASE Leave(p)
      BY <2>1, LeaveContinues
    <2>2. CASE staff' = [staff EXCEPT ![p] = [@ EXCEPT !.ids = ids, !.who = i, !.batch = current,
                          !.pc = IF current = NoBatch THEN "create" ELSE "append"]]
      <3>1. staff[p].batch \in Batches /\ staff[p].pc # "idle"
        BY <1>10 DEF ResendLists, TInv, Placed
      <3>2. i \in Interviewers \cup {Nobody} /\ ids \in SUBSET Resumes
        BY <3>1 DEF TInv, TypeOK, BatchRows
      <3>3. current \in Batches \cup {NoBatch}
        BY CurrentThere
      <3> HIDE DEF i, ids, current
      <3>4. rec \in StaffRecords /\ rec.group = staff[p].group /\ rec.pc # "list"
        BY <1>0, <3>2, <3>3 DEF StaffRecords, StaffPc
      <3>5. staff' = [staff EXCEPT ![p] = rec]
        BY <2>2 DEF TInv, TypeOK
      <3> HIDE DEF rec
      <3> QED BY <3>1, <3>4, <3>5, BecomesRecord
    <2> QED BY <1>10, <2>1, <2>2 DEF ResendLists
  <1> QED BY <1>1, <1>2, <1>3, <1>4, <1>5, <1>6, <1>7, <1>8, <1>9, <1>10 DEF StaffStep

-----------------------------------------------------------------------------
(* What a step of a request of HR does to a row *)

\* The decision of a row is left alone, a row without an outcome is written, or
\* HR rejects.
Kept(r) ==
    /\ Same(r) /\ resume'[r].group = resume[r].group /\ applied'[r] = applied[r]
    /\ \/ resume'[r].batch = resume[r].batch
       \/ r \in meddled'
       \/ \A d \in Deciders : decider[d].now # r
Opened(r) ==
    /\ ~Outcome(r) /\ resume'[r].bss \notin Verdicts /\ applied'[r] = applied[r]
    /\ resume[r].hr = "rejected" => resume'[r].hr = "rejected" \/ r \in again'
Denied(r) == resume'[r].hr = "rejected" /\ applied'[r] = {}

\* The rows after a step.
RowsGo ==
    /\ resume' \in [Resumes -> Rows]
    /\ \A r \in Resumes : resume'[r].group <= asked
    /\ \A r \in Resumes : Kept(r) \/ Opened(r) \/ Denied(r)
    /\ applied' \in [Resumes -> SUBSET (Stamps \X Verdicts)]
    /\ again' \in SUBSET Resumes /\ again \subseteq again'

\* A request that is under way has a group, and the row may take it.
LEMMA OwnGroup ==
  ASSUME TInv, NEW p \in Staff, staff[p].pc # "idle"
  PROVE  /\ staff[p] \in StaffRecords /\ staff[p].group \in Groups
         /\ staff[p].group \in 1..asked /\ asked \in 0..MaxAsked
         /\ staff[p].batch \in Batches \cup {NoBatch}
  BY DEF TInv, TypeOK, Young, StaffRecords

LEMMA RowsUntouched ==
  ASSUME TInv, UNCHANGED <<resume, applied, again>>
  PROVE  RowsGo
  BY DEF TInv, TypeOK, Young, RowsGo, Kept, Same

LEMMA OverrideRows ==
  ASSUME TInv, NEW p \in Staff, Override(p)
  PROVE  RowsGo
  <1> USE DEF TInv, TypeOK
  <1>1. \A r \in Resumes : \/ resume'[r] = resume[r]
                           \/ \E a \in {"pass", "fail"} : resume'[r] = [resume[r] EXCEPT !.ai = a]
    BY DEF Override
  <1>2. resume' = [r \in Resumes |-> resume'[r]] /\ UNCHANGED <<applied, again>>
    BY DEF Override
  <1>3. ASSUME NEW r \in Resumes
        PROVE  /\ resume'[r] \in Rows /\ Same(r)
               /\ resume'[r].group = resume[r].group /\ resume'[r].batch = resume[r].batch
    <2>1. resume[r] \in Rows
      OBVIOUS
    <2> QED BY <1>1, <2>1 DEF Rows, Same
  <1>4. resume' \in [Resumes -> Rows]
    BY <1>2, <1>3
  <1> QED BY <1>2, <1>3, <1>4 DEF RowsGo, Kept, Young

LEMMA RelinkRows ==
  ASSUME TInv, NEW p \in Staff, Relink(p)
  PROVE  RowsGo
  <1> USE DEF TInv, TypeOK
  <1>1. PICK x \in DOMAIN staff[p].seen :
          /\ resume' = [resume EXCEPT ![x].batch = staff[p].batch]
          /\ meddled' = IF \E d \in Deciders : decider[d].now = x THEN meddled \cup {x} ELSE meddled
    BY DEF Relink
  <1>2. staff[p].batch \in Batches \cup {NoBatch} /\ UNCHANGED <<applied, again>>
    BY OwnGroup DEF Relink, StaffAt
  <1>3. ASSUME NEW r \in Resumes
        PROVE  resume'[r] \in Rows /\ resume'[r].group = resume[r].group /\ Kept(r)
    <2>0. resume[r] \in Rows
      OBVIOUS
    <2>1. CASE r = x
      <3>1. resume'[r] = [resume[r] EXCEPT !.batch = staff[p].batch]
        BY <1>1, <2>1
      <3>2. resume'[r] \in Rows /\ Same(r) /\ resume'[r].group = resume[r].group
        BY <1>2, <2>0, <3>1 DEF Rows, Same
      <3> QED BY <1>1, <1>2, <2>1, <3>2 DEF Kept
    <2>2. CASE r # x
      BY <1>1, <1>2, <2>0, <2>2 DEF Kept, Same
    <2> QED BY <2>1, <2>2
  <1>4. resume' \in [Resumes -> Rows]
    BY <1>1, <1>3
  <1> QED BY <1>2, <1>3, <1>4 DEF RowsGo, Young

LEMMA MarkRows ==
  ASSUME TInv, NEW p \in Staff, Mark(p)
  PROVE  RowsGo
  <1> USE DEF TInv, TypeOK
  <1>1. \A r \in Resumes :
          \/ resume'[r] = resume[r]
          \/ /\ ~Outcome(r)
             /\ resume'[r] = [resume[r] EXCEPT !.hr = "pushed", !.bss = "pending",
                                 !.batch = staff[p].batch, !.group = staff[p].group]
    BY DEF Mark, Outcome
  <1>2. /\ resume' = [r \in Resumes |-> resume'[r]] /\ applied' = applied
        /\ again' = again \cup {r \in Resumes : resume[r].hr = "rejected" /\ resume'[r].hr = "pushed"}
    BY DEF Mark
  <1>3. /\ staff[p].group \in Groups /\ staff[p].group <= asked
        /\ staff[p].batch \in Batches \cup {NoBatch}
    <2>1. staff[p].pc # "idle"
      BY DEF Mark, StaffAt
    <2> QED BY <2>1, OwnGroup
  <1>4. ASSUME NEW r \in Resumes
        PROVE  resume'[r] \in Rows /\ resume'[r].group <= asked /\ (Kept(r) \/ Opened(r))
    <2>0. resume[r] \in Rows /\ resume[r].group <= asked
      BY DEF Young
    <2>1. CASE resume'[r] = resume[r]
      BY <1>2, <2>0, <2>1 DEF Kept, Same
    <2>2. CASE /\ ~Outcome(r)
               /\ resume'[r] = [resume[r] EXCEPT !.hr = "pushed", !.bss = "pending",
                                   !.batch = staff[p].batch, !.group = staff[p].group]
      <3>1. resume'[r] \in Rows /\ resume'[r].group = staff[p].group
        BY <1>3, <2>0, <2>2 DEF Rows
      <3>2. resume'[r].hr = "pushed" /\ resume'[r].bss = "pending"
        BY <2>0, <2>2 DEF Rows
      <3> QED BY <1>2, <1>3, <2>2, <3>1, <3>2 DEF Opened, Verdicts
    <2> QED BY <1>1, <2>1, <2>2
  <1>5. resume' \in [Resumes -> Rows]
    BY <1>2, <1>4
  <1> QED BY <1>2, <1>4, <1>5 DEF RowsGo

LEMMA ResetRows ==
  ASSUME TInv, NEW p \in Staff, Reset(p)
  PROVE  RowsGo
  <1> USE DEF TInv, TypeOK
  <1>1. \A r \in Resumes :
          \/ resume'[r] = resume[r]
          \/ /\ ~Outcome(r) /\ resume[r].hr # "rejected"
             /\ resume'[r] = [resume[r] EXCEPT !.hr = "pending", !.bss = "not_ready",
                                 !.batch = NoBatch, !.group = NoGroup, !.at = Nobody]
    BY DEF Reset, Outcome, Verdicts
  <1>2. resume' = [r \in Resumes |-> resume'[r]] /\ UNCHANGED <<applied, again>>
    BY DEF Reset
  <1>3. NoGroup \in Groups /\ NoGroup <= asked
    BY ScreeningAssumption DEF NoGroup, Groups
  <1>4. ASSUME NEW r \in Resumes
        PROVE  resume'[r] \in Rows /\ resume'[r].group <= asked /\ (Kept(r) \/ Opened(r))
    <2>0. resume[r] \in Rows /\ resume[r].group <= asked
      BY DEF Young
    <2>1. CASE resume'[r] = resume[r]
      BY <1>2, <2>0, <2>1 DEF Kept, Same
    <2>2. CASE /\ ~Outcome(r) /\ resume[r].hr # "rejected"
               /\ resume'[r] = [resume[r] EXCEPT !.hr = "pending", !.bss = "not_ready",
                                   !.batch = NoBatch, !.group = NoGroup, !.at = Nobody]
      <3>1. resume'[r] \in Rows /\ resume'[r].group = NoGroup
        BY <1>3, <2>0, <2>2 DEF Rows
      <3>2. resume'[r].bss = "not_ready"
        BY <2>0, <2>2 DEF Rows
      <3> QED BY <1>2, <1>3, <2>2, <3>1, <3>2 DEF Opened, Verdicts
    <2> QED BY <1>1, <2>1, <2>2
  <1>5. resume' \in [Resumes -> Rows]
    BY <1>2, <1>4
  <1> QED BY <1>2, <1>4, <1>5 DEF RowsGo

LEMMA RejectRows ==
  ASSUME TInv, NEW p \in Staff, RejectWrites(p)
  PROVE  RowsGo
  <1> USE DEF TInv, TypeOK
  <1>1. \A r \in Resumes :
          \/ resume'[r] = resume[r] /\ applied'[r] = applied[r]
          \/ /\ applied'[r] = {}
             /\ \E b \in {"rejected", "not_ready"}, w \in Stamps \cup {Nobody} :
                   resume'[r] = [resume[r] EXCEPT !.hr = "rejected", !.status = "rejected",
                                    !.bss = b, !.at = w]
    BY DEF RejectWrites
  <1>2. /\ resume' = [r \in Resumes |-> resume'[r]] /\ applied' = [r \in Resumes |-> applied'[r]]
        /\ again' = again
    BY DEF RejectWrites
  <1>3. ASSUME NEW r \in Resumes
        PROVE  /\ resume'[r] \in Rows /\ resume'[r].group = resume[r].group
               /\ applied'[r] \in SUBSET (Stamps \X Verdicts)
               /\ Kept(r) \/ Denied(r)
    <2>0. resume[r] \in Rows /\ applied[r] \in SUBSET (Stamps \X Verdicts)
      OBVIOUS
    <2>1. CASE resume'[r] = resume[r] /\ applied'[r] = applied[r]
      BY <2>0, <2>1 DEF Kept, Same
    <2>2. ASSUME applied'[r] = {}, NEW b \in {"rejected", "not_ready"}, NEW w \in Stamps \cup {Nobody},
                 resume'[r] = [resume[r] EXCEPT !.hr = "rejected", !.status = "rejected",
                                  !.bss = b, !.at = w]
          PROVE  resume'[r] \in Rows /\ resume'[r].group = resume[r].group /\ Denied(r)
      <3>1. /\ resume'[r] \in Rows /\ resume'[r].group = resume[r].group
            /\ resume'[r].hr = "rejected"
        BY <2>0, <2>2 DEF Rows, Verdicts
      <3> QED BY <2>2, <3>1 DEF Denied
    <2> QED BY <1>1, <2>0, <2>1, <2>2
  <1>4. resume' \in [Resumes -> Rows] /\ applied' \in [Resumes -> SUBSET (Stamps \X Verdicts)]
    BY <1>2, <1>3
  <1> QED BY <1>2, <1>3, <1>4 DEF RowsGo, Young

LEMMA StaffRows ==
  ASSUME TInv, NEW p \in Staff, StaffStep(p)
  PROVE  RowsGo
  <1>1. \/ UNCHANGED <<resume, applied, again>>
        \/ Override(p) \/ Mark(p) \/ Relink(p) \/ Reset(p) \/ RejectWrites(p)
    BY DEF StaffStep, PushReads, PushLoads, Reopen, Extend, Append, Regroup, Create, Insert,
       Gather, Upsert, ResendLists, Delete, RejectChecks, RejectRevokes, Reads, WritesBatch,
       WritesItem, tables
  <1> QED BY <1>1, RowsUntouched, OverrideRows, MarkRows, RelinkRows, ResetRows, RejectRows

-----------------------------------------------------------------------------
(* What a step of a request of HR does to an item *)

\* It is left alone, added or moved to the group of the request, shown as the
\* resume stands, or taken out.
Added(b, r) ==
    /\ item[b][r].st = "none"
    /\ \E p \in Staff : /\ staff[p].pc # "idle"
                        /\ item'[b][r] = [st |-> "pending", group |-> staff[p].group, at |-> Nobody]
Moved(b, r) ==
    /\ item[b][r].st = "pending"
    /\ \E p \in Staff : /\ staff[p].pc # "idle"
                        /\ item'[b][r] = [item[b][r] EXCEPT !.group = staff[p].group]
Shown(b, r) ==
    /\ item'[b][r].at = Nobody /\ item'[b][r].group = item[b][r].group
    /\ \/ r \in meddled'
       \/ item'[b][r].st = DecidedAs(resume[r]) /\ \A d \in Deciders : decider[d].now # r
Out(b, r) == item[b][r].st = "pending" /\ item'[b][r] = NoItem
ItemGoes(b, r) ==
    \/ item'[b][r] = item[b][r]
    \/ Added(b, r) \/ Moved(b, r) \/ Shown(b, r) \/ Out(b, r)

\* The items after a step, and the requests made through links.
DeciderGoes(d) ==
    /\ decider'[d] \in DeciderRecords
    /\ decider'[d].pc = decider[d].pc /\ decider'[d].now = decider[d].now
    /\ decider'[d].batch = decider[d].batch /\ decider'[d].group = decider[d].group
    /\ decider'[d].verdict = decider[d].verdict /\ decider'[d].at = decider[d].at
    /\ \A r \in decider'[d].gone :
          r \in decider[d].gone \/ item[decider[d].batch][r].st = "pending"
ItemsGo ==
    /\ item' \in [Batches -> [Resumes -> Items]]
    /\ \A b \in Batches, r \in Resumes : item'[b][r].group <= asked /\ ItemGoes(b, r)
    /\ \A d \in Deciders : DeciderGoes(d)
    /\ decider' \in [Deciders -> DeciderRecords]
    /\ meddled' \in SUBSET Resumes /\ meddled \subseteq meddled'

LEMMA DecidersUntouched ==
  ASSUME TInv, UNCHANGED decider
  PROVE  decider' \in [Deciders -> DeciderRecords] /\ \A d \in Deciders : DeciderGoes(d)
  BY DEF TInv, TypeOK, DeciderGoes

LEMMA ItemsUntouched ==
  ASSUME TInv, UNCHANGED <<item, decider>>, meddled' \in SUBSET Resumes, meddled \subseteq meddled'
  PROVE  ItemsGo
  BY DecidersUntouched DEF TInv, TypeOK, Young, ItemsGo, ItemGoes

\* One batch is written, each of its items by a rule of its own.
LEMMA BatchWritten ==
  ASSUME TInv, NEW x \in Batches \cup {NoBatch}, NEW row,
         item' = [item EXCEPT ![x] = row],
         x \in Batches => /\ row \in [Resumes -> Items]
                          /\ \A r \in Resumes : /\ row[r].group <= asked
                                                /\ item'[x][r] = row[r] => ItemGoes(x, r)
  PROVE  /\ item' \in [Batches -> [Resumes -> Items]]
         /\ \A b \in Batches, r \in Resumes : item'[b][r].group <= asked /\ ItemGoes(b, r)
  <1> USE DEF TInv, TypeOK
  <1>1. \A b \in Batches : item'[b] = IF b = x THEN row ELSE item[b]
    OBVIOUS
  <1>2. item' \in [Batches -> [Resumes -> Items]]
    BY <1>1
  <1>3. ASSUME NEW b \in Batches, NEW r \in Resumes
        PROVE  item'[b][r].group <= asked /\ ItemGoes(b, r)
    <2>1. CASE b = x
      BY <1>1, <2>1
    <2>2. CASE b # x
      BY <1>1, <2>2 DEF Young, ItemGoes
    <2> QED BY <2>1, <2>2
  <1> QED BY <1>2, <1>3

LEMMA NewItem ==
  ASSUME TInv, NEW p \in Staff, staff[p].pc # "idle"
  PROVE  LET new == [st |-> "pending", group |-> staff[p].group, at |-> Nobody]
         IN  new \in Items /\ new.group <= asked
  BY OwnGroup DEF Items

LEMMA AppendItems ==
  ASSUME TInv, NEW p \in Staff, Append(p)
  PROVE  ItemsGo
  <1> DEFINE b == staff[p].batch
             row == [r \in Resumes |->
                       IF r \in Group(p) /\ item[b][r].st = "none"
                       THEN [st |-> "pending", group |-> staff[p].group, at |-> Nobody]
                       ELSE item[b][r]]
  <1>1. staff[p].pc # "idle" /\ item' = [item EXCEPT ![b] = row] /\ UNCHANGED <<meddled, decider>>
    BY DEF Append, StaffAt
  <1>2. b \in Batches \cup {NoBatch}
    BY <1>1, OwnGroup
  <1>3. ASSUME b \in Batches
        PROVE  /\ row \in [Resumes -> Items]
               /\ \A r \in Resumes : /\ row[r].group <= asked
                                     /\ item'[b][r] = row[r] => ItemGoes(b, r)
    <2>1. ASSUME NEW r \in Resumes
          PROVE  row[r] \in Items /\ row[r].group <= asked
                 /\ (item'[b][r] = row[r] => ItemGoes(b, r))
      <3>1. item[b][r] \in Items /\ item[b][r].group <= asked
        BY <1>3 DEF TInv, TypeOK, Young
      <3>2. CASE r \in Group(p) /\ item[b][r].st = "none"
        BY <1>1, <3>2, NewItem DEF ItemGoes, Added
      <3>3. CASE ~(r \in Group(p) /\ item[b][r].st = "none")
        BY <3>1, <3>3 DEF ItemGoes
      <3> QED BY <3>2, <3>3
    <2> QED BY <2>1
  <1>4. meddled' \in SUBSET Resumes /\ meddled \subseteq meddled'
    BY <1>1 DEF TInv, TypeOK
  <1> HIDE DEF b, row
  <1> QED BY <1>1, <1>2, <1>3, <1>4, BatchWritten, DecidersUntouched DEF ItemsGo

LEMMA InsertItems ==
  ASSUME TInv, NEW p \in Staff, Insert(p)
  PROVE  ItemsGo
  <1> DEFINE b == staff[p].batch
             row == [r \in Resumes |->
                       IF r \in Group(p)
                       THEN [st |-> "pending", group |-> staff[p].group, at |-> Nobody]
                       ELSE item[b][r]]
  <1>1. staff[p].pc # "idle" /\ UNCHANGED <<meddled, decider>>
    BY DEF Insert, StaffAt
  <1>2. b \in Batches \cup {NoBatch}
    BY <1>1, OwnGroup
  <1>3. meddled' \in SUBSET Resumes /\ meddled \subseteq meddled'
    BY <1>1 DEF TInv, TypeOK
  <1>4. CASE item' = item
    BY <1>1, <1>3, <1>4, ItemsUntouched
  <1>5. CASE item' = [item EXCEPT ![b] = row] /\ \A r \in Group(p) : item[b][r].st = "none"
    <2>1. ASSUME b \in Batches
          PROVE  /\ row \in [Resumes -> Items]
                 /\ \A r \in Resumes : /\ row[r].group <= asked
                                       /\ item'[b][r] = row[r] => ItemGoes(b, r)
      <3>1. ASSUME NEW r \in Resumes
            PROVE  row[r] \in Items /\ row[r].group <= asked
                   /\ (item'[b][r] = row[r] => ItemGoes(b, r))
        <4>1. item[b][r] \in Items /\ item[b][r].group <= asked
          BY <2>1 DEF TInv, TypeOK, Young
        <4>2. CASE r \in Group(p)
          BY <1>1, <1>5, <4>2, NewItem DEF ItemGoes, Added
        <4>3. CASE r \notin Group(p)
          BY <4>1, <4>3 DEF ItemGoes
        <4> QED BY <4>2, <4>3
      <3> QED BY <3>1
    <2> HIDE DEF b, row
    <2> QED BY <1>1, <1>2, <1>3, <1>5, <2>1, BatchWritten, DecidersUntouched DEF ItemsGo
  <1> QED BY <1>4, <1>5 DEF Insert

LEMMA RegroupItems ==
  ASSUME TInv, NEW p \in Staff, Regroup(p)
  PROVE  ItemsGo
  <1> DEFINE b == staff[p].batch
             row == [r \in Resumes |->
                       IF r \in Group(p) /\ item[b][r].st = "pending"
                       THEN [item[b][r] EXCEPT !.group = staff[p].group] ELSE item[b][r]]
  <1>1. staff[p].pc # "idle" /\ item' = [item EXCEPT ![b] = row] /\ UNCHANGED <<meddled, decider>>
    BY DEF Regroup, StaffAt
  <1>2. b \in Batches \cup {NoBatch} /\ staff[p].group \in Groups /\ staff[p].group <= asked
    BY <1>1, OwnGroup
  <1>3. ASSUME b \in Batches
        PROVE  /\ row \in [Resumes -> Items]
               /\ \A r \in Resumes : /\ row[r].group <= asked
                                     /\ item'[b][r] = row[r] => ItemGoes(b, r)
    <2>1. ASSUME NEW r \in Resumes
          PROVE  row[r] \in Items /\ row[r].group <= asked
                 /\ (item'[b][r] = row[r] => ItemGoes(b, r))
      <3>1. item[b][r] \in Items /\ item[b][r].group <= asked
        BY <1>3 DEF TInv, TypeOK, Young
      <3>2. CASE r \in Group(p) /\ item[b][r].st = "pending"
        <4>1. row[r] = [item[b][r] EXCEPT !.group = staff[p].group]
          BY <3>2
        <4>2. row[r] \in Items /\ row[r].group = staff[p].group
          BY <1>2, <3>1, <4>1 DEF Items
        <4> QED BY <1>1, <1>2, <3>2, <4>1, <4>2 DEF ItemGoes, Moved
      <3>3. CASE ~(r \in Group(p) /\ item[b][r].st = "pending")
        BY <3>1, <3>3 DEF ItemGoes
      <3> QED BY <3>2, <3>3
    <2> QED BY <2>1
  <1>4. meddled' \in SUBSET Resumes /\ meddled \subseteq meddled'
    BY <1>1 DEF TInv, TypeOK
  <1> HIDE DEF b, row
  <1> QED BY <1>1, <1>2, <1>3, <1>4, BatchWritten, DecidersUntouched DEF ItemsGo

LEMMA UpsertItems ==
  ASSUME TInv, NEW p \in Staff, Upsert(p)
  PROVE  ItemsGo
  <1> DEFINE b == staff[p].batch
             seen == staff[p].seen
             rows == DOMAIN seen
             row == [r \in Resumes |->
                       IF r \in rows
                       THEN [item[b][r] EXCEPT !.st = seen[r], !.at = Nobody] ELSE item[b][r]]
  <1>1. /\ staff[p].pc # "idle" /\ item' = [item EXCEPT ![b] = row] /\ UNCHANGED decider
        /\ meddled' = meddled \cup
             {r \in rows : \/ seen[r] # DecidedAs(resume[r])
                           \/ \E d \in Deciders : decider[d].now = r}
    BY DEF Upsert, StaffAt
  <1>2. b \in Batches \cup {NoBatch} /\ seen \in Views
    BY <1>1, OwnGroup DEF StaffRecords
  <1>3. rows \subseteq Resumes /\ \A r \in rows : seen[r] \in {"pending"} \cup Verdicts
    BY <1>2, ViewThere
  <1>4. meddled' \in SUBSET Resumes /\ meddled \subseteq meddled'
    BY <1>1, <1>3 DEF TInv, TypeOK
  <1>5. ASSUME b \in Batches
        PROVE  /\ row \in [Resumes -> Items]
               /\ \A r \in Resumes : /\ row[r].group <= asked
                                     /\ item'[b][r] = row[r] => ItemGoes(b, r)
    <2>1. ASSUME NEW r \in Resumes
          PROVE  row[r] \in Items /\ row[r].group <= asked
                 /\ (item'[b][r] = row[r] => ItemGoes(b, r))
      <3>1. item[b][r] \in Items /\ item[b][r].group <= asked
        BY <1>5 DEF TInv, TypeOK, Young
      <3>2. CASE r \in rows
        <4>1. row[r] = [item[b][r] EXCEPT !.st = seen[r], !.at = Nobody]
          BY <3>2
        <4>2. /\ row[r] \in Items /\ row[r].group = item[b][r].group
              /\ row[r].st = seen[r] /\ row[r].at = Nobody
          BY <1>3, <3>1, <3>2, <4>1 DEF Items
        <4>3. \/ r \in meddled'
              \/ seen[r] = DecidedAs(resume[r]) /\ \A d \in Deciders : decider[d].now # r
          BY <1>1, <3>2
        <4> HIDE DEF row, seen, rows
        <4> QED BY <3>1, <4>2, <4>3 DEF ItemGoes, Shown
      <3>3. CASE r \notin rows
        BY <3>1, <3>3 DEF ItemGoes
      <3> QED BY <3>2, <3>3
    <2> QED BY <2>1
  <1> HIDE DEF b, row, rows, seen
  <1> QED BY <1>1, <1>2, <1>4, <1>5, BatchWritten, DecidersUntouched DEF ItemsGo

LEMMA DeleteItems ==
  ASSUME TInv, NEW p \in Staff, Delete(p)
  PROVE  ItemsGo
  <1> DEFINE out(b, r) == r \in staff[p].ids /\ item[b][r].st = "pending"
             lost(d) == {r \in decider[d].todo \cup ({decider[d].now} \cap Resumes) :
                           decider[d].batch # NoBatch /\ out(decider[d].batch, r)}
  <1>1. /\ item' = [b \in Batches |-> [r \in Resumes |->
                      IF out(b, r) THEN NoItem ELSE item[b][r]]]
        /\ decider' = [d \in Deciders |-> [decider[d] EXCEPT !.gone = @ \cup lost(d)]]
        /\ meddled' = meddled
    BY DEF Delete
  <1>2. NoItem \in Items /\ NoItem.group <= asked
    BY ScreeningAssumption DEF NoItem, Items, NoGroup, Groups, TInv, TypeOK
  <1>3. ASSUME NEW b \in Batches, NEW r \in Resumes
        PROVE  item'[b][r] \in Items /\ item'[b][r].group <= asked /\ ItemGoes(b, r)
    BY <1>1, <1>2 DEF TInv, TypeOK, Young, ItemGoes, Out
  <1>4. item' \in [Batches -> [Resumes -> Items]]
    BY <1>1, <1>3
  <1>5. ASSUME NEW d \in Deciders PROVE DeciderGoes(d)
    <2>1. decider[d] \in DeciderRecords
      BY DEF TInv, TypeOK
    <2>2. decider'[d] = [decider[d] EXCEPT !.gone = @ \cup lost(d)]
      BY <1>1
    <2>3. lost(d) \in SUBSET Resumes /\ \A r \in lost(d) : item[decider[d].batch][r].st = "pending"
      BY <2>1 DEF DeciderRecords
    <2> HIDE DEF lost
    <2> QED BY <2>1, <2>2, <2>3 DEF DeciderGoes, DeciderRecords
  <1>6. decider' \in [Deciders -> DeciderRecords]
    BY <1>1, <1>5 DEF DeciderGoes
  <1> QED BY <1>1, <1>3, <1>4, <1>5, <1>6 DEF ItemsGo, TInv, TypeOK

LEMMA StaffItems ==
  ASSUME TInv, NEW p \in Staff, StaffStep(p)
  PROVE  ItemsGo
  <1>1. CASE Append(p) \/ Insert(p) \/ Regroup(p) \/ Upsert(p) \/ Delete(p)
    BY <1>1, AppendItems, InsertItems, RegroupItems, UpsertItems, DeleteItems
  <1>2. CASE Relink(p)
    <2>1. staff[p] \in StaffRecords
      BY DEF TInv, TypeOK
    <2>2. DOMAIN staff[p].seen \subseteq Resumes
      BY <2>1, ViewThere DEF StaffRecords
    <2>3. meddled' \in SUBSET Resumes /\ meddled \subseteq meddled' /\ UNCHANGED <<item, decider>>
      BY <1>2, <2>2 DEF Relink, TInv, TypeOK
    <2> QED BY <2>3, ItemsUntouched
  <1>3. CASE UNCHANGED <<item, decider, meddled>>
    BY <1>3, ItemsUntouched DEF TInv, TypeOK
  <1> QED BY <1>1, <1>2, <1>3 DEF StaffStep, Override, PushReads, PushLoads, Reopen, Extend, Create,
          Mark, Gather, ResendLists, Reset, RejectChecks, RejectWrites, RejectRevokes, Reads,
          WritesResume, WritesBatch, tables

-----------------------------------------------------------------------------
(* Every step keeps the types *)

LEMMA StaffTypes ==
  ASSUME TInv, NEW p \in Staff, StaffStep(p)
  PROVE  TInv' /\ Continues /\ RowsGo /\ ItemsGo /\ UNCHANGED counts
  <1>1. Continues /\ RowsGo /\ ItemsGo
    BY StaffContinues, StaffRows, StaffItems
  <1>2. UNCHANGED counts
    BY DEF StaffStep, Override, PushReads, PushLoads, Reopen, Extend, Append, Regroup, Create,
       Insert, Mark, Gather, Upsert, Relink, ResendLists, Delete, Reset, RejectChecks,
       RejectWrites, RejectRevokes, Reads, WritesResume, WritesBatch, WritesItem
  <1>3. batch' \in [Batches -> BatchRows]
    <2>0. batch \in [Batches -> BatchRows] /\ staff[p] \in StaffRecords
      BY DEF TInv, TypeOK
    <2>1. CASE UNCHANGED batch
      BY <2>0, <2>1
    <2>2. CASE Reopen(p)
      BY <2>0, <2>2 DEF Reopen, BatchRows
    <2>3. CASE Extend(p)
      <3> DEFINE b == staff[p].batch
      <3>1. \/ batch' = batch
            \/ batch' = [batch EXCEPT ![b].late = FALSE,
                                      ![b].st = IF @ = "expired" THEN "active" ELSE @]
        BY <2>3 DEF Extend
      <3>2. CASE b \in Batches
        <4>1. batch[b] \in BatchRows
          BY <2>0, <3>2
        <4>2. [batch[b] EXCEPT !.late = FALSE,
                  !.st = IF batch[b].st = "expired" THEN "active" ELSE batch[b].st] \in BatchRows
          BY <4>1 DEF BatchRows
        <4>3. \/ batch' = batch
              \/ batch' = [batch EXCEPT ![b] = [batch[b] EXCEPT !.late = FALSE,
                      !.st = IF batch[b].st = "expired" THEN "active" ELSE batch[b].st]]
          BY <2>0, <3>1, <3>2, <4>1 DEF BatchRows
        <4> QED BY <2>0, <4>2, <4>3
      <3>3. CASE b \notin Batches
        BY <2>0, <3>1, <3>3
      <3> QED BY <3>2, <3>3
    <2>4. CASE Create(p)
      <3>1. PICK b \in Batches :
              batch' = [batch EXCEPT ![b] = [st |-> "active", owner |-> staff[p].who,
                                            late |-> FALSE, auto |-> Kind(p) = "auto"]]
        BY <2>4 DEF Create
      <3>2. [st |-> "active", owner |-> staff[p].who, late |-> FALSE, auto |-> Kind(p) = "auto"]
              \in BatchRows
        BY <2>0 DEF StaffRecords, BatchRows
      <3> QED BY <2>0, <3>1, <3>2
    <2>5. CASE RejectRevokes(p)
      <3>1. \A b \in Batches : batch'[b] \in {batch[b], [batch[b] EXCEPT !.st = "revoked"]}
        BY <2>5 DEF RejectRevokes
      <3>2. \A b \in Batches : batch'[b] \in BatchRows
        BY <2>0, <3>1 DEF BatchRows
      <3> QED BY <2>5, <3>2 DEF RejectRevokes
    <2> QED BY <2>1, <2>2, <2>3, <2>4, <2>5 DEF StaffStep, Override, PushReads, PushLoads, Append,
            Regroup, Insert, Mark, Gather, Upsert, Relink, ResendLists, Delete, Reset,
            RejectChecks, RejectWrites, Reads, WritesResume, WritesItem, tables
  <1>4. TypeOK'
    BY <1>1, <1>2, <1>3 DEF TInv, TypeOK, Continues, RowsGo, ItemsGo, counts
  <1>5. Placed'
    BY <1>1 DEF TInv, Placed, Continues, ItemsGo, DeciderGoes
  <1>6. Young'
    BY <1>1, <1>2 DEF TInv, Young, Continues, RowsGo, ItemsGo, counts
  <1> QED BY <1>1, <1>2, <1>4, <1>5, <1>6 DEF TInv

\* A request comes in with a group that nothing has yet.
LEMMA AskTypes ==
  ASSUME TInv, NEW p \in Staff, NEW kind \in Offered, NEW ids \in SUBSET Resumes,
         NEW b \in Batches \cup {NoBatch}, Ask(p, kind, ids, b)
  PROVE  /\ TInv' /\ asked' = asked + 1
         /\ \A q \in Staff : staff'[q].pc # "idle" =>
               \/ staff'[q].group = asked + 1
               \/ staff[q].pc # "idle" /\ staff'[q].group = staff[q].group
  <1> DEFINE who == IF kind = "auto"
                    THEN CHOOSE i \in Interviewers : \E r \in ids : i \in Responsible[r] ELSE Nobody
             pc == CASE kind \in {"manual", "eliminate"} -> "override"
                     [] kind \in {"push", "temp"} -> "read"
                     [] kind = "auto" -> "create"
                     [] kind = "resend" -> "list"
                     [] kind = "consolidate" -> "gather"
                     [] kind = "remove" -> "delete"
                     [] kind = "reject" -> "check"
             rec == [StaffIdle EXCEPT !.kind = kind, !.ids = ids, !.batch = b, !.group = asked + 1,
                        !.who = who, !.pc = pc]
  <1>1. /\ asked < MaxAsked /\ asked' = asked + 1
        /\ kind \in {"resend", "consolidate"} <=> b # NoBatch
        /\ kind = "auto" => \E r \in ids : Cardinality(Responsible[r]) = 1
        /\ staff' = [staff EXCEPT ![p] = rec]
        /\ UNCHANGED <<tables, applied, meddled, again, decider, decisions, deaths>>
    BY DEF Ask
  <1>2. kind \in StaffKinds
    BY ScreeningAssumption
  <1>3. who \in Interviewers \cup {Nobody}
    <2>1. CASE kind = "auto"
      <3>1. PICK r \in ids : Cardinality(Responsible[r]) = 1
        BY <1>1, <2>1
      <3>2. Responsible[r] # {} /\ Responsible[r] \subseteq Interviewers
        <4>1. Responsible[r] # {}
          BY <3>1, FS_EmptySet
        <4> QED BY <4>1, ScreeningAssumption
      <3> QED BY <2>1, <3>2
    <2>2. CASE kind # "auto"
      BY <2>2
    <2> QED BY <2>1, <2>2
  <1>4. pc \in StaffPc /\ pc # "idle" /\ (pc = "list" => kind = "resend")
    BY <1>2 DEF StaffKinds, StaffPc
  <1>5. asked + 1 \in 1..MaxAsked /\ asked + 1 \in Groups /\ asked \in Nat
    BY <1>1, ScreeningAssumption DEF TInv, TypeOK, Groups
  <1> HIDE DEF who, pc
  <1>6. rec \in StaffRecords /\ rec.pc = pc /\ rec.group = asked + 1 /\ rec.batch = b
    BY <1>2, <1>3, <1>4, <1>5, IdleRecords DEF StaffRecords
  <1> HIDE DEF rec
  <1>7. \A q \in Staff : staff'[q] = IF q = p THEN rec ELSE staff[q]
    BY <1>1 DEF TInv, TypeOK
  <1>8. staff' \in [Staff -> StaffRecords]
    BY <1>1, <1>6 DEF TInv, TypeOK
  <1>9. TypeOK'
    BY <1>1, <1>5, <1>8 DEF TInv, TypeOK, tables
  <1>10. Placed'
    BY <1>1, <1>4, <1>6, <1>7 DEF TInv, Placed
  <1>11. Young'
    <2>1. \A r \in Resumes : resume[r].group \in Int
      BY DEF TInv, TypeOK, Rows, Groups
    <2>2. \A c \in Batches, r \in Resumes : item[c][r].group \in Int
      BY DEF TInv, TypeOK, Items, Groups
    <2>3. (\A r \in Resumes : resume'[r].group <= asked') /\ \A c \in Batches, r \in Resumes : item'[c][r].group <= asked'
      BY <1>1, <1>5, <2>1, <2>2 DEF TInv, Young, tables
    <2>4. \A q \in Staff : staff'[q].pc # "idle" => staff'[q].group \in 1..asked'
      BY <1>1, <1>5, <1>6, <1>7 DEF TInv, Young
    <2> QED BY <2>3, <2>4 DEF Young
  <1> QED BY <1>1, <1>6, <1>7, <1>9, <1>10, <1>11 DEF TInv

\* A request made through a link goes on with another record.
LEMMA DeciderRecord ==
  ASSUME TInv, NEW d \in Deciders, NEW rec \in DeciderRecords,
         decider' = [decider EXCEPT ![d] = rec],
         rec.pc \in {"read", "write", "report"} => rec.batch \in Batches,
         rec.pc \in {"write", "report"} => rec.now \in Resumes /\ rec.at \in Stamps
  PROVE  /\ decider' \in [Deciders -> DeciderRecords]
         /\ \A e \in Deciders : decider'[e] = IF e = d THEN rec ELSE decider[e]
         /\ \A e \in Deciders :
              /\ decider'[e].pc \in {"read", "write", "report"} => decider'[e].batch \in Batches
              /\ decider'[e].pc \in {"write", "report"} =>
                decider'[e].now \in Resumes /\ decider'[e].at \in Stamps
  BY DEF TInv, TypeOK, Placed

\* It ends, or goes on to the next resume or to the count.
GoesOn(d) ==
    /\ decider' \in [Deciders -> DeciderRecords]
    /\ \A e \in Deciders \ {d} : decider'[e] = decider[e]
    /\ \A e \in Deciders :
         /\ decider'[e].pc \in {"read", "write", "report"} => decider'[e].batch \in Batches
         /\ decider'[e].pc \in {"write", "report"} =>
                decider'[e].now \in Resumes /\ decider'[e].at \in Stamps

LEMMA QuitGoesOn ==
  ASSUME TInv, NEW d \in Deciders, Quit(d)
  PROVE  GoesOn(d) /\ decider'[d].pc = "idle"
  BY IdleRecords, DeciderRecord DEF Quit, GoesOn

LEMMA StepGoesOn ==
  ASSUME TInv, NEW d \in Deciders, Step(d, "complete") \/ (decider[d].pc = "write" /\ Step(d, "report"))
  PROVE  /\ GoesOn(d)
         /\ decider'[d].now = decider[d].now /\ decider'[d].gone = decider[d].gone
         /\ decider'[d].batch = decider[d].batch /\ decider'[d].group = decider[d].group
         /\ decider'[d].verdict = decider[d].verdict /\ decider'[d].at = decider[d].at
         /\ decider'[d].pc \in {"complete", "report"}
  <1> PICK pc \in {"complete", "report"} :
        Step(d, pc) /\ (pc = "report" => decider[d].pc = "write")
    OBVIOUS
  <1> DEFINE rec == [decider[d] EXCEPT !.pc = pc]
  <1>1. decider[d] \in DeciderRecords
    BY DEF TInv, TypeOK
  <1>2. /\ rec \in DeciderRecords /\ rec.pc = pc /\ rec.now = decider[d].now
        /\ rec.gone = decider[d].gone /\ rec.batch = decider[d].batch
        /\ rec.group = decider[d].group /\ rec.verdict = decider[d].verdict
        /\ rec.at = decider[d].at
    BY <1>1 DEF DeciderRecords, DeciderPc
  <1>3. pc = "report" => /\ decider[d].batch \in Batches /\ decider[d].now \in Resumes
                         /\ decider[d].at \in Stamps
    BY DEF TInv, Placed
  <1>4. decider' = [decider EXCEPT ![d] = rec]
    BY DEF Step
  <1> HIDE DEF rec
  <1> QED BY <1>2, <1>3, <1>4, DeciderRecord DEF GoesOn

LEMMA ProceedGoesOn ==
  ASSUME TInv, NEW d \in Deciders, NEW r, NEW refused, Proceed(d, r, refused),
         decider[d].pc \in {"read", "report"}
  PROVE  GoesOn(d) /\ decider'[d].pc \in {"idle", "count", "read"}
  <1>1. CASE Quit(d)
    BY <1>1, QuitGoesOn
  <1>2. CASE ~(decider[d].single /\ refused)
    <2> DEFINE left == decider[d].todo \ {r}
               pc == IF left = {} THEN "count" ELSE "read"
               rec == [decider[d] EXCEPT !.todo = left, !.now = Nobody, !.group = NoGroup,
                          !.at = Nobody, !.pc = pc]
    <2>1. decider[d] \in DeciderRecords /\ decider[d].batch \in Batches
      BY DEF TInv, TypeOK, Placed
    <2>2. NoGroup \in Groups /\ left \in SUBSET Resumes
      BY <2>1, ScreeningAssumption DEF NoGroup, Groups, DeciderRecords
    <2>3. rec \in DeciderRecords /\ rec.pc \in {"count", "read"} /\ rec.batch = decider[d].batch
      BY <2>1, <2>2 DEF DeciderRecords, DeciderPc
    <2>4. decider' = [decider EXCEPT ![d] = rec]
      BY <1>2 DEF Proceed
    <2> HIDE DEF rec
    <2> QED BY <2>1, <2>3, <2>4, DeciderRecord DEF GoesOn
  <1> QED BY <1>1, <1>2 DEF Proceed

\* A request goes on to write with the time it was made at.
LEMMA ReadGoesOn ==
  ASSUME TInv, NEW d \in Deciders, DecideReads(d)
  PROVE  GoesOn(d) /\ decider'[d].pc \in {"idle", "count", "read", "write"}
  <1>0. decider[d].pc = "read" /\ decider[d] \in DeciderRecords /\ decider[d].batch \in Batches
    BY DEF DecideReads, DeciderAt, TInv, TypeOK, Placed
  <1>1. PICK r \in decider[d].todo :
          \/ Quit(d)
          \/ \E refused : Proceed(d, r, refused)
          \/ \E t \in Stamps : decider' = [decider EXCEPT ![d] = [@ EXCEPT !.now = r,
                  !.group = KnownGroup(resume[r], decider[d].batch, item[decider[d].batch][r]),
                  !.at = t, !.todo = decider[d].todo \ {r}, !.pc = "write"]]
    BY DEF DecideReads
  <1>2. r \in Resumes
    BY <1>0 DEF DeciderRecords
  <1>3. CASE Quit(d)
    BY <1>3, QuitGoesOn
  <1>4. CASE \E refused : Proceed(d, r, refused)
    BY <1>0, <1>4, ProceedGoesOn
  <1>5. ASSUME NEW t \in Stamps,
               decider' = [decider EXCEPT ![d] = [@ EXCEPT !.now = r,
                  !.group = KnownGroup(resume[r], decider[d].batch, item[decider[d].batch][r]),
                  !.at = t, !.todo = decider[d].todo \ {r}, !.pc = "write"]]
        PROVE  GoesOn(d) /\ decider'[d].pc = "write"
    <2> DEFINE g == KnownGroup(resume[r], decider[d].batch, item[decider[d].batch][r])
               rec == [decider[d] EXCEPT !.now = r, !.group = g, !.at = t,
                          !.todo = decider[d].todo \ {r}, !.pc = "write"]
    <2>1. g \in Groups
      BY <1>0, <1>2, GroupValues DEF TInv, TypeOK
    <2>2. decider' = [decider EXCEPT ![d] = rec]
      BY <1>5
    <2> HIDE DEF g
    <2>3. /\ rec \in DeciderRecords /\ rec.pc = "write" /\ rec.now = r /\ rec.batch = decider[d].batch
          /\ rec.at = t
      BY <1>0, <1>2, <2>1 DEF DeciderRecords, DeciderPc
    <2> HIDE DEF rec
    <2> QED BY <1>0, <1>2, <1>5, <2>2, <2>3, DeciderRecord DEF GoesOn
  <1> QED BY <1>1, <1>3, <1>4, <1>5

\* The items a decision closes, and what it does with the row: it writes it, or
\* finds a decision that looks like its own.
Closes(d, b) ==
    item[b][decider[d].now].st = "pending" /\ ItemGroup(b, item[b][decider[d].now]) = decider[d].group
Closed(d) ==
    \A b \in Batches, r \in Resumes :
        item'[b][r] = IF r = decider[d].now /\ Closes(d, b)
                      THEN [item[b][r] EXCEPT !.st = decider[d].verdict, !.at = decider[d].at]
                      ELSE item[b][r]
Wrote(d) ==
    /\ decider[d].now \notin decider[d].gone
    /\ Decides(decider[d].now, decider[d].batch, decider[d].group)
    /\ resume' = [resume EXCEPT ![decider[d].now] = Row(d)]
    /\ Closed(d)
Joined(d) == resume' = resume /\ Stands(d) /\ Closed(d)

\* The items of one resume that are pending in the group are closed.
LEMMA ItemsClosed ==
  ASSUME TInv, NEW d \in Deciders, decider[d].pc = "write", decider[d] \in DeciderRecords,
         item' = [c \in Batches |->
                    IF /\ item[c][decider[d].now].st = "pending"
                       /\ ItemGroup(c, item[c][decider[d].now]) = decider[d].group
                    THEN [item[c] EXCEPT ![decider[d].now] =
                            [@ EXCEPT !.st = decider[d].verdict, !.at = decider[d].at]]
                    ELSE item[c]]
  PROVE  Closed(d) /\ item' \in [Batches -> [Resumes -> Items]]
  <1> DEFINE x == decider[d].now
             v == decider[d].verdict
             t == decider[d].at
  <1>1. x \in Resumes /\ v \in Verdicts /\ t \in Stamps
    BY DEF TInv, Placed, DeciderRecords
  <1>2. ASSUME NEW b \in Batches
        PROVE  /\ item'[b] \in [Resumes -> Items]
               /\ \A r \in Resumes :
                     item'[b][r] = IF r = x /\ Closes(d, b)
                                   THEN [item[b][r] EXCEPT !.st = v, !.at = t] ELSE item[b][r]
    <2>1. item[b] \in [Resumes -> Items]
      BY DEF TInv, TypeOK
    <2>2. CASE Closes(d, b)
      <3>1. item'[b] = [item[b] EXCEPT ![x] = [item[b][x] EXCEPT !.st = v, !.at = t]]
        BY <2>2 DEF Closes
      <3>2. item[b][x] \in Items
        BY <1>1, <2>1
      <3>3. [item[b][x] EXCEPT !.st = v, !.at = t] \in Items
        BY <1>1, <3>2 DEF Items
      <3> QED BY <2>1, <2>2, <3>1, <3>3
    <2>3. CASE ~Closes(d, b)
      <3>1. item'[b] = item[b]
        BY <2>3 DEF Closes
      <3> QED BY <2>1, <2>3, <3>1
    <2> QED BY <2>2, <2>3
  <1> QED BY <1>2 DEF Closed

LEMMA WriteGoesOn ==
  ASSUME TInv, NEW d \in Deciders, DecideWrites(d)
  PROVE  /\ decider[d].pc = "write" /\ decider[d] \in DeciderRecords
         /\ decider[d].now \in Resumes /\ decider[d].batch \in Batches /\ decider[d].at \in Stamps
         /\ GoesOn(d) /\ decider'[d].pc = "report" /\ decider'[d].now = decider[d].now
         /\ decider'[d].gone = decider[d].gone /\ decider'[d].batch = decider[d].batch
         /\ decider'[d].group = decider[d].group /\ decider'[d].verdict = decider[d].verdict
         /\ decider'[d].at = decider[d].at
         /\ UNCHANGED <<resume, item>> \/ Wrote(d) \/ Joined(d)
         /\ resume' \in [Resumes -> Rows] /\ item' \in [Batches -> [Resumes -> Items]]
         /\ meddled' \in SUBSET Resumes /\ meddled \subseteq meddled'
         /\ \/ decider[d].now \in meddled'
            \/ \A p \in Staff : staff[p].pc # "idle" => staff[p].group # decider[d].group
         /\ UNCHANGED <<batch, staff, applied, again, counts>>
  <1> DEFINE x == decider[d].now
             v == decider[d].verdict
             all == [c \in Batches |->
                       IF item[c][x].st = "pending" /\ ItemGroup(c, item[c][x]) = decider[d].group
                       THEN [item[c] EXCEPT ![x] = [@ EXCEPT !.st = v, !.at = decider[d].at]]
                       ELSE item[c]]
  <1>1. decider[d].pc = "write" /\ Step(d, "report") /\ decider[d] \in DeciderRecords
    BY DEF DecideWrites, DeciderAt, TInv, TypeOK
  <1>2. /\ x \in Resumes /\ decider[d].batch \in Batches /\ v \in Verdicts
        /\ decider[d].group \in Groups /\ decider[d].at \in Stamps
    BY <1>1 DEF TInv, Placed, DeciderRecords
  <1>3. /\ GoesOn(d) /\ decider'[d].now = x
        /\ decider'[d].gone = decider[d].gone /\ decider'[d].batch = decider[d].batch
        /\ decider'[d].group = decider[d].group /\ decider'[d].verdict = v
        /\ decider'[d].at = decider[d].at
    BY <1>1, StepGoesOn
  <1>4. decider'[d].pc = "report"
    BY <1>1 DEF Step, DeciderRecords, TInv, TypeOK
  <1>5. /\ meddled' \in SUBSET Resumes /\ meddled \subseteq meddled'
        /\ x \in meddled' \/ \A p \in Staff : staff[p].pc # "idle" => staff[p].group # decider[d].group
        /\ UNCHANGED <<batch, staff, applied, again, counts>>
    BY <1>2 DEF DecideWrites, TInv, TypeOK
  <1>6. CASE UNCHANGED <<resume, item>>
    BY <1>1, <1>2, <1>3, <1>4, <1>5, <1>6 DEF TInv, TypeOK
  <1>7. CASE /\ x \notin decider[d].gone /\ Decides(x, decider[d].batch, decider[d].group)
             /\ resume' = [resume EXCEPT ![x] = Row(d)] /\ item' = all
    <2>1. Row(d) \in Rows
      <3>1. resume[x] \in Rows
        BY <1>2 DEF TInv, TypeOK
      <3> QED BY <1>2, <3>1 DEF Row, Rows, Verdicts
    <2>2. resume' \in [Resumes -> Rows]
      BY <1>7, <2>1 DEF TInv, TypeOK
    <2>3. Closed(d) /\ item' \in [Batches -> [Resumes -> Items]]
      BY <1>1, <1>7, ItemsClosed
    <2> HIDE DEF all
    <2> QED BY <1>1, <1>2, <1>3, <1>4, <1>5, <1>7, <2>2, <2>3 DEF Wrote
  <1>8. CASE resume' = resume /\ Stands(d) /\ item' = all
    <2>1. Closed(d) /\ item' \in [Batches -> [Resumes -> Items]]
      BY <1>1, <1>8, ItemsClosed
    <2> HIDE DEF all
    <2> QED BY <1>1, <1>2, <1>3, <1>4, <1>5, <1>8, <2>1 DEF Joined, TInv, TypeOK
  <1>9. \/ UNCHANGED <<resume, item>>
        \/ /\ x \notin decider[d].gone /\ Decides(x, decider[d].batch, decider[d].group)
           /\ resume' = [resume EXCEPT ![x] = Row(d)] /\ item' = all
        \/ resume' = resume /\ Stands(d) /\ item' = all
    BY DEF DecideWrites
  <1> QED BY <1>6, <1>7, <1>8, <1>9

\* What is reported is what the rows say, and a finding is reported.
LEMMA ReportGoesOn ==
  ASSUME TInv, NEW d \in Deciders, DecideReports(d)
  PROVE  LET r == decider[d].now
             b == decider[d].batch
             v == decider[d].verdict
             done == /\ KnownGroup(resume[r], b, item[b][r]) = decider[d].group
                     /\ item[b][r].st = v /\ item[b][r].at = decider[d].at
                     /\ resume[r].bss = v /\ resume[r].batch = b
         IN  /\ r \in Resumes /\ b \in Batches /\ v \in Verdicts /\ decider[d].at \in Stamps
             /\ GoesOn(d) /\ decider'[d].pc \in {"idle", "count", "read"}
             /\ applied' \in [Resumes -> SUBSET (Stamps \X Verdicts)]
             /\ IF done /\ r \notin decider[d].gone
                THEN /\ applied'[r] = applied[r] \cup {<<decider[d].at, v>>}
                     /\ \A x \in Resumes \ {r} : applied'[x] = applied[x]
                ELSE applied' = applied
  <1> DEFINE r == decider[d].now
             b == decider[d].batch
             v == decider[d].verdict
             done == /\ KnownGroup(resume[r], b, item[b][r]) = decider[d].group
                     /\ item[b][r].st = v /\ item[b][r].at = decider[d].at
                     /\ resume[r].bss = v /\ resume[r].batch = b
  <1>1. decider[d].pc = "report" /\ decider[d] \in DeciderRecords
    BY DEF DecideReports, DeciderAt, TInv, TypeOK
  <1>2. r \in Resumes /\ b \in Batches /\ v \in Verdicts /\ decider[d].at \in Stamps
    BY <1>1 DEF TInv, Placed, DeciderRecords
  <1>3. Quit(d) \/ \E refused : Proceed(d, r, refused)
    BY DEF DecideReports
  <1>4. GoesOn(d) /\ decider'[d].pc \in {"idle", "count", "read"}
    BY <1>1, <1>3, QuitGoesOn, ProceedGoesOn
  <1>5. applied' = IF done /\ r \notin decider[d].gone
                   THEN [applied EXCEPT ![r] = @ \cup {<<decider[d].at, v>>}] ELSE applied
    BY DEF DecideReports
  <1>6. applied \in [Resumes -> SUBSET (Stamps \X Verdicts)]
    BY DEF TInv, TypeOK
  <1> HIDE DEF done
  <1>7. /\ applied' \in [Resumes -> SUBSET (Stamps \X Verdicts)]
        /\ IF done /\ r \notin decider[d].gone
           THEN /\ applied'[r] = applied[r] \cup {<<decider[d].at, v>>}
                /\ \A x \in Resumes \ {r} : applied'[x] = applied[x]
           ELSE applied' = applied
    BY <1>2, <1>5, <1>6
  <1> QED BY <1>2, <1>4, <1>7 DEF done

LEMMA OtherGoesOn ==
  ASSUME TInv, NEW d \in Deciders, Expire(d) \/ CountPending(d) \/ Complete(d)
  PROVE  /\ GoesOn(d) /\ decider'[d].pc \in {"idle", "complete"}
         /\ decider[d].pc \in {"expire", "count", "complete"}
         /\ batch' \in [Batches -> BatchRows]
         /\ UNCHANGED <<resume, item, staff, applied, meddled, again, counts>>
  <1>1. Quit(d) \/ Step(d, "complete")
    BY DEF Expire, CountPending, Complete
  <1>2. GoesOn(d)
    BY <1>1, QuitGoesOn, StepGoesOn
  <1>3. decider'[d].pc \in {"idle", "complete"}
    <2>1. CASE Quit(d)
      BY <2>1, QuitGoesOn
    <2>2. CASE Step(d, "complete")
      BY <2>2 DEF Step, TInv, TypeOK, DeciderRecords
    <2> QED BY <1>1, <2>1, <2>2
  <1>4. batch' \in [Batches -> BatchRows]
    <2>0. batch \in [Batches -> BatchRows]
      BY DEF TInv, TypeOK
    <2>1. batch' = batch \/ \E st \in {"expired", "completed"} :
                               batch' = [batch EXCEPT ![decider[d].batch].st = st]
      BY DEF Expire, CountPending, Complete, DeciderReads, tables
    <2> QED BY <2>0, <2>1 DEF BatchRows
  <1>5. UNCHANGED <<resume, item, staff, applied, meddled, again, counts>>
    BY DEF Expire, CountPending, Complete, DeciderReads, tables
  <1>6. decider[d].pc \in {"expire", "count", "complete"}
    BY DEF Expire, CountPending, Complete, DeciderAt
  <1> QED BY <1>2, <1>3, <1>4, <1>5, <1>6

LEMMA OpenLinkGoesOn ==
  ASSUME TInv, NEW d \in Deciders, NEW b \in Batches, NEW v \in Verdicts,
         NEW ids \in SUBSET Resumes, NEW single \in BOOLEAN, OpenLink(d, b, v, ids, single)
  PROVE  /\ GoesOn(d) /\ decider[d].pc = "idle"
         /\ decider'[d].pc \in {"expire", "count", "read"}
         /\ decisions' \in 0..MaxDecisions
         /\ UNCHANGED <<tables, staff, applied, meddled, again, asked, deaths>>
  <1> DEFINE pc == IF batch[b].late THEN "expire" ELSE IF ids = {} THEN "count" ELSE "read"
             rec == [DeciderIdle EXCEPT !.batch = b, !.verdict = v, !.todo = ids,
                        !.single = single, !.pc = pc]
  <1>1. rec \in DeciderRecords /\ rec.pc \in {"expire", "count", "read"} /\ rec.batch = b
    BY IdleRecords DEF DeciderRecords, DeciderPc
  <1>2. /\ decider' = [decider EXCEPT ![d] = rec] /\ decider[d] = DeciderIdle
        /\ decisions < MaxDecisions /\ decisions' = decisions + 1
        /\ UNCHANGED <<tables, staff, applied, meddled, again, asked, deaths>>
    BY DEF OpenLink
  <1>3. decisions' \in 0..MaxDecisions
    BY <1>2, ScreeningAssumption DEF TInv, TypeOK
  <1> HIDE DEF rec
  <1> QED BY <1>1, <1>2, <1>3, DeciderRecord, IdleRecords DEF GoesOn

\* The routes of HR that look at nothing else leave what business screening wrote.
LEMMA HrGoes ==
  ASSUME TInv, NEW x \in Resumes,
         SetStatus(x) \/ ResetToPending(x) \/ MarkInterviewing(x) \/ Screen(x)
  PROVE  /\ resume' \in [Resumes -> Rows]
         /\ \A r \in Resumes : /\ Same(r) /\ resume'[r].group = resume[r].group
                               /\ resume'[r].batch = resume[r].batch
         /\ asked < MaxAsked /\ asked' = asked + 1
         /\ UNCHANGED <<batch, item, staff, decider, applied, meddled, again, decisions, deaths>>
  <1>1. PICK s \in {"open", "interviewing", "approved", "rejected"}, a \in {"none", "pass", "fail"} :
          HrWrites(x, [resume[x] EXCEPT !.status = s, !.ai = a])
    <2>0. resume[x] \in Rows
      BY DEF TInv, TypeOK
    <2>1. resume[x].status \in {"open", "interviewing", "approved", "rejected"}
          /\ resume[x].ai \in {"none", "pass", "fail"}
      BY <2>0 DEF Rows
    <2>2. \A s : [resume[x] EXCEPT !.status = s] = [resume[x] EXCEPT !.status = s, !.ai = resume[x].ai]
      BY <2>0 DEF Rows
    <2>3. \A a : [resume[x] EXCEPT !.ai = a] = [resume[x] EXCEPT !.status = resume[x].status, !.ai = a]
      BY <2>0 DEF Rows
    <2>4. CASE SetStatus(x) \/ MarkInterviewing(x)
      <3>1. PICK s \in {"approved", "rejected", "open", "interviewing"} :
              HrWrites(x, [resume[x] EXCEPT !.status = s])
        BY <2>4 DEF SetStatus, MarkInterviewing
      <3> QED BY <2>1, <2>2, <3>1
    <2>5. CASE ResetToPending(x)
      BY <2>5 DEF ResetToPending
    <2>6. CASE Screen(x)
      <3>1. PICK a \in {"pass", "fail"} : HrWrites(x, [resume[x] EXCEPT !.ai = a])
        BY <2>6 DEF Screen
      <3> QED BY <2>1, <2>3, <3>1
    <2> QED BY <2>4, <2>5, <2>6
  <1> DEFINE new == [resume[x] EXCEPT !.status = s, !.ai = a]
  <1>2. /\ resume' = [resume EXCEPT ![x] = new] /\ asked < MaxAsked /\ asked' = asked + 1
        /\ UNCHANGED <<batch, item, staff, decider, applied, meddled, again, decisions, deaths>>
    BY <1>1 DEF HrWrites
  <1>3. /\ new \in Rows /\ new.hr = resume[x].hr /\ new.at = resume[x].at /\ new.bss = resume[x].bss
        /\ new.group = resume[x].group /\ new.batch = resume[x].batch
    BY DEF TInv, TypeOK, Rows
  <1> HIDE DEF new
  <1> QED BY <1>2, <1>3 DEF TInv, TypeOK, Same

LEMMA LapseGoes ==
  ASSUME TInv, NEW b \in Batches, Lapse(b) \/ Renew(b)
  PROVE  /\ batch' \in [Batches -> BatchRows] /\ asked' \in 0..MaxAsked /\ asked <= asked'
         /\ UNCHANGED <<resume, item, staff, decider, applied, meddled, again, decisions, deaths>>
  <1>1. batch[b] \in BatchRows /\ batch \in [Batches -> BatchRows] /\ asked \in 0..MaxAsked
    BY DEF TInv, TypeOK
  <1>2. CASE Lapse(b)
    <2>1. /\ batch' = [batch EXCEPT ![b].late = TRUE] /\ asked < MaxAsked /\ asked' = asked + 1
          /\ UNCHANGED <<resume, item, staff, decider, applied, meddled, again, decisions, deaths>>
      BY <1>2 DEF Lapse
    <2>2. batch' \in [Batches -> BatchRows]
      BY <1>1, <2>1 DEF BatchRows
    <2>3. asked' \in 0..MaxAsked /\ asked <= asked'
      BY <1>1, <2>1, ScreeningAssumption
    <2> QED BY <2>1, <2>2, <2>3
  <1>3. CASE Renew(b)
    <2> DEFINE new == [batch[b] EXCEPT !.late = FALSE,
                         !.st = IF batch[b].st = "expired" THEN "active" ELSE batch[b].st]
    <2>1. new \in BatchRows
      BY <1>1 DEF BatchRows
    <2>2. batch' = [batch EXCEPT ![b] = new]
      BY <1>1, <1>3 DEF Renew, BatchRows
    <2> HIDE DEF new
    <2>3. UNCHANGED <<resume, item, staff, decider, applied, meddled, again, counts>>
      BY <1>3 DEF Renew
    <2> QED BY <1>1, <2>1, <2>2, <2>3 DEF counts
  <1> QED BY <1>2, <1>3

LEMMA DieGoes ==
  ASSUME TInv, Die
  PROVE  /\ staff = staff' \/ \E p \in Staff : Leave(p)
         /\ Continues
         /\ decider' = decider \/ \E d \in Deciders : GoesOn(d) /\ decider'[d].pc = "idle"
         /\ decider' \in [Deciders -> DeciderRecords]
         /\ deaths' \in 1..MaxDeaths
         /\ UNCHANGED <<tables, applied, meddled, again, asked, decisions>>
  <1>1. /\ deaths < MaxDeaths /\ deaths' = deaths + 1
        /\ UNCHANGED <<tables, applied, meddled, again, asked, decisions>>
        /\ \/ (\E p \in Staff : Leave(p)) /\ decider' = decider
           \/ (\E d \in Deciders : Quit(d)) /\ staff' = staff
    BY DEF Die
  <1>2. deaths' \in 1..MaxDeaths
    BY <1>1, ScreeningAssumption DEF TInv, TypeOK
  <1>3. CASE (\E p \in Staff : Leave(p)) /\ decider' = decider
    BY <1>1, <1>2, <1>3, LeaveContinues DEF TInv, TypeOK
  <1>4. CASE (\E d \in Deciders : Quit(d)) /\ staff' = staff
    <2>1. Continues
      BY <1>4 DEF Continues, TInv, TypeOK, Placed
    <2>2. PICK d \in Deciders : Quit(d)
      BY <1>4
    <2>3. GoesOn(d) /\ decider'[d].pc = "idle"
      BY <2>2, QuitGoesOn
    <2> QED BY <1>1, <1>2, <1>4, <2>1, <2>3 DEF GoesOn
  <1> QED BY <1>1, <1>3, <1>4

\* The invariant of the types is kept by every step.
LEMMA ScreeningTypesStep == TInv /\ [Next]_vars => TInv'
  <1> SUFFICES ASSUME TInv, [Next]_vars PROVE TInv'
    OBVIOUS
  <1>0. TypeOK /\ Placed /\ Young
    BY DEF TInv
  <1>1. ASSUME NEW p \in Staff, StaffStep(p) PROVE TInv'
    BY <1>1, StaffTypes
  <1>2. ASSUME NEW p \in Staff, NEW kind \in Offered, NEW ids \in SUBSET Resumes,
               NEW b \in Batches \cup {NoBatch}, Ask(p, kind, ids, b)
        PROVE  TInv'
    BY <1>2, AskTypes
  <1>3. ASSUME NEW d \in Deciders, DeciderStep(d) PROVE TInv'
    <2>1. CASE DecideReads(d)
      <3>1. GoesOn(d) /\ UNCHANGED <<tables, staff, applied, meddled, again, counts>>
        BY <2>1, ReadGoesOn DEF DecideReads, DeciderReads
      <3> QED BY <1>0, <3>1 DEF TInv, TypeOK, Placed, Young, GoesOn, tables, counts
    <2>2. CASE DecideWrites(d)
      <3>1. /\ GoesOn(d) /\ resume' \in [Resumes -> Rows] /\ item' \in [Batches -> [Resumes -> Items]]
            /\ meddled' \in SUBSET Resumes /\ UNCHANGED <<batch, staff, applied, again, counts>>
            /\ UNCHANGED <<resume, item>> \/ Wrote(d) \/ Joined(d)
        BY <2>2, WriteGoesOn
      <3>2. TypeOK' /\ Placed'
        BY <1>0, <3>1 DEF TypeOK, Placed, GoesOn, counts
      <3>3. CASE UNCHANGED <<resume, item>>
        BY <1>0, <3>1, <3>2, <3>3 DEF TInv, Young, counts
      <3>4. ASSUME Closed(d)
            PROVE  \A b \in Batches, r \in Resumes : item'[b][r].group = item[b][r].group
        <4> SUFFICES ASSUME NEW b \in Batches, NEW r \in Resumes
                     PROVE  item'[b][r].group = item[b][r].group
          OBVIOUS
        <4>1. item[b][r] \in Items
          BY <1>0 DEF TypeOK
        <4>2. \/ item'[b][r] = item[b][r]
              \/ item'[b][r] = [item[b][r] EXCEPT !.st = decider[d].verdict, !.at = decider[d].at]
          BY <3>4 DEF Closed
        <4> QED BY <4>1, <4>2 DEF Items
      <3>5. CASE Joined(d)
        BY <1>0, <3>1, <3>2, <3>4, <3>5 DEF TInv, Young, Joined, counts
      <3>6. CASE Wrote(d)
        <4> DEFINE x == decider[d].now
        <4>1. x \in Resumes /\ decider[d].batch \in Batches /\ decider[d] \in DeciderRecords
          BY <2>2, WriteGoesOn
        <4>2. decider[d].group <= asked
          <5>1. RowGroup(resume[x]) = decider[d].group
            BY <3>6 DEF Wrote, Decides
          <5>2. resume[x] \in Rows /\ resume[x].group <= asked /\ asked \in Nat
            BY <1>0, <4>1 DEF TypeOK, Young
          <5>3. -(resume[x].batch) <= 0 /\ resume[x].batch \in Int
            BY <5>2, GroupValues, ScreeningAssumption DEF Rows, Batches, NoBatch
          <5> QED BY <5>1, <5>2, <5>3 DEF RowGroup
        <4>3. \A r \in Resumes : resume'[r].group <= asked
          <5>1. Row(d).group = decider[d].group
            BY <1>0, <4>1 DEF Row, TypeOK, Rows
          <5>2. \A r \in Resumes : resume'[r] = IF r = x THEN Row(d) ELSE resume[r]
            BY <1>0, <3>6 DEF Wrote, TypeOK
          <5> QED BY <1>0, <4>2, <5>1, <5>2 DEF Young
        <4>4. \A b \in Batches, r \in Resumes : item'[b][r].group = item[b][r].group
          BY <3>4, <3>6 DEF Wrote
        <4> QED BY <1>0, <3>1, <3>2, <4>3, <4>4 DEF TInv, Young, counts
      <3> QED BY <3>1, <3>3, <3>5, <3>6
    <2>3. CASE DecideReports(d)
      <3>1. /\ GoesOn(d) /\ applied' \in [Resumes -> SUBSET (Stamps \X Verdicts)]
            /\ UNCHANGED <<tables, staff, meddled, again, counts>>
        BY <2>3, ReportGoesOn DEF DecideReports
      <3> QED BY <1>0, <3>1 DEF TInv, TypeOK, Placed, Young, GoesOn, tables, counts
    <2>4. CASE Expire(d) \/ CountPending(d) \/ Complete(d)
      <3>1. /\ GoesOn(d) /\ batch' \in [Batches -> BatchRows]
            /\ UNCHANGED <<resume, item, staff, applied, meddled, again, counts>>
        BY <2>4, OtherGoesOn
      <3> QED BY <1>0, <3>1 DEF TInv, TypeOK, Placed, Young, GoesOn, counts
    <2> QED BY <1>3, <2>1, <2>2, <2>3, <2>4 DEF DeciderStep
  <1>4. ASSUME NEW d \in Deciders, NEW b \in Batches, NEW v \in Verdicts,
               NEW ids \in SUBSET Resumes, NEW single \in BOOLEAN, OpenLink(d, b, v, ids, single)
        PROVE  TInv'
    <2>1. /\ GoesOn(d) /\ decisions' \in 0..MaxDecisions
          /\ UNCHANGED <<tables, staff, applied, meddled, again, asked, deaths>>
      BY <1>4, OpenLinkGoesOn
    <2> QED BY <1>0, <2>1 DEF TInv, TypeOK, Placed, Young, GoesOn, tables
  <1>5. /\ \A r \in Resumes : resume[r].group \in Int
        /\ \A r \in Resumes, b \in Batches : item[b][r].group \in Int
    BY <1>0 DEF TypeOK, Rows, Items, Groups
  <1>6. ASSUME NEW r \in Resumes,
               SetStatus(r) \/ ResetToPending(r) \/ MarkInterviewing(r) \/ Screen(r)
        PROVE  TInv'
    <2>1. /\ resume' \in [Resumes -> Rows] /\ \A x \in Resumes : resume'[x].group = resume[x].group
          /\ asked < MaxAsked /\ asked' = asked + 1
          /\ UNCHANGED <<batch, item, staff, decider, applied, meddled, again, decisions, deaths>>
      BY <1>6, HrGoes
    <2>2. asked' \in 0..MaxAsked /\ asked <= asked' /\ asked \in Nat
      BY <1>0, <2>1, ScreeningAssumption DEF TypeOK
    <2>3. TypeOK' /\ Placed'
      BY <1>0, <2>1, <2>2 DEF TypeOK, Placed
    <2>4. \A x \in Resumes : resume'[x].group <= asked'
      BY <1>0, <1>5, <2>1, <2>2 DEF Young
    <2>5. \A b \in Batches, x \in Resumes : item'[b][x].group <= asked'
      <3> SUFFICES ASSUME NEW b \in Batches, NEW x \in Resumes
                   PROVE  item'[b][x].group <= asked'
        OBVIOUS
      <3>1. item'[b][x].group = item[b][x].group /\ item[b][x].group <= asked
        BY <1>0, <2>1 DEF Young
      <3> QED BY <1>5, <2>1, <2>2, <3>1
    <2>6. \A p \in Staff : staff'[p].pc # "idle" => staff'[p].group \in 1..asked'
      BY <1>0, <2>1, <2>2 DEF Young
    <2> QED BY <2>3, <2>4, <2>5, <2>6 DEF TInv, Young
  <1>7. ASSUME NEW c \in Batches, Lapse(c) \/ Renew(c) PROVE TInv'
    <2>1. /\ batch' \in [Batches -> BatchRows] /\ asked' \in 0..MaxAsked /\ asked <= asked'
          /\ UNCHANGED <<resume, item, staff, decider, applied, meddled, again, decisions, deaths>>
      BY <1>7, LapseGoes
    <2>2. asked \in Nat /\ asked' \in Nat
      BY <1>0, <2>1 DEF TypeOK
    <2>3. TypeOK' /\ Placed'
      BY <1>0, <2>1 DEF TypeOK, Placed
    <2>4. \A x \in Resumes : resume'[x].group <= asked'
      <3> SUFFICES ASSUME NEW x \in Resumes PROVE resume'[x].group <= asked'
        OBVIOUS
      <3>1. resume'[x].group = resume[x].group /\ resume[x].group <= asked
        BY <1>0, <2>1 DEF Young
      <3>2. resume[x].group \in Int
        BY <1>0 DEF TypeOK, Rows, Groups
      <3> QED BY <2>1, <2>2, <3>1, <3>2
    <2>5. \A b \in Batches, x \in Resumes : item'[b][x].group <= asked'
      <3> SUFFICES ASSUME NEW b \in Batches, NEW x \in Resumes
                   PROVE  item'[b][x].group <= asked'
        OBVIOUS
      <3>1. item'[b][x].group = item[b][x].group /\ item[b][x].group <= asked
        BY <1>0, <2>1 DEF Young
      <3> QED BY <1>5, <2>1, <2>2, <3>1
    <2>6. \A p \in Staff : staff'[p].pc # "idle" => staff'[p].group \in 1..asked'
      BY <1>0, <2>1, <2>2 DEF Young
    <2> QED BY <2>3, <2>4, <2>5, <2>6 DEF TInv, Young
  <1>8. CASE Die
    <2>1. /\ Continues /\ decider' \in [Deciders -> DeciderRecords] /\ deaths' \in 1..MaxDeaths
          /\ decider' = decider \/ \E d \in Deciders : GoesOn(d)
          /\ UNCHANGED <<tables, applied, meddled, again, asked, decisions>>
      BY <1>8, DieGoes
    <2>2. TypeOK'
      BY <1>0, <2>1 DEF TypeOK, Continues, tables
    <2>3. Placed'
      BY <1>0, <2>1 DEF Placed, Continues, GoesOn
    <2>4. Young'
      BY <1>0, <2>1 DEF Young, Continues, tables
    <2> QED BY <2>2, <2>3, <2>4 DEF TInv
  <1>9. CASE UNCHANGED vars
    BY <1>0, <1>9 DEF TInv, TypeOK, Placed, Young, vars, tables, counts
  <1> QED BY <1>1, <1>2, <1>3, <1>4, <1>6, <1>7, <1>8, <1>9 DEF Next

\* Rows, items, batches and requests keep their types.
THEOREM ScreeningTypes == Spec => []TypeOK
  <1>1. Spec => []TInv
    BY ScreeningTypesInit, ScreeningTypesStep, PTL DEF Spec
  <1>2. TInv => TypeOK
    BY DEF TInv
  <1> QED BY <1>1, <1>2, PTL

-----------------------------------------------------------------------------
(* Every step keeps what was decided and what the items say of it *)

SInv == TInv /\ DInv /\ LinkInv /\ PushInv /\ ReportInv

LEMMA ScreeningSafeInit == Init => LinkInv /\ PushInv /\ ReportInv
  <1> SUFFICES ASSUME Init PROVE LinkInv /\ PushInv /\ ReportInv
    OBVIOUS
  <1>1. /\ \A r \in Resumes : resume[r].bss = "not_ready" /\ applied[r] = {}
        /\ \A b \in Batches, r \in Resumes : item[b][r].at = Nobody /\ item[b][r].st = "none"
        /\ \A d \in Deciders : decider[d].pc = "idle"
    BY DEF Init, NoItem, DeciderIdle
  <1>2. \A r : resume[r].bss = "not_ready" => ~Outcome(r) /\ ~Decided(r)
    BY DEF Outcome, Decided, Verdicts
  <1>3. LinkInv
    BY <1>1, ScreeningAssumption DEF LinkInv, Stamped, Told
  <1>4. Clean
    BY <1>1 DEF Clean, Verdicts
  <1>5. PushInv
    BY <1>1, <1>2, <1>4 DEF PushInv, SiblingsAgree, Over
  <1>6. ReportInv
    BY <1>1, <1>2 DEF ReportInv
  <1> QED BY <1>3, <1>5, <1>6

\* The group of an item is the one it has, or its batch.
LEMMA GroupOfItem ==
  ASSUME NEW b \in Batches, NEW it \in Items
  PROVE  /\ it.group # NoGroup => ItemGroup(b, it) = it.group
         /\ \A other \in Items : other.group = it.group => ItemGroup(b, other) = ItemGroup(b, it)
  BY DEF ItemGroup

\* An item that a step of HR leaves decided is the one that was there, or says
\* what the resume says, as long as nothing disturbs it.
LEMMA ItemAfter ==
  ASSUME TInv, TInv', ItemsGo, NEW b \in Batches, NEW r \in Resumes
  PROVE  \/ item'[b][r] = item[b][r]
         \/ /\ item'[b][r].st = "pending" /\ item'[b][r].at = Nobody
            /\ \E p \in Staff : /\ staff[p].pc # "idle"
                                /\ ItemGroup(b, item'[b][r]) = staff[p].group
            /\ item[b][r].st = "none"
         \/ /\ item'[b][r].st = "pending" /\ item'[b][r].at = item[b][r].at
            /\ \E p \in Staff : /\ staff[p].pc # "idle"
                                /\ ItemGroup(b, item'[b][r]) = staff[p].group
            /\ item[b][r].st = "pending"
         \/ /\ item'[b][r].at = Nobody
            /\ \/ r \in meddled'
               \/ item'[b][r].st = DecidedAs(resume[r]) /\ \A d \in Deciders : decider[d].now # r
         \/ item[b][r].st = "pending" /\ item'[b][r].st = "none" /\ item'[b][r].at = Nobody
  <1>1. item[b][r] \in Items /\ item'[b][r] \in Items
    BY DEF TInv, TypeOK
  <1>2. ItemGoes(b, r)
    BY DEF ItemsGo
  <1>3. \A p \in Staff : staff[p].pc # "idle" => staff[p].group # NoGroup
    BY DEF TInv, Young, NoGroup
  <1>4. CASE Added(b, r)
    <2>1. PICK p \in Staff :
            /\ staff[p].pc # "idle"
            /\ item'[b][r] = [st |-> "pending", group |-> staff[p].group, at |-> Nobody]
      BY <1>4 DEF Added
    <2>2. ItemGroup(b, item'[b][r]) = staff[p].group
      BY <1>3, <2>1 DEF ItemGroup
    <2> QED BY <1>4, <2>1, <2>2 DEF Added
  <1>5. CASE Moved(b, r)
    <2>1. PICK p \in Staff :
            /\ staff[p].pc # "idle"
            /\ item'[b][r] = [item[b][r] EXCEPT !.group = staff[p].group]
      BY <1>5 DEF Moved
    <2>2. /\ item'[b][r].group = staff[p].group /\ item'[b][r].st = item[b][r].st
          /\ item'[b][r].at = item[b][r].at
      BY <1>1, <2>1 DEF Items
    <2>3. ItemGroup(b, item'[b][r]) = staff[p].group
      BY <1>3, <2>1, <2>2 DEF ItemGroup
    <2> QED BY <1>5, <2>1, <2>2, <2>3 DEF Moved
  <1> QED BY <1>2, <1>4, <1>5 DEF ItemGoes, Shown, Out, NoItem

LEMMA StaffKeepsLinks ==
  ASSUME TInv, TInv', LinkInv, RowsGo, ItemsGo
  PROVE  LinkInv'
  <1>1. \A r \in Resumes : Kept(r) \/ Opened(r) \/ Denied(r)
    BY DEF RowsGo
  <1>2. again \subseteq again'
    BY DEF RowsGo
  <1>3. ASSUME NEW b \in Batches, NEW r \in Resumes, item'[b][r].at \in Stamps
        PROVE  /\ item'[b][r].st \in Verdicts
               /\ Upheld(r)' => Outcome(r)' /\ resume'[r].at = item'[b][r].at
    <2>1. Nobody \notin Stamps /\ "pending" \notin Verdicts
      BY ScreeningAssumption DEF Verdicts
    <2>2. item'[b][r] = item[b][r]
      BY <1>3, <2>1, ItemAfter DEF LinkInv, Stamped
    <2>3. /\ item[b][r].st \in Verdicts
          /\ Upheld(r) => Outcome(r) /\ resume[r].at = item[b][r].at
      BY <1>3, <2>2 DEF LinkInv, Stamped
    <2>4. CASE Kept(r)
      BY <1>2, <2>2, <2>3, <2>4 DEF Kept, Same, Upheld, Outcome
    <2>5. CASE Opened(r)
      BY <1>2, <2>2, <2>3, <2>5 DEF Opened, Upheld
    <2>6. CASE Denied(r)
      BY <2>2, <2>3, <2>6 DEF Denied, Upheld
    <2> QED BY <1>1, <2>4, <2>5, <2>6
  <1>4. ASSUME NEW r \in Resumes, NEW w \in applied'[r]
        PROVE  /\ resume'[r].bss = w[2]
               /\ Upheld(r)' => resume'[r].at = w[1]
    <2>1. CASE Kept(r)
      BY <1>2, <1>4, <2>1 DEF Kept, Same, Upheld, LinkInv, Told
    <2>2. CASE Opened(r)
      <3>1. w \in applied[r] /\ applied[r] \in SUBSET (Stamps \X Verdicts)
        BY <1>4, <2>2 DEF Opened, TInv, TypeOK
      <3>2. resume[r].bss = w[2] /\ w[2] \in Verdicts
        BY <3>1 DEF LinkInv, Told
      <3> QED BY <2>2, <3>2 DEF Opened, Outcome
    <2>3. CASE Denied(r)
      BY <1>4, <2>3 DEF Denied
    <2> QED BY <1>1, <2>1, <2>2, <2>3
  <1> QED BY <1>3, <1>4 DEF LinkInv, Stamped, Told

LEMMA StaffKeepsPushes ==
  ASSUME TInv, TInv', PushInv, Continues, RowsGo, ItemsGo
  PROVE  PushInv'
  <1>1. \A r \in Resumes : Kept(r) \/ Opened(r) \/ Denied(r)
    BY DEF RowsGo
  <1>2. again \subseteq again' /\ meddled \subseteq meddled'
    BY DEF RowsGo, ItemsGo
  <1>3. ASSUME NEW r \in Resumes, Calm(r)', resume'[r].hr # "rejected", ~Outcome(r)', NEW b \in Batches
        PROVE  item'[b][r].st \notin Verdicts
    <2>1. ~Outcome(r) /\ resume[r].hr # "rejected"
      BY <1>1, <1>3 DEF Kept, Same, Opened, Denied, Calm, Undisturbed, Outcome
    <2>2. item[b][r].st \notin Verdicts
      BY <1>2, <1>3, <2>1 DEF PushInv, Clean, Calm, Undisturbed
    <2>3. DecidedAs(resume[r]) = "pending"
      BY <2>1 DEF DecidedAs, Outcome
    <2> QED BY <1>3, <2>2, <2>3, ItemAfter DEF Calm, Undisturbed, Verdicts
  <1>4. ASSUME NEW r \in Resumes, Decided(r)'
        PROVE  Kept(r) /\ Decided(r) /\ DecidedAs(resume[r]) = resume[r].bss
    <2>1. Kept(r)
      BY <1>1, <1>4 DEF Opened, Denied, Decided
    <2> QED BY <1>4, <2>1 DEF Kept, Same, Decided, DecidedAs
  <1>5. ASSUME NEW r \in Resumes \ again', Decided(r)', Undisturbed(r)', NEW b \in Batches,
               item'[b][r].st # "none", ItemGroup(b, item'[b][r]) = resume'[r].group
        PROVE  item'[b][r].st = resume'[r].bss
    <2>1. /\ Kept(r) /\ Decided(r) /\ Calm(r) /\ DecidedAs(resume[r]) = resume[r].bss
          /\ resume'[r].bss = resume[r].bss /\ resume'[r].group = resume[r].group
      BY <1>2, <1>4, <1>5 DEF Kept, Same, Calm, Undisturbed
    <2>2. \A p \in Staff : staff[p].pc # "idle" => staff[p].group # resume[r].group
      BY <2>1 DEF PushInv, Over
    <2>3. \/ item'[b][r] = item[b][r]
          \/ item'[b][r].st = DecidedAs(resume[r])
      BY <1>5, <2>1, <2>2, ItemAfter DEF Undisturbed
    <2>4. r \in Resumes \ again /\ Undisturbed(r)
      BY <2>1 DEF Calm
    <2> QED BY <1>5, <2>1, <2>3, <2>4 DEF PushInv, SiblingsAgree
  <1>6. ASSUME NEW r \in Resumes, Decided(r)', Calm(r)', NEW p \in Staff, staff'[p].pc # "idle"
        PROVE  staff'[p].group # resume'[r].group
    <2>1. Decided(r) /\ Calm(r) /\ resume'[r].group = resume[r].group
      BY <1>2, <1>4, <1>6 DEF Kept, Calm, Undisturbed
    <2>2. staff[p].pc # "idle" /\ staff'[p].group = staff[p].group
      BY <1>6 DEF Continues
    <2> QED BY <2>1, <2>2 DEF PushInv, Over
  <1> QED BY <1>3, <1>5, <1>6 DEF PushInv, Clean, SiblingsAgree, Over

LEMMA StaffKeepsReports ==
  ASSUME TInv, TInv', ReportInv, RowsGo, ItemsGo, UNCHANGED deaths
  PROVE  ReportInv'
  <1>1. \A r \in Resumes : Kept(r) \/ Opened(r) \/ Denied(r)
    BY DEF RowsGo
  <1>2. meddled \subseteq meddled' /\ \A d \in Deciders : DeciderGoes(d)
    BY DEF ItemsGo
  <1>3. ASSUME NEW r \in Resumes, Decided(r)'
        PROVE  Kept(r) /\ Decided(r)
    <2>1. Kept(r)
      BY <1>1, <1>3 DEF Opened, Denied, Decided
    <2> QED BY <1>3, <2>1 DEF Kept, Same, Decided
  <1>4. ASSUME NEW r \in Resumes, Decided(r)', Undisturbed(r)', deaths' = 0
        PROVE  \/ \E d \in Deciders : Finds(d, r)'
               \/ <<resume'[r].at, resume'[r].bss>> \in applied'[r]
    <2>1. /\ Kept(r) /\ Decided(r) /\ Undisturbed(r) /\ deaths = 0
          /\ resume'[r].at = resume[r].at /\ resume'[r].bss = resume[r].bss
      BY <1>2, <1>3, <1>4 DEF Kept, Same, Undisturbed
    <2>2. CASE <<resume[r].at, resume[r].bss>> \in applied[r]
      BY <2>1, <2>2 DEF Kept
    <2>3. ASSUME NEW d \in Deciders, Finds(d, r) PROVE Finds(d, r)'
      <3> DEFINE b == decider[d].batch
      <3>1. /\ resume[r].bss \in Verdicts
            /\ decider[d].now = r /\ decider[d].pc = "report" /\ item[b][r].st = resume[r].bss
        BY <2>1, <2>3 DEF Decided, Finds
      <3>2. b \in Batches /\ DeciderGoes(d)
        BY <1>2, <3>1 DEF TInv, Placed
      <3>3. item[b][r].st \notin {"none", "pending"}
        BY <3>1 DEF Verdicts
      <3>4. item'[b][r] = item[b][r]
        BY <1>4, <3>1, <3>2, <3>3, ItemAfter DEF Undisturbed
      <3>5. resume'[r].batch = resume[r].batch /\ resume'[r].group = resume[r].group
        BY <1>4, <2>1, <3>1 DEF Kept, Undisturbed
      <3>6. r \notin decider'[d].gone
        BY <2>3, <3>1, <3>2, <3>3 DEF DeciderGoes, Finds
      <3> QED BY <2>1, <2>3, <3>2, <3>4, <3>5, <3>6 DEF Finds, DeciderGoes
    <2> QED BY <2>1, <2>2, <2>3 DEF ReportInv
  <1> QED BY <1>4 DEF ReportInv

\* A request made through a link that neither writes nor reports.
LEMMA LinkMoves ==
  ASSUME TInv, LinkInv, PushInv, ReportInv, NEW d \in Deciders, GoesOn(d),
         decider[d].pc # "report", meddled \subseteq meddled',
         UNCHANGED <<resume, item, staff, applied, again, deaths>>
  PROVE  LinkInv' /\ PushInv' /\ ReportInv'
  <1>1. LinkInv'
    BY DEF LinkInv, Stamped, Told, Upheld, Outcome
  <1>2. PushInv'
    BY DEF PushInv, Clean, SiblingsAgree, Over, Calm, Undisturbed, Outcome, Decided
  <1>3. ReportInv'
    <2> SUFFICES ASSUME NEW r \in Resumes, Decided(r)', Undisturbed(r)', deaths' = 0
                 PROVE  \/ \E e \in Deciders : Finds(e, r)'
                        \/ <<resume'[r].at, resume'[r].bss>> \in applied'[r]
      BY DEF ReportInv
    <2>1. \/ \E e \in Deciders : Finds(e, r)
          \/ <<resume[r].at, resume[r].bss>> \in applied[r]
      BY DEF ReportInv, Decided, Undisturbed
    <2>2. ASSUME NEW e \in Deciders, Finds(e, r) PROVE Finds(e, r)'
      <3>1. decider'[e] = decider[e]
        BY <2>2 DEF Finds, GoesOn
      <3> QED BY <2>2, <3>1 DEF Finds
    <2> QED BY <2>1, <2>2
  <1> QED BY <1>1, <1>2, <1>3

\* A decision that finds the row taken writes nothing.
LEMMA RefusedKeeps ==
  ASSUME TInv, LinkInv, PushInv, ReportInv, NEW d \in Deciders, DecideWrites(d),
         UNCHANGED <<resume, item>>
  PROVE  LinkInv' /\ PushInv' /\ ReportInv'
  <1>1. /\ decider[d].pc = "write" /\ GoesOn(d)
        /\ meddled \subseteq meddled' /\ UNCHANGED <<staff, applied, again, deaths>>
    BY WriteGoesOn DEF counts
  <1> QED BY <1>1, LinkMoves

\* What closing the items of a resume leaves of them.
LEMMA ClosedItems ==
  ASSUME TInv, NEW d \in Deciders, DecideWrites(d), Closed(d)
  PROVE  LET x == decider[d].now
             g == decider[d].group
             v == decider[d].verdict
             t == decider[d].at
         IN  /\ \A c \in Batches :
                   /\ Closes(d, c) => /\ item'[c][x].st = v /\ item'[c][x].at = t
                                      /\ ItemGroup(c, item'[c][x]) = g
                   /\ ~Closes(d, c) => item'[c][x] = item[c][x]
             /\ \A c \in Batches, r \in Resumes \ {x} : item'[c][r] = item[c][r]
  <1> DEFINE x == decider[d].now
             g == decider[d].group
             v == decider[d].verdict
             t == decider[d].at
  <1>1. x \in Resumes
    BY WriteGoesOn
  <1>2. ASSUME NEW c \in Batches
        PROVE  /\ Closes(d, c) => /\ item'[c][x].st = v /\ item'[c][x].at = t
                                  /\ ItemGroup(c, item'[c][x]) = g
               /\ ~Closes(d, c) => item'[c][x] = item[c][x]
    <2>1. item[c][x] \in Items
      BY <1>1 DEF TInv, TypeOK
    <2>2. CASE Closes(d, c)
      <3>1. item'[c][x] = [item[c][x] EXCEPT !.st = v, !.at = t]
        BY <1>1, <2>2 DEF Closed
      <3>2. /\ item'[c][x].st = v /\ item'[c][x].at = t
            /\ item'[c][x].group = item[c][x].group
        BY <2>1, <3>1 DEF Items
      <3> QED BY <2>2, <3>2 DEF Closes, ItemGroup
    <2>3. CASE ~Closes(d, c)
      BY <1>1, <2>3 DEF Closed
    <2> QED BY <2>2, <2>3
  <1>3. \A c \in Batches, r \in Resumes \ {x} : item'[c][r] = item[c][r]
    BY DEF Closed
  <1> QED BY <1>2, <1>3

\* A decision that finds one of the same millisecond closes what that has left.
LEMMA JoinedKeeps ==
  ASSUME TInv, LinkInv, PushInv, ReportInv, NEW d \in Deciders, DecideWrites(d), Joined(d)
  PROVE  LinkInv' /\ PushInv' /\ ReportInv'
  <1> DEFINE x == decider[d].now
             g == decider[d].group
             v == decider[d].verdict
             t == decider[d].at
  <1>1. /\ decider[d].pc = "write" /\ x \in Resumes /\ v \in Verdicts /\ GoesOn(d)
        /\ meddled \subseteq meddled' /\ UNCHANGED <<resume, staff, applied, again, counts>>
    BY WriteGoesOn DEF Joined, DeciderRecords
  <1>2. resume[x].bss = v /\ resume[x].at = t /\ Outcome(x)
    BY <1>1 DEF Joined, Stands, Outcome
  <1>3. /\ \A c \in Batches :
             /\ Closes(d, c) => /\ item'[c][x].st = v /\ item'[c][x].at = t
                                /\ ItemGroup(c, item'[c][x]) = g
             /\ ~Closes(d, c) => item'[c][x] = item[c][x]
        /\ \A c \in Batches, r \in Resumes \ {x} : item'[c][r] = item[c][r]
    BY ClosedItems DEF Joined
  <1>4. \A c \in Batches : Closes(d, c) => item[c][x].st = "pending" /\ ItemGroup(c, item[c][x]) = g
    BY DEF Closes
  <1> HIDE DEF x, g, v, t
  <1>5. LinkInv'
    <2>1. ASSUME NEW c \in Batches, NEW r \in Resumes, item'[c][r].at \in Stamps
          PROVE  /\ item'[c][r].st \in Verdicts
                 /\ Upheld(r)' => Outcome(r)' /\ resume'[r].at = item'[c][r].at
      <3>1. CASE r = x /\ Closes(d, c)
        BY <1>1, <1>2, <1>3, <3>1 DEF Outcome
      <3>2. CASE item'[c][r] = item[c][r]
        BY <1>1, <2>1, <3>2 DEF LinkInv, Stamped, Upheld, Outcome
      <3> QED BY <1>3, <3>1, <3>2
    <2>2. Told'
      BY <1>1 DEF LinkInv, Told, Upheld
    <2> QED BY <2>1, <2>2 DEF LinkInv, Stamped
  <1>6. PushInv'
    <2>1. ASSUME NEW r \in Resumes, Calm(r)', resume'[r].hr # "rejected", ~Outcome(r)',
                 NEW c \in Batches
          PROVE  item'[c][r].st \notin Verdicts
      <3>1. r # x
        BY <1>1, <1>2, <2>1 DEF Outcome
      <3> QED BY <1>1, <1>3, <2>1, <3>1 DEF PushInv, Clean, Calm, Undisturbed, Outcome
    <2>2. ASSUME NEW r \in Resumes \ again', Decided(r)', Undisturbed(r)', NEW c \in Batches,
                 item'[c][r].st # "none", ItemGroup(c, item'[c][r]) = resume'[r].group
          PROVE  item'[c][r].st = resume'[r].bss
      <3>1. CASE r = x /\ Closes(d, c)
        BY <1>1, <1>2, <1>3, <3>1
      <3>2. CASE item'[c][r] = item[c][r]
        BY <1>1, <2>2, <3>2 DEF PushInv, SiblingsAgree, Decided, Undisturbed
      <3> QED BY <1>3, <3>1, <3>2
    <2>3. Over'
      BY <1>1 DEF PushInv, Over, Decided, Calm, Undisturbed
    <2> QED BY <2>1, <2>2, <2>3 DEF PushInv, Clean, SiblingsAgree
  <1>7. ReportInv'
    <2> SUFFICES ASSUME NEW r \in Resumes, Decided(r)', Undisturbed(r)', deaths' = 0
                 PROVE  \/ \E e \in Deciders : Finds(e, r)'
                        \/ <<resume'[r].at, resume'[r].bss>> \in applied'[r]
      BY DEF ReportInv
    <2>1. \/ \E e \in Deciders : Finds(e, r)
          \/ <<resume[r].at, resume[r].bss>> \in applied[r]
      BY <1>1 DEF ReportInv, Decided, Undisturbed, counts
    <2>2. ASSUME NEW e \in Deciders, Finds(e, r) PROVE Finds(e, r)'
      <3>1. decider'[e] = decider[e] /\ decider[e].batch \in Batches
        BY <1>1, <2>2 DEF Finds, GoesOn, TInv, Placed
      <3>2. item[decider[e].batch][r].st # "pending"
        BY <1>1, <2>2 DEF Finds, Decided, Verdicts
      <3>3. item'[decider[e].batch][r] = item[decider[e].batch][r]
        BY <1>3, <1>4, <3>1, <3>2
      <3> QED BY <1>1, <2>2, <3>1, <3>3 DEF Finds
    <2> QED BY <1>1, <2>1, <2>2
  <1> QED BY <1>5, <1>6, <1>7

\* What a decision that is written changes, and what was there before.
LEMMA WroteRows ==
  ASSUME TInv, NEW d \in Deciders, DecideWrites(d), Wrote(d)
  PROVE  LET x == decider[d].now
             b == decider[d].batch
             g == decider[d].group
             v == decider[d].verdict
         IN  /\ resume[x].hr # "rejected" /\ ~Outcome(x) /\ v \in Verdicts
             /\ \A r \in Resumes \ {x} : resume'[r] = resume[r]
             /\ resume'[x].hr = resume[x].hr /\ resume'[x].bss = v /\ resume'[x].at = decider[d].at
             /\ resume'[x].batch = b /\ resume'[x].group = g
             /\ Closes(d, b)
  <1> DEFINE x == decider[d].now
             b == decider[d].batch
             g == decider[d].group
             v == decider[d].verdict
  <1>1. x \in Resumes /\ b \in Batches /\ v \in Verdicts
    BY WriteGoesOn DEF DeciderRecords
  <1>2. Decides(x, b, g)
    BY DEF Wrote
  <1>3. resume[x].hr # "rejected" /\ ~Outcome(x) /\ Closes(d, b)
    BY <1>2 DEF Decides, Outcome, Verdicts, Closes
  <1>4. /\ \A r \in Resumes \ {x} : resume'[r] = resume[r]
        /\ resume'[x] = Row(d)
    BY <1>1 DEF Wrote, TInv, TypeOK
  <1>5. resume[x] \in Rows
    BY <1>1 DEF TInv, TypeOK
  <1>6. /\ Row(d).hr = resume[x].hr /\ Row(d).bss = v /\ Row(d).at = decider[d].at
        /\ Row(d).batch = b /\ Row(d).group = g
    BY <1>5 DEF Row, Rows
  <1> QED BY <1>1, <1>3, <1>4, <1>6

LEMMA WroteKeeps ==
  ASSUME TInv, LinkInv, PushInv, ReportInv, NEW d \in Deciders, DecideWrites(d), Wrote(d)
  PROVE  LinkInv' /\ PushInv' /\ ReportInv'
  <1> DEFINE x == decider[d].now
             b == decider[d].batch
             g == decider[d].group
             v == decider[d].verdict
             t == decider[d].at
  <1>1. /\ decider[d].pc = "write" /\ x \in Resumes /\ b \in Batches
        /\ GoesOn(d) /\ decider'[d].pc = "report" /\ decider'[d].now = x
        /\ decider'[d].gone = decider[d].gone /\ decider'[d].batch = b
        /\ decider'[d].group = g /\ decider'[d].verdict = v /\ decider'[d].at = t
        /\ meddled \subseteq meddled' /\ UNCHANGED <<staff, applied, again, counts>>
        /\ x \in meddled' \/ \A p \in Staff : staff[p].pc # "idle" => staff[p].group # g
    BY WriteGoesOn
  <1>2. /\ resume[x].hr # "rejected" /\ ~Outcome(x) /\ v \in Verdicts
        /\ \A r \in Resumes \ {x} : resume'[r] = resume[r]
        /\ resume'[x].hr = resume[x].hr /\ resume'[x].bss = v /\ resume'[x].at = t
        /\ resume'[x].batch = b /\ resume'[x].group = g
        /\ Closes(d, b)
    BY WroteRows
  <1>3. /\ \A c \in Batches :
             /\ Closes(d, c) => /\ item'[c][x].st = v /\ item'[c][x].at = t
                                /\ ItemGroup(c, item'[c][x]) = g
             /\ ~Closes(d, c) => item'[c][x] = item[c][x]
        /\ \A c \in Batches, r \in Resumes \ {x} : item'[c][r] = item[c][r]
    BY ClosedItems DEF Wrote
  <1>4. item[b][x].st = "pending" /\ x \notin decider[d].gone
    BY <1>2 DEF Closes, Wrote
  <1> HIDE DEF x, b, g, v, t
  <1>5. Stamped'
    <2> SUFFICES ASSUME NEW c \in Batches, NEW r \in Resumes, item'[c][r].at \in Stamps
                 PROVE  /\ item'[c][r].st \in Verdicts
                        /\ Upheld(r)' => Outcome(r)' /\ resume'[r].at = item'[c][r].at
      BY DEF Stamped
    <2>1. CASE r # x
      BY <1>1, <1>2, <1>3, <2>1 DEF LinkInv, Stamped, Upheld, Outcome
    <2>2. CASE r = x /\ item'[c][x] = item[c][x]
      BY <1>1, <1>2, <2>2 DEF LinkInv, Stamped, Upheld
    <2>3. CASE r = x /\ item'[c][x] # item[c][x]
      BY <1>1, <1>2, <1>3, <2>3 DEF Outcome
    <2> QED BY <2>1, <2>2, <2>3
  <1>6. Told'
    <2> SUFFICES ASSUME NEW r \in Resumes, NEW w \in applied'[r]
                 PROVE  /\ resume'[r].bss = w[2]
                        /\ Upheld(r)' => resume'[r].at = w[1]
      BY DEF Told
    <2>1. w \in applied[r] /\ applied[r] \in SUBSET (Stamps \X Verdicts)
      BY <1>1 DEF TInv, TypeOK
    <2>2. resume[r].bss = w[2] /\ w[2] \in Verdicts
      BY <2>1 DEF LinkInv, Told
    <2>3. r # x
      BY <1>2, <2>2 DEF Outcome
    <2> QED BY <1>1, <1>2, <2>1, <2>3 DEF LinkInv, Told, Upheld
  <1>7. Clean'
    <2> SUFFICES ASSUME NEW r \in Resumes, Calm(r)', resume'[r].hr # "rejected", ~Outcome(r)',
                        NEW c \in Batches
                 PROVE  item'[c][r].st \notin Verdicts
      BY DEF Clean
    <2>1. r # x
      BY <1>2 DEF Outcome
    <2> QED BY <1>1, <1>2, <1>3, <2>1 DEF PushInv, Clean, Calm, Undisturbed, Outcome
  <1>8. SiblingsAgree'
    <2> SUFFICES ASSUME NEW r \in Resumes \ again', Decided(r)', Undisturbed(r)', NEW c \in Batches,
                        item'[c][r].st # "none", ItemGroup(c, item'[c][r]) = resume'[r].group
                 PROVE  item'[c][r].st = resume'[r].bss
      BY DEF SiblingsAgree
    <2>1. CASE r # x
      BY <1>1, <1>2, <1>3, <2>1 DEF PushInv, SiblingsAgree, Decided, Undisturbed
    <2>2. CASE r = x /\ Closes(d, c)
      BY <1>2, <1>3, <2>2
    <2>3. CASE r = x /\ ~Closes(d, c)
      <3>1. item'[c][x] = item[c][x] /\ ItemGroup(c, item[c][x]) = g
        BY <1>2, <1>3, <2>3
      <3>2. item[c][x].st # "pending"
        BY <2>3, <3>1 DEF Closes, x, g
      <3>3. item[c][x] \in Items
        BY <1>1 DEF TInv, TypeOK
      <3>4. item[c][x].st \in Verdicts
        BY <2>3, <3>1, <3>2, <3>3 DEF Items
      <3>5. Calm(x)
        BY <1>1, <2>3 DEF Calm, Undisturbed
      <3> QED BY <1>1, <1>2, <3>4, <3>5 DEF PushInv, Clean
    <2> QED BY <2>1, <2>2, <2>3
  <1>9. Over'
    <2> SUFFICES ASSUME NEW r \in Resumes, Decided(r)', Calm(r)', NEW p \in Staff, staff'[p].pc # "idle"
                 PROVE  staff'[p].group # resume'[r].group
      BY DEF Over
    <2>1. CASE r # x
      BY <1>1, <1>2, <2>1 DEF PushInv, Over, Decided, Calm, Undisturbed
    <2>2. CASE r = x
      BY <1>1, <1>2, <2>2 DEF Calm, Undisturbed
    <2> QED BY <2>1, <2>2
  <1>10. ReportInv'
    <2> SUFFICES ASSUME NEW r \in Resumes, Decided(r)', Undisturbed(r)', deaths' = 0
                 PROVE  \/ \E e \in Deciders : Finds(e, r)'
                        \/ <<resume'[r].at, resume'[r].bss>> \in applied'[r]
      BY DEF ReportInv
    <2>1. CASE r = x
      BY <1>1, <1>2, <1>3, <1>4, <2>1 DEF Finds
    <2>2. CASE r # x
      <3>1. resume'[r] = resume[r] /\ \A c \in Batches : item'[c][r] = item[c][r]
        BY <1>2, <1>3, <2>2
      <3>2. \/ \E e \in Deciders : Finds(e, r)
            \/ <<resume[r].at, resume[r].bss>> \in applied[r]
        BY <1>1, <3>1 DEF ReportInv, Decided, Undisturbed, counts
      <3>3. ASSUME NEW e \in Deciders, Finds(e, r) PROVE Finds(e, r)'
        <4>1. decider'[e] = decider[e] /\ decider[e].batch \in Batches
          BY <1>1, <3>3 DEF Finds, GoesOn, TInv, Placed
        <4> QED BY <3>1, <3>3, <4>1 DEF Finds
      <3> QED BY <1>1, <3>1, <3>2, <3>3
    <2> QED BY <2>1, <2>2
  <1> QED BY <1>5, <1>6, <1>7, <1>8, <1>9, <1>10 DEF LinkInv, PushInv

\* A decision that finds the rows as it left them is reported as applied.
LEMMA ReportKeeps ==
  ASSUME TInv, LinkInv, PushInv, ReportInv, NEW d \in Deciders, DecideReports(d)
  PROVE  LinkInv' /\ PushInv' /\ ReportInv'
  <1> DEFINE x == decider[d].now
             b == decider[d].batch
             v == decider[d].verdict
             done == /\ KnownGroup(resume[x], b, item[b][x]) = decider[d].group
                     /\ item[b][x].st = v /\ item[b][x].at = decider[d].at
                     /\ resume[x].bss = v /\ resume[x].batch = b
  <1>1. /\ x \in Resumes /\ b \in Batches /\ v \in Verdicts /\ decider[d].at \in Stamps
        /\ GoesOn(d) /\ decider'[d].pc \in {"idle", "count", "read"}
        /\ IF done /\ x \notin decider[d].gone
           THEN /\ applied'[x] = applied[x] \cup {<<decider[d].at, v>>}
                /\ \A r \in Resumes \ {x} : applied'[r] = applied[r]
           ELSE applied' = applied
    BY ReportGoesOn
  <1>2. UNCHANGED <<resume, item, staff, meddled, again, deaths>>
    BY DEF DecideReports, tables, counts
  <1>3. \A r \in Resumes : \A w \in applied[r] : w \in applied'[r]
    <2> SUFFICES ASSUME NEW r \in Resumes, NEW w \in applied[r] PROVE w \in applied'[r]
      OBVIOUS
    <2> HIDE DEF done, x, b, v
    <2>1. CASE r = x
      BY <1>1, <2>1
    <2>2. CASE r # x
      BY <1>1, <2>2
    <2> QED BY <2>1, <2>2
  <1>4. Stamped'
    BY <1>2 DEF LinkInv, Stamped, Upheld, Outcome
  <1>5. Told'
    <2> SUFFICES ASSUME NEW r \in Resumes, NEW w \in applied'[r]
                 PROVE  /\ resume'[r].bss = w[2]
                        /\ Upheld(r)' => resume'[r].at = w[1]
      BY DEF Told
    <2>1. CASE w \in applied[r]
      BY <1>2, <2>1 DEF LinkInv, Told, Upheld
    <2>2. CASE w \notin applied[r]
      <3>1. done /\ r = x /\ w = <<decider[d].at, v>>
        <4> HIDE DEF done, x, b, v
        <4> QED BY <1>1, <2>2
      <3>2. item[b][r].at = decider[d].at /\ resume[r].bss = v
        BY <3>1
      <3>3. Upheld(r) => resume[r].at = decider[d].at
        BY <1>1, <3>1, <3>2 DEF LinkInv, Stamped
      <3> QED BY <1>2, <3>1, <3>2, <3>3 DEF Upheld
    <2> QED BY <2>1, <2>2
  <1>6. PushInv'
    BY <1>2 DEF PushInv, Clean, SiblingsAgree, Over, Calm, Undisturbed, Outcome, Decided
  <1>7. ReportInv'
    <2> SUFFICES ASSUME NEW r \in Resumes, Decided(r)', Undisturbed(r)', deaths' = 0
                 PROVE  \/ \E e \in Deciders : Finds(e, r)'
                        \/ <<resume'[r].at, resume'[r].bss>> \in applied'[r]
      BY DEF ReportInv
    <2>1. \/ \E e \in Deciders : Finds(e, r)
          \/ <<resume[r].at, resume[r].bss>> \in applied[r]
      BY <1>2 DEF ReportInv, Decided, Undisturbed
    <2>2. CASE <<resume[r].at, resume[r].bss>> \in applied[r]
      BY <1>2, <1>3, <2>2
    <2>3. ASSUME NEW e \in Deciders \ {d}, Finds(e, r) PROVE Finds(e, r)'
      <3>1. decider'[e] = decider[e]
        BY <1>1, <2>3 DEF GoesOn
      <3> QED BY <1>2, <2>3, <3>1 DEF Finds
    <2>4. CASE Finds(d, r)
      <3>1. /\ x = r /\ r \notin decider[d].gone /\ v = resume[r].bss /\ b = resume[r].batch
            /\ item[b][r].st = v /\ item[b][r].at = decider[d].at /\ decider[d].at = resume[r].at
            /\ ItemGroup(b, item[b][r]) = resume[r].group
            /\ decider[d].group = resume[r].group
        BY <2>4 DEF Finds
      <3>2. KnownGroup(resume[r], b, item[b][r]) = resume[r].group
        BY <3>1 DEF KnownGroup, ItemGroup
      <3>3. done
        BY <3>1, <3>2
      <3>4. applied'[r] = applied[r] \cup {<<decider[d].at, v>>}
        <4> HIDE DEF done, x, b, v
        <4> QED BY <1>1, <3>1, <3>3
      <3> QED BY <1>2, <3>1, <3>4
    <2> QED BY <2>1, <2>2, <2>3, <2>4
  <1> QED BY <1>4, <1>5, <1>6, <1>7 DEF LinkInv

\* A step that leaves the items and the links alone, and of every row what
\* business screening wrote.
LEMMA AsideKeeps ==
  ASSUME TInv, LinkInv, PushInv, ReportInv,
         \A r \in Resumes : /\ Same(r) /\ resume'[r].group = resume[r].group
                            /\ resume'[r].batch = resume[r].batch,
         \A p \in Staff : staff'[p].pc # "idle" =>
            \/ staff'[p].group = asked + 1
            \/ staff[p].pc # "idle" /\ staff'[p].group = staff[p].group,
         UNCHANGED <<item, decider, applied, meddled, again, deaths>>
  PROVE  LinkInv' /\ PushInv' /\ ReportInv'
  <1>1. LinkInv'
    BY DEF LinkInv, Stamped, Told, Upheld, Outcome, Same
  <1>2. Clean' /\ SiblingsAgree'
    BY DEF PushInv, Clean, SiblingsAgree, Calm, Undisturbed, Outcome, Decided, Same
  <1>3. Over'
    <2> SUFFICES ASSUME NEW r \in Resumes, Decided(r)', Calm(r)', NEW p \in Staff, staff'[p].pc # "idle"
                 PROVE  staff'[p].group # resume'[r].group
      BY DEF Over
    <2>1. Decided(r) /\ Calm(r) /\ resume'[r].group = resume[r].group
      BY DEF Decided, Calm, Undisturbed, Same
    <2>2. resume[r].group # asked + 1
      <3>1. resume[r].group <= asked /\ asked \in Nat /\ resume[r].group \in Int
        BY DEF TInv, TypeOK, Young, Rows, Groups
      <3> QED BY <3>1
    <2> QED BY <2>1, <2>2 DEF PushInv, Over
  <1>4. ReportInv'
    <2> SUFFICES ASSUME NEW r \in Resumes, Decided(r)', Undisturbed(r)', deaths' = 0
                 PROVE  \/ \E e \in Deciders : Finds(e, r)'
                        \/ <<resume'[r].at, resume'[r].bss>> \in applied'[r]
      BY DEF ReportInv
    <2>1. /\ Same(r) /\ resume'[r].group = resume[r].group /\ resume'[r].batch = resume[r].batch
      OBVIOUS
    <2>2. \/ \E e \in Deciders : Finds(e, r)
          \/ <<resume[r].at, resume[r].bss>> \in applied[r]
      BY <2>1 DEF ReportInv, Decided, Undisturbed, Same
    <2>3. ASSUME NEW e \in Deciders, Finds(e, r) PROVE Finds(e, r)'
      BY <2>1, <2>3 DEF Finds, Same
    <2> QED BY <2>1, <2>2, <2>3 DEF Same
  <1> QED BY <1>1, <1>2, <1>3, <1>4 DEF PushInv

LEMMA DeathKeeps ==
  ASSUME TInv, LinkInv, PushInv, ReportInv, Die
  PROVE  LinkInv' /\ PushInv' /\ ReportInv'
  <1>1. /\ Continues /\ deaths' # 0
        /\ decider' = decider \/ \E d \in Deciders : GoesOn(d) /\ decider'[d].pc = "idle"
        /\ UNCHANGED <<resume, item, applied, meddled, again>>
    BY DieGoes DEF tables
  <1>2. LinkInv'
    BY <1>1 DEF LinkInv, Stamped, Told, Upheld, Outcome
  <1>3. PushInv'
    BY <1>1 DEF PushInv, Clean, SiblingsAgree, Over, Calm, Undisturbed, Outcome, Decided, Continues
  <1>4. ReportInv'
    BY <1>1 DEF ReportInv
  <1> QED BY <1>2, <1>3, <1>4

LEMMA ScreeningSafeStep == SInv /\ [Next]_vars => LinkInv' /\ PushInv' /\ ReportInv'
  <1> SUFFICES ASSUME SInv, [Next]_vars PROVE LinkInv' /\ PushInv' /\ ReportInv'
    OBVIOUS
  <1> USE DEF SInv
  <1>1. ASSUME NEW p \in Staff, StaffStep(p) PROVE LinkInv' /\ PushInv' /\ ReportInv'
    <2>1. TInv' /\ Continues /\ RowsGo /\ ItemsGo /\ UNCHANGED deaths
      BY <1>1, StaffTypes DEF counts
    <2> QED BY <2>1, StaffKeepsLinks, StaffKeepsPushes, StaffKeepsReports
  <1>2. ASSUME NEW p \in Staff, NEW kind \in Offered, NEW ids \in SUBSET Resumes,
               NEW b \in Batches \cup {NoBatch}, Ask(p, kind, ids, b)
        PROVE  LinkInv' /\ PushInv' /\ ReportInv'
    <2>1. \A q \in Staff : staff'[q].pc # "idle" =>
             \/ staff'[q].group = asked + 1
             \/ staff[q].pc # "idle" /\ staff'[q].group = staff[q].group
      BY <1>2, AskTypes
    <2>2. UNCHANGED <<resume, item, decider, applied, meddled, again, deaths>>
      BY <1>2 DEF Ask, tables
    <2> QED BY <2>1, <2>2, AsideKeeps DEF Same
  <1>3. ASSUME NEW d \in Deciders, DeciderStep(d) PROVE LinkInv' /\ PushInv' /\ ReportInv'
    <2>1. CASE DecideReads(d)
      <3>1. GoesOn(d) /\ decider[d].pc # "report"
        BY <2>1, ReadGoesOn DEF DecideReads, DeciderAt
      <3>2. UNCHANGED <<resume, item, staff, applied, meddled, again, deaths>>
        BY <2>1 DEF DecideReads, DeciderReads, tables, counts
      <3> QED BY <3>1, <3>2, LinkMoves
    <2>2. CASE DecideWrites(d)
      BY <2>2, WriteGoesOn, RefusedKeeps, WroteKeeps, JoinedKeeps
    <2>3. CASE DecideReports(d)
      BY <2>3, ReportKeeps
    <2>4. CASE Expire(d) \/ CountPending(d) \/ Complete(d)
      <3>1. /\ GoesOn(d) /\ decider[d].pc # "report"
            /\ UNCHANGED <<resume, item, staff, applied, meddled, again, deaths>>
        BY <2>4, OtherGoesOn DEF counts
      <3> QED BY <3>1, LinkMoves
    <2> QED BY <1>3, <2>1, <2>2, <2>3, <2>4 DEF DeciderStep
  <1>4. ASSUME NEW d \in Deciders, NEW b \in Batches, NEW v \in Verdicts,
               NEW ids \in SUBSET Resumes, NEW single \in BOOLEAN, OpenLink(d, b, v, ids, single)
        PROVE  LinkInv' /\ PushInv' /\ ReportInv'
    <2>1. /\ GoesOn(d) /\ decider[d].pc # "report"
          /\ UNCHANGED <<resume, item, staff, applied, meddled, again, deaths>>
      BY <1>4, OpenLinkGoesOn DEF tables
    <2> QED BY <2>1, LinkMoves
  <1>5. ASSUME NEW r \in Resumes,
               SetStatus(r) \/ ResetToPending(r) \/ MarkInterviewing(r) \/ Screen(r)
        PROVE  LinkInv' /\ PushInv' /\ ReportInv'
    <2>1. /\ \A x \in Resumes : /\ Same(x) /\ resume'[x].group = resume[x].group
                                /\ resume'[x].batch = resume[x].batch
          /\ UNCHANGED <<item, staff, decider, applied, meddled, again, deaths>>
      BY <1>5, HrGoes
    <2> QED BY <2>1, AsideKeeps
  <1>6. ASSUME NEW c \in Batches, Lapse(c) \/ Renew(c) PROVE LinkInv' /\ PushInv' /\ ReportInv'
    <2>1. UNCHANGED <<resume, item, staff, decider, applied, meddled, again, deaths>>
      BY <1>6, LapseGoes
    <2> QED BY <2>1, AsideKeeps DEF Same
  <1>7. CASE Die
    BY <1>7, DeathKeeps
  <1>8. CASE UNCHANGED vars
    <2>1. UNCHANGED <<resume, item, staff, decider, applied, meddled, again, deaths>>
      BY <1>8 DEF vars, tables, counts
    <2> QED BY <2>1, AsideKeeps DEF Same
  <1> QED BY <1>1, <1>2, <1>3, <1>4, <1>5, <1>6, <1>7, <1>8 DEF Next

\* The inductive invariant: what was decided, and when, is the same in the resume
\* and in its items, the items of a push close together, and a request finds what
\* it wrote, whether or not requests share the milliseconds they were made in.
THEOREM ScreeningSafe == Spec => []SInv
  <1>1. Init => SInv
    BY ScreeningTypesInit, ScreeningInitInv, ScreeningSafeInit DEF SInv
  <1>2. SInv /\ [Next]_vars => SInv'
    BY ScreeningTypesStep, ScreeningInvStep, ScreeningSafeStep DEF SInv
  <1> QED BY <1>1, <1>2, PTL DEF Spec

\* However many requests decide on a resume through links, those that are told
\* that their decision was applied made the one the resume has: the same verdict
\* in the same millisecond.
THEOREM OneIsApplied == Spec => []OneApplied
  <1>1. SInv => OneApplied
    <2> SUFFICES ASSUME SInv, NEW r \in Resumes \ again, resume[r].hr # "rejected", NEW w \in applied[r]
                 PROVE  applied[r] = {w} /\ resume[r].at = w[1] /\ resume[r].bss = w[2]
      BY DEF OneApplied
    <2>1. \A u \in applied[r] : resume[r].at = u[1] /\ resume[r].bss = u[2]
      BY DEF SInv, LinkInv, Told, Upheld
    <2>2. \A u \in applied[r] : u = <<u[1], u[2]>>
      BY DEF SInv, TInv, TypeOK
    <2>3. \A u \in applied[r] : u = w
      BY <2>1, <2>2
    <2> QED BY <2>1, <2>3
  <1> QED BY <1>1, ScreeningSafe, PTL

\* A decision closes the items of its push in every link, whatever number of
\* interviewers have one.
THEOREM SiblingsClose == Spec => []SiblingsAgree
  <1>1. SInv => SiblingsAgree
    BY DEF SInv, PushInv
  <1> QED BY <1>1, ScreeningSafe, PTL

\* The request that recorded a decision is the one that reports it.
THEOREM DecisionReported == Spec => []DecisionIsReported
  <1>1. SInv => DecisionIsReported
    BY DEF SInv, ReportInv, Finds, DecisionIsReported
  <1> QED BY <1>1, ScreeningSafe, PTL

=============================================================================
