------------------------ MODULE ReprocessBatchProofs ------------------------
(***************************************************************************)
(* Theorems about ReprocessBatch for any numbers of resumes, batches,      *)
(* coordinators, consumers, crashes, retries and late messages: types, a   *)
(* failed batch stays failed, a batch completes only at its target, and,   *)
(* as long as nobody stops a batch, an item reported completed has a       *)
(* completed job.                                                          *)
(*                                                                         *)
(* IInv says, group of variables by group, that whoever is at work refers  *)
(* to a batch, a row and a job there are; a consumer that reports must     *)
(* besides refresh nothing (Reporting).  Completion at the target needs    *)
(* that a refresh counts the items of a batch that was started (Begun), so *)
(* that what it counted is still there when it writes (Counted).  The last *)
(* theorem needs one consumer per running job (OneAtWork), and that what   *)
(* was read of a job and not yet written was true (Truthful).  The lemmas  *)
(* named ...Moves and ...Steps say who writes which variables.             *)
(***************************************************************************)
EXTENDS ReprocessBatch, FiniteSetTheorems, WellFoundedInduction, TLAPS

\* The invariant, one part per group of variables.
BatchOK ==
    /\ bstat \in [Batches -> BatchStatus]
    /\ cursor \in [Batches -> 0..N] /\ total \in [Batches -> 0..N]
    /\ age \in [Batches -> 0..StallTimeout]

\* An item is given jobs of its own resume only.
ItemOK ==
    /\ istat \in [Batches -> [Resumes -> ItemStatus]]
    /\ ijob \in [Batches -> [Resumes -> Jobs \cup {NoJob}]]
    /\ \A b \in Batches, r \in Resumes : ijob[b][r] # NoJob => ijob[b][r][1] = r

JobOK ==
    /\ jstat \in [Jobs -> JobStatus]
    /\ sent \subseteq Jobs

\* A coordinator at work has a batch, a page, a row of the page and, once one
\* is enqueued, a job of that row.
CoordOK ==
    /\ cpc \in [Coordinators -> {"idle", "insert", "row", "enqueue", "attach", "write",
                                 "send", "rowFailed", "save", "next", "complete"}]
    /\ cbatch \in [Coordinators -> Batches \cup {NoBatch}]
    /\ cpage \in [Coordinators -> SUBSET Resumes]
    /\ crow \in [Coordinators -> 0..N]
    /\ cjob \in [Coordinators -> Jobs \cup {NoJob}]
    /\ cput \in [Coordinators -> ItemStatus]
    /\ \A c \in Coordinators :
          /\ cpc[c] # "idle" => cbatch[c] \in Batches
          /\ cpc[c] \in {"insert", "save"} => cpage[c] # {}
          /\ MidPage(c) => crow[c] \in cpage[c]
          /\ cpc[c] \in {"attach", "write", "send"} =>
                cjob[c] \in Jobs /\ cjob[c][1] = crow[c]

\* A consumer at work has a job, and one that reports has news.
WorkerOK ==
    /\ wpc \in [Workers -> {"idle", "work", "report", "write", "retry"}]
    /\ wjob \in [Workers -> Jobs \cup {NoJob}]
    /\ wnews \in [Workers -> {"none", "queued", "running", "completed", "failed"}]
    /\ wsteps \in [Workers -> 0..Steps]
    /\ \A w \in Workers :
          /\ wpc[w] # "idle" => wjob[w] \in Jobs
          /\ wpc[w] = "write" => wnews[w] # "none"
          /\ wpc[w] = "report" => wnews[w] \in {"queued", "completed", "failed"}

\* A refresh has a batch, and never decides that one has failed.
RefreshOK ==
    /\ rpc \in [Refreshers -> {"off", "read", "write"}]
    /\ rbatch \in [Refreshers -> Batches \cup {NoBatch}]
    /\ rnew \in [Refreshers -> BatchStatus]
    /\ \A p \in Refreshers :
          /\ rpc[p] # "off" => rbatch[p] \in Batches
          /\ rpc[p] = "write" => rnew[p] \in {"queued", "running", "completed"}

\* The poll only copies states that a job can be found in.
PollOK ==
    /\ ppc \in {"idle", "recover", "send", "rows"}
    /\ pbatch \in Batches \cup {NoBatch}
    /\ prows \subseteq Resumes \X (ItemStatus \ {"none"})
    /\ since \in 0..(PollPeriod + StallTimeout)
    /\ ppc # "idle" => pbatch \in Batches

\* A stop has a batch.
StopOK ==
    /\ spc \in {"idle", "jobs", "items"} /\ sbatch \in Batches \cup {NoBatch}
    /\ spc # "idle" => sbatch \in Batches

BoundOK ==
    /\ crashes \in 0..MaxCrashes /\ retries \in 0..MaxRetries
    /\ outside \in 0..MaxOutside /\ late \in 0..MaxLate
    /\ overtakes \in 0..MaxOvertakes

IInv ==
    /\ BatchOK /\ ItemOK /\ JobOK /\ scope \subseteq Resumes
    /\ coord \in [Batches -> Nat]
    /\ CoordOK /\ WorkerOK /\ RefreshOK /\ PollOK /\ StopOK /\ BoundOK

\* A consumer refreshes nothing while it reports, and has chosen a batch to
\* refresh once it writes.
Reporting ==
    \A w \in Workers : wpc[w] \in {"report", "write"} =>
        /\ rpc[w] = "off"
        /\ wpc[w] = "write" => rbatch[w] \in Batches

-----------------------------------------------------------------------------
\* The invariant contains the types.
LEMMA IInvTypes == IInv => TypeOK
  BY DEF IInv, TypeOK, BatchOK, ItemOK, JobOK, CoordOK, WorkerOK, RefreshOK, PollOK,
     StopOK, BoundOK

\* What a step does not touch keeps its part of the invariant.
LEMMA Frame ==
  ASSUME IInv
  PROVE  /\ UNCHANGED batchVars => BatchOK'
         /\ UNCHANGED itemVars => ItemOK'
         /\ UNCHANGED jobVars => JobOK'
         /\ UNCHANGED scope => (scope \subseteq Resumes)'
         /\ UNCHANGED coord => (coord \in [Batches -> Nat])'
         /\ UNCHANGED coordVars => CoordOK'
         /\ UNCHANGED workerVars => WorkerOK'
         /\ UNCHANGED refreshVars => RefreshOK'
         /\ UNCHANGED pollVars => PollOK'
         /\ UNCHANGED stopVars => StopOK'
         /\ UNCHANGED boundVars => BoundOK'
  <1>1. UNCHANGED batchVars => BatchOK'
    BY DEF IInv, batchVars, BatchOK
  <1>2. UNCHANGED itemVars => ItemOK'
    BY DEF IInv, itemVars, ItemOK
  <1>3. UNCHANGED jobVars => JobOK'
    BY DEF IInv, jobVars, JobOK
  <1>4. UNCHANGED coordVars => CoordOK'
    BY DEF IInv, coordVars, CoordOK, MidPage
  <1>5. UNCHANGED workerVars => WorkerOK'
    BY DEF IInv, workerVars, WorkerOK
  <1>6. UNCHANGED refreshVars => RefreshOK'
    BY DEF IInv, refreshVars, RefreshOK
  <1>7. UNCHANGED pollVars => PollOK'
    BY DEF IInv, pollVars, PollOK
  <1>8. UNCHANGED stopVars => StopOK'
    BY DEF IInv, stopVars, StopOK
  <1>9. UNCHANGED boundVars => BoundOK'
    BY DEF IInv, boundVars, BoundOK
  <1>10. /\ UNCHANGED scope => (scope \subseteq Resumes)'
         /\ UNCHANGED coord => (coord \in [Batches -> Nat])'
    BY DEF IInv
  <1> QED BY <1>1, <1>2, <1>3, <1>4, <1>5, <1>6, <1>7, <1>8, <1>9, <1>10

-----------------------------------------------------------------------------
LEMMA FiniteResumes == IsFiniteSet(Resumes) /\ Cardinality(Resumes) = N
  <1>1. 1 \in Int /\ N \in Int /\ N >= 1
    BY BatchAssumption
  <1> QED BY <1>1, FS_Interval DEF Resumes

\* The first and the last resume of a page exist: of the parts of the page up to
\* (or from) one of its rows, one has no smaller.
LEMMA Ends ==
  ASSUME NEW S \in SUBSET Resumes, S # {}
  PROVE  FirstOf(S) \in S /\ LastOf(S) \in S
  <1> DEFINE Smaller == StrictSubsetOrdering(Resumes)
             Parts == FiniteSubsetsOf(Resumes)
  <1>1. IsWellFoundedOn(Smaller, Parts)
    BY FS_StrictSubsetOrderingWellFounded
  <1>2. \A T \in SUBSET Resumes : T \in Parts
    BY FiniteResumes, FS_Subset DEF FiniteSubsetsOf
  <1>3. ASSUME NEW F \in SUBSET SUBSET Resumes, F # {}
        PROVE  \E P \in F : \A Q \in F : ~(Q \subseteq P /\ Q # P)
    <2>1. F \subseteq Parts
      BY <1>2
    <2>2. PICK P \in F : \A Q \in F : <<Q, P>> \notin Smaller
      BY <1>1, <2>1, <1>3, WFMin
    <2> QED BY <2>2 DEF StrictSubsetOrdering
  <1> HIDE DEF Smaller, Parts
  <1>4. Resumes \subseteq Int
    BY DEF Resumes
  <1>5. \E x \in S : \A y \in S : x <= y
    <2> DEFINE Upto(x) == {z \in S : z <= x}
           F == {Upto(x) : x \in S}
    <2>0. F \in SUBSET SUBSET Resumes /\ F # {}
      OBVIOUS
    <2>1. PICK P \in F : \A Q \in F : ~(Q \subseteq P /\ Q # P)
      <3> HIDE DEF F
      <3> QED BY <1>3, <2>0
    <2>2. PICK x \in S : P = Upto(x)
      BY <2>1
    <2>3. ASSUME NEW y \in S, y < x PROVE FALSE
      <3>0. \A z \in S : z \in Int
        BY <1>4
      <3>1. Upto(y) \subseteq Upto(x) /\ x \in Upto(x) /\ x \notin Upto(y)
        BY <2>3, <3>0
      <3> QED BY <2>1, <2>2, <3>1
    <2> QED BY <1>4, <2>3
  <1>6. \E x \in S : \A y \in S : y <= x
    <2> DEFINE From(x) == {z \in S : x <= z}
           F == {From(x) : x \in S}
    <2>0. F \in SUBSET SUBSET Resumes /\ F # {}
      OBVIOUS
    <2>1. PICK P \in F : \A Q \in F : ~(Q \subseteq P /\ Q # P)
      <3> HIDE DEF F
      <3> QED BY <1>3, <2>0
    <2>2. PICK x \in S : P = From(x)
      BY <2>1
    <2>3. ASSUME NEW y \in S, x < y PROVE FALSE
      <3>0. \A z \in S : z \in Int
        BY <1>4
      <3>1. From(y) \subseteq From(x) /\ x \in From(x) /\ x \notin From(y)
        BY <2>3, <3>0
      <3> QED BY <2>1, <2>2, <3>1
    <2> QED BY <1>4, <2>3
  <1> QED BY <1>5, <1>6 DEF FirstOf, LastOf

\* What cardinalities the guards compare.
LEMMA Counting ==
  /\ IsFiniteSet(Resumes) /\ Cardinality(Resumes) = N
  /\ \A S \in SUBSET Resumes : Cardinality(S) \in 0..N
  /\ \A S \in SUBSET Resumes : \A T \in SUBSET S : Cardinality(T) <= Cardinality(S)
  /\ \A S \in SUBSET Refreshers : Cardinality(S) \in Nat
  /\ \A S \in SUBSET Batches : Cardinality(S) \in Nat
  <1>2. \A S \in SUBSET Resumes : IsFiniteSet(S) /\ Cardinality(S) \in 0..N
    BY FiniteResumes, FS_Subset, FS_CardinalityType, BatchAssumption
  <1>3. \A S \in SUBSET Resumes : \A T \in SUBSET S : Cardinality(T) <= Cardinality(S)
    BY <1>2, FS_Subset
  <1>4. IsFiniteSet(Refreshers)
    BY ProcessAssumption, FS_Union, FS_Singleton DEF Refreshers
  <1>5. \A S \in SUBSET Refreshers : Cardinality(S) \in Nat
    BY <1>4, FS_Subset, FS_CardinalityType
  <1>6. \A S \in SUBSET Batches : Cardinality(S) \in Nat
    BY BatchAssumption, FS_Subset, FS_CardinalityType
  <1> QED BY FiniteResumes, <1>2, <1>3, <1>5, <1>6

-----------------------------------------------------------------------------
(* The statements and moves the actions are made of *)

LEMMA SetBatchOK ==
  ASSUME IInv, NEW b \in Batches, NEW s \in BatchStatus, SetBatch(b, s),
         UNCHANGED <<cursor, total>>
  PROVE  BatchOK'
  BY BatchAssumption DEF IInv, BatchOK, SetBatch

LEMMA FailBatchOK ==
  ASSUME IInv, NEW b \in Batches, FailBatch(b), UNCHANGED <<cursor, total>>
  PROVE  BatchOK'
  <1>1. "failed" \in BatchStatus
    BY DEF BatchStatus
  <1> QED BY <1>1, SetBatchOK, Frame DEF FailBatch, batchVars

LEMMA ItemSet ==
  ASSUME IInv, NEW b \in Batches, NEW r \in Resumes, NEW s \in ItemStatus, SetItem(b, r, s)
  PROVE  istat' \in [Batches -> [Resumes -> ItemStatus]]
  BY DEF IInv, ItemOK, SetItem

LEMMA SetItemOK ==
  ASSUME IInv, NEW b \in Batches, NEW r \in Resumes, NEW s \in ItemStatus, SetItem(b, r, s),
         UNCHANGED ijob
  PROVE  ItemOK'
  BY DEF IInv, ItemOK, SetItem

\* Whoever is in mid-page has a batch, and a row of it.
LEMMA AtRow ==
  ASSUME IInv, NEW c \in Coordinators, MidPage(c)
  PROVE  cbatch[c] \in Batches /\ crow[c] \in Resumes /\ crow[c] \in cpage[c]
  BY DEF IInv, CoordOK, MidPage

\* The moves of a coordinator that keep its batch and page.
LEMMA CoordMove ==
  ASSUME IInv, NEW c \in Coordinators,
         NEW pc \in {"insert", "row", "enqueue", "attach", "write", "send", "rowFailed",
                     "save", "next", "complete"}, GoCoord(c, pc),
         NEW row \in 0..N, crow' = [crow EXCEPT ![c] = row],
         NEW j \in Jobs \cup {NoJob}, cjob' = [cjob EXCEPT ![c] = j],
         NEW s \in ItemStatus, cput' = [cput EXCEPT ![c] = s],
         UNCHANGED <<cbatch, cpage>>,
         cbatch[c] \in Batches,
         pc \in {"insert", "save"} => cpage[c] # {},
         pc \in {"row", "enqueue", "attach", "write", "send", "rowFailed"} => row \in cpage[c],
         pc \in {"attach", "write", "send"} => j \in Jobs /\ j[1] = row
  PROVE  CoordOK'
  <1>1. cpc' = [cpc EXCEPT ![c] = pc]
    BY DEF GoCoord
  <1>2. /\ cpc' \in [Coordinators -> {"idle", "insert", "row", "enqueue", "attach", "write",
                                 "send", "rowFailed", "save", "next", "complete"}]
        /\ cbatch' \in [Coordinators -> Batches \cup {NoBatch}]
        /\ cpage' \in [Coordinators -> SUBSET Resumes]
        /\ crow' \in [Coordinators -> 0..N]
        /\ cjob' \in [Coordinators -> Jobs \cup {NoJob}]
        /\ cput' \in [Coordinators -> ItemStatus]
    BY <1>1 DEF IInv, CoordOK
  <1>3. ASSUME NEW d \in Coordinators
        PROVE  /\ cpc'[d] # "idle" => cbatch'[d] \in Batches
               /\ cpc'[d] \in {"insert", "save"} => cpage'[d] # {}
               /\ MidPage(d)' => crow'[d] \in cpage'[d]
               /\ cpc'[d] \in {"attach", "write", "send"} =>
                     cjob'[d] \in Jobs /\ cjob'[d][1] = crow'[d]
    <2>1. CASE d = c
      BY <1>1, <2>1 DEF IInv, CoordOK, MidPage
    <2>2. CASE d # c
      BY <1>1, <2>2 DEF IInv, CoordOK, MidPage
    <2> QED BY <2>1, <2>2
  <1> QED BY <1>2, <1>3 DEF CoordOK

LEMMA LeaveOK ==
  ASSUME IInv, NEW c \in Coordinators, Leave(c)
  PROVE  CoordOK'
  <1>1. /\ cpc' \in [Coordinators -> {"idle", "insert", "row", "enqueue", "attach", "write",
                                 "send", "rowFailed", "save", "next", "complete"}]
        /\ cbatch' \in [Coordinators -> Batches \cup {NoBatch}]
        /\ cpage' \in [Coordinators -> SUBSET Resumes]
        /\ crow' \in [Coordinators -> 0..N]
        /\ cjob' \in [Coordinators -> Jobs \cup {NoJob}]
        /\ cput' \in [Coordinators -> ItemStatus]
    BY BatchAssumption DEF IInv, CoordOK, Leave, ItemStatus
  <1>2. ASSUME NEW d \in Coordinators
        PROVE  /\ cpc'[d] # "idle" => cbatch'[d] \in Batches
               /\ cpc'[d] \in {"insert", "save"} => cpage'[d] # {}
               /\ MidPage(d)' => crow'[d] \in cpage'[d]
               /\ cpc'[d] \in {"attach", "write", "send"} =>
                     cjob'[d] \in Jobs /\ cjob'[d][1] = crow'[d]
    BY DEF IInv, CoordOK, Leave, MidPage
  <1> QED BY <1>1, <1>2 DEF CoordOK

LEMMA NextRowOK ==
  ASSUME IInv, NEW c \in Coordinators, MidPage(c), NextRow(c)
  PROVE  CoordOK'
  <1> DEFINE rest == {r \in cpage[c] : r > crow[c]}
             row == IF rest = {} THEN 0 ELSE FirstOf(rest)
             pc == IF rest # {} THEN "row"
                   ELSE IF Cardinality(cpage[c]) = PageSize THEN "save" ELSE "complete"
  <1>1. cbatch[c] \in Batches /\ cpage[c] \in SUBSET Resumes /\ cpage[c] # {}
    BY AtRow DEF IInv, CoordOK
  <1>2. rest # {} => FirstOf(rest) \in rest
    BY <1>1, Ends
  <1>3. row \in 0..N /\ (pc = "row" => row \in cpage[c])
    BY <1>1, <1>2, BatchAssumption DEF Resumes
  <1>4. /\ crow' = [crow EXCEPT ![c] = row] /\ cjob' = [cjob EXCEPT ![c] = NoJob]
        /\ cput' = [cput EXCEPT ![c] = "none"] /\ GoCoord(c, pc)
        /\ UNCHANGED <<cbatch, cpage>>
    BY DEF NextRow
  <1>5. pc \in {"row", "save", "complete"} /\ "none" \in ItemStatus /\ NoJob \in Jobs \cup {NoJob}
    BY DEF ItemStatus
  <1> HIDE DEF row, pc, rest
  <1> QED BY <1>1, <1>3, <1>4, <1>5, CoordMove

LEMMA RefreshDoneOK ==
  ASSUME IInv, NEW p \in Refreshers, RefreshDone(p)
  PROVE  RefreshOK'
  BY DEF IInv, RefreshOK, RefreshDone, BatchStatus

\* A refresh that is due starts.
LEMMA RefreshDue ==
  ASSUME IInv, NEW p \in Refreshers, NEW b \in Batches,
         rpc' = [rpc EXCEPT ![p] = "read"], rbatch' = [rbatch EXCEPT ![p] = b],
         UNCHANGED rnew
  PROVE  RefreshOK'
  BY DEF IInv, RefreshOK

LEMMA SettleOK ==
  ASSUME IInv, NEW w \in Workers, Settle(w)
  PROVE  WorkerOK'
  BY BatchAssumption DEF IInv, WorkerOK, Settle

LEMMA OvertakeOK ==
  ASSUME IInv, NEW b \in Batches, Overtake(b), UNCHANGED <<crashes, retries, outside, late>>
  PROVE  BoundOK'
  <1> DEFINE n == Cardinality({p \in Refreshers : rpc[p] = "write" /\ rbatch[p] = b})
  <1>1. n \in Nat
    BY Counting
  <1>2. overtakes + n <= MaxOvertakes /\ overtakes' = overtakes + n
    BY DEF Overtake
  <1> HIDE DEF n
  <1> QED BY <1>1, <1>2, BatchAssumption DEF IInv, BoundOK

-----------------------------------------------------------------------------
(* Every step keeps the invariant: the coordinator *)

LEMMA StartStep ==
  ASSUME IInv, NEW b \in Batches, Start(b)
  PROVE  IInv'
  <1>1. total' \in [Batches -> 0..N]
    BY Counting DEF Start, IInv, BatchOK
  <1>2. BatchOK'
    BY <1>1, BatchAssumption DEF Start, SetBatch, IInv, BatchOK, BatchStatus, Active
  <1>3. coord' \in [Batches -> Nat]
    BY DEF Start, IInv
  <1>4. BoundOK'
    BY BatchAssumption DEF Start, IInv, BoundOK
  <1>5. UNCHANGED <<itemVars, jobVars, scope, coordVars, workerVars, refreshVars, pollVars,
                    stopVars>>
    BY DEF Start
  <1> QED BY <1>2, <1>3, <1>4, <1>5, Frame DEF IInv

LEMMA ClaimStep ==
  ASSUME IInv, NEW c \in Coordinators, NEW b \in Batches, CoordClaim(c, b)
  PROVE  IInv'
  <1>1. coord' \in [Batches -> Nat]
    BY DEF CoordClaim, IInv
  <1>2. BatchOK'
    <2>1. "running" \in BatchStatus
      BY DEF BatchStatus, Active
    <2> QED BY <2>1, SetBatchOK DEF CoordClaim
  <1>3. BoundOK'
    BY OvertakeOK DEF CoordClaim
  <1>4. CoordOK'
    <2>1. Page(cursor[b]) \in SUBSET Resumes
      BY DEF Page, IInv
    <2>2. /\ cpc' \in [Coordinators -> {"idle", "insert", "row", "enqueue", "attach", "write",
                                 "send", "rowFailed", "save", "next", "complete"}]
          /\ cbatch' \in [Coordinators -> Batches \cup {NoBatch}]
          /\ cpage' \in [Coordinators -> SUBSET Resumes]
          /\ UNCHANGED <<crow, cjob, cput>>
      BY <2>1 DEF IInv, CoordOK, CoordClaim, GoCoord
    <2>3. ASSUME NEW d \in Coordinators
          PROVE  /\ cpc'[d] # "idle" => cbatch'[d] \in Batches
                 /\ cpc'[d] \in {"insert", "save"} => cpage'[d] # {}
                 /\ MidPage(d)' => crow'[d] \in cpage'[d]
                 /\ cpc'[d] \in {"attach", "write", "send"} =>
                       cjob'[d] \in Jobs /\ cjob'[d][1] = crow'[d]
      <3>1. CASE d = c
        BY <3>1 DEF IInv, CoordOK, CoordClaim, GoCoord, MidPage
      <3>2. CASE d # c
        BY <3>2 DEF IInv, CoordOK, CoordClaim, GoCoord, MidPage
      <3> QED BY <3>1, <3>2
    <2> QED BY <2>2, <2>3 DEF IInv, CoordOK
  <1>5. UNCHANGED <<itemVars, jobVars, scope, workerVars, refreshVars, pollVars, stopVars>>
    BY DEF CoordClaim, itemVars, jobVars
  <1> QED BY <1>1, <1>2, <1>3, <1>4, <1>5, Frame DEF IInv

LEMMA IgnoreStep ==
  ASSUME IInv, NEW c \in Coordinators, NEW b \in Batches, CoordIgnore(c, b)
  PROVE  IInv'
  <1>1. coord' \in [Batches -> Nat]
    BY DEF CoordIgnore, IInv
  <1>2. UNCHANGED <<batchVars, itemVars, jobVars, scope, coordVars, workerVars,
                    refreshVars, pollVars, stopVars, boundVars>>
    BY DEF CoordIgnore
  <1> QED BY <1>1, <1>2, Frame DEF IInv

LEMMA InsertStep ==
  ASSUME IInv, NEW c \in Coordinators, CoordInsert(c)
  PROVE  IInv'
  <1>1. cbatch[c] \in Batches /\ cpage[c] \in SUBSET Resumes /\ cpage[c] # {}
    BY DEF CoordInsert, IInv, CoordOK
  <1>2. ItemOK'
    BY <1>1 DEF CoordInsert, IInv, ItemOK, ItemStatus, Unfinished
  <1>3. FirstOf(cpage[c]) \in cpage[c] /\ FirstOf(cpage[c]) \in 0..N
    BY <1>1, Ends, BatchAssumption DEF Resumes
  <1>4. CoordOK'
    <2>1. /\ cjob[c] \in Jobs \cup {NoJob} /\ cput[c] \in ItemStatus
          /\ cjob' = [cjob EXCEPT ![c] = cjob[c]] /\ cput' = [cput EXCEPT ![c] = cput[c]]
          /\ crow' = [crow EXCEPT ![c] = FirstOf(cpage[c])] /\ GoCoord(c, "row")
          /\ UNCHANGED <<cbatch, cpage>>
      BY DEF CoordInsert, IInv, CoordOK
    <2> QED BY <1>1, <1>3, <2>1, CoordMove
  <1>5. UNCHANGED <<batchVars, jobVars, scope, coord, workerVars, refreshVars, pollVars,
                    stopVars, boundVars>>
    BY DEF CoordInsert
  <1> QED BY <1>2, <1>4, <1>5, Frame DEF IInv

\* A coordinator that keeps its row and its job.
LEMMA SameRow ==
  ASSUME IInv, NEW c \in Coordinators, MidPage(c),
         NEW pc \in {"enqueue", "send", "write", "rowFailed"}, GoCoord(c, pc),
         NEW s \in ItemStatus, cput' = [cput EXCEPT ![c] = s],
         UNCHANGED <<cbatch, cpage, crow, cjob>>,
         pc \in {"send", "write"} => cpc[c] \in {"attach", "write"}
  PROVE  CoordOK'
  <1>1. /\ cjob[c] \in Jobs \cup {NoJob} /\ crow[c] \in 0..N
        /\ cjob' = [cjob EXCEPT ![c] = cjob[c]]
        /\ crow' = [crow EXCEPT ![c] = crow[c]]
        /\ pc \in {"write", "send"} => cjob[c] \in Jobs /\ cjob[c][1] = crow[c]
    BY DEF IInv, CoordOK
  <1> QED BY <1>1, AtRow, CoordMove

LEMMA RowStep ==
  ASSUME IInv, NEW c \in Coordinators, CoordRow(c)
  PROVE  IInv'
  <1>1. MidPage(c)
    BY DEF CoordRow, MidPage
  <1>2. CASE NextRow(c)
    <2>1. CoordOK'
      BY <1>1, <1>2, NextRowOK
    <2> QED BY <2>1, Frame DEF CoordRow, IInv
  <1>3. CASE GoCoord(c, "enqueue") /\ UNCHANGED <<cbatch, cpage, crow, cjob, cput>>
    <2>1. cput[c] \in ItemStatus /\ cput' = [cput EXCEPT ![c] = cput[c]]
      BY <1>3 DEF IInv, CoordOK
    <2>2. CoordOK'
      BY <1>1, <1>3, <2>1, SameRow
    <2> QED BY <2>2, Frame DEF CoordRow, IInv
  <1> QED BY <1>2, <1>3 DEF CoordRow

LEMMA JobsForRow ==
  ASSUME NEW r \in Resumes, NEW j \in JobsFor(r)
  PROVE  j \in Jobs /\ j[1] = r /\ jstat[j] \in {"failed", "none"}
  BY DEF JobsFor, FailedJobs, NewJobs

LEMMA EnqueueStep ==
  ASSUME IInv, NEW c \in Coordinators, CoordEnqueue(c)
  PROVE  IInv'
  <1>1. MidPage(c)
    BY DEF CoordEnqueue, MidPage
  <1>2. PICK j \in JobsFor(crow[c]) :
          jstat' = [jstat EXCEPT ![j] = "queued"] /\ cjob' = [cjob EXCEPT ![c] = j]
    BY DEF CoordEnqueue
  <1>3. j \in Jobs /\ j[1] = crow[c]
    BY <1>1, <1>2, AtRow, JobsForRow
  <1>4. JobOK'
    BY <1>2, <1>3 DEF CoordEnqueue, IInv, JobOK, JobStatus, Active
  <1>5. CoordOK'
    <2>1. /\ cput[c] \in ItemStatus /\ cput' = [cput EXCEPT ![c] = cput[c]]
          /\ crow[c] \in 0..N /\ crow' = [crow EXCEPT ![c] = crow[c]]
          /\ GoCoord(c, "attach") /\ UNCHANGED <<cbatch, cpage>>
      BY DEF CoordEnqueue, IInv, CoordOK
    <2> QED BY <1>1, <1>2, <1>3, <2>1, AtRow, CoordMove
  <1>6. UNCHANGED <<batchVars, itemVars, scope, coord, workerVars, refreshVars, pollVars,
                    stopVars, boundVars>>
    BY DEF CoordEnqueue
  <1> QED BY <1>4, <1>5, <1>6, Frame DEF IInv

\* CoordSkip and CoordRowFailed: the item's last word, and on to the next row.
LEMMA GiveUpStep ==
  ASSUME IInv, NEW c \in Coordinators, CoordSkip(c) \/ CoordRowFailed(c)
  PROVE  IInv'
  <1>1. MidPage(c) /\ NextRow(c)
    BY DEF CoordSkip, CoordRowFailed, MidPage
  <1>2. "skipped" \in ItemStatus /\ "failed" \in ItemStatus
    BY DEF ItemStatus, Terminal
  <1>3. ItemOK'
    BY <1>1, <1>2, AtRow, SetItemOK DEF CoordSkip, CoordRowFailed
  <1>4. CoordOK'
    BY <1>1, NextRowOK
  <1>5. UNCHANGED <<batchVars, jobVars, scope, coord, workerVars, refreshVars, pollVars,
                    stopVars, boundVars>>
    BY DEF CoordSkip, CoordRowFailed
  <1> QED BY <1>3, <1>4, <1>5, Frame DEF IInv

LEMMA AttachReadStep ==
  ASSUME IInv, NEW c \in Coordinators, CoordAttachRead(c)
  PROVE  IInv'
  <1>1. MidPage(c)
    BY DEF CoordAttachRead, MidPage
  <1>2. PICK s \in ItemStatus : cput' = [cput EXCEPT ![c] = s]
    <2>1. AsItem(jstat[cjob[c]]) \in ItemStatus /\ "none" \in ItemStatus
      BY DEF AsItem, ItemStatus, Terminal, Unfinished, Active
    <2> QED BY <2>1 DEF CoordAttachRead
  <1>3. CoordOK'
    <2>1. PICK pc \in {"send", "write"} : GoCoord(c, pc)
      BY DEF CoordAttachRead
    <2> QED BY <1>1, <1>2, <2>1, SameRow DEF CoordAttachRead
  <1> QED BY <1>3, Frame DEF CoordAttachRead, IInv

LEMMA AttachWriteStep ==
  ASSUME IInv, NEW c \in Coordinators, CoordAttachWrite(c)
  PROVE  IInv'
  <1>1. MidPage(c)
    BY DEF CoordAttachWrite, MidPage
  <1>2. cbatch[c] \in Batches /\ crow[c] \in Resumes
    BY <1>1, AtRow
  <1>3. cjob[c] \in Jobs /\ cjob[c][1] = crow[c] /\ cput[c] \in ItemStatus
    BY DEF CoordAttachWrite, IInv, CoordOK
  <1>4. ItemOK'
    <2>1. istat' \in [Batches -> [Resumes -> ItemStatus]]
      <3>1. CASE istat' = istat
        BY <3>1 DEF IInv, ItemOK
      <3>2. CASE SetItem(cbatch[c], crow[c], cput[c])
        BY <1>2, <1>3, <3>2, ItemSet
      <3> QED BY <3>1, <3>2 DEF CoordAttachWrite
    <2>2. /\ ijob' \in [Batches -> [Resumes -> Jobs \cup {NoJob}]]
          /\ \A b \in Batches, r \in Resumes : ijob'[b][r] # NoJob => ijob'[b][r][1] = r
      BY <1>2, <1>3 DEF CoordAttachWrite, IInv, ItemOK
    <2> QED BY <2>1, <2>2 DEF ItemOK
  <1>5. CoordOK'
    <2>1. cput' = [cput EXCEPT ![c] = cput[c]]
      BY DEF CoordAttachWrite, IInv, CoordOK
    <2> QED BY <1>1, <1>3, <2>1, SameRow DEF CoordAttachWrite
  <1>6. UNCHANGED <<batchVars, jobVars, scope, coord, workerVars, refreshVars, pollVars,
                    stopVars, boundVars>>
    BY DEF CoordAttachWrite
  <1> QED BY <1>4, <1>5, <1>6, Frame DEF IInv

LEMMA SendStep ==
  ASSUME IInv, NEW c \in Coordinators, CoordSend(c)
  PROVE  IInv'
  <1>1. MidPage(c) /\ cjob[c] \in Jobs
    BY DEF CoordSend, MidPage, IInv, CoordOK
  <1>2. CoordOK'
    BY <1>1, NextRowOK DEF CoordSend
  <1>3. JobOK'
    BY <1>1 DEF CoordSend, IInv, JobOK
  <1>4. UNCHANGED <<batchVars, itemVars, scope, coord, workerVars, refreshVars, pollVars,
                    stopVars, boundVars>>
    BY DEF CoordSend
  <1> QED BY <1>2, <1>3, <1>4, Frame DEF IInv

LEMMA RowErrorStep ==
  ASSUME IInv, NEW c \in Coordinators, CoordRowError(c)
  PROVE  IInv'
  <1>1. MidPage(c)
    BY DEF CoordRowError, MidPage
  <1>2. JobOK'
    BY DEF CoordRowError, IInv, JobOK, JobStatus
  <1>3. CoordOK'
    <2>1. cput[c] \in ItemStatus /\ cput' = [cput EXCEPT ![c] = cput[c]]
      BY DEF CoordRowError, IInv, CoordOK
    <2> QED BY <1>1, <2>1, SameRow DEF CoordRowError
  <1>4. UNCHANGED <<batchVars, itemVars, scope, coord, workerVars, refreshVars, pollVars,
                    stopVars, boundVars>>
    BY DEF CoordRowError
  <1> QED BY <1>2, <1>3, <1>4, Frame DEF IInv

LEMMA SaveStep ==
  ASSUME IInv, NEW c \in Coordinators, CoordSave(c)
  PROVE  IInv'
  <1>1. cbatch[c] \in Batches /\ cpage[c] \in SUBSET Resumes /\ cpage[c] # {}
    BY DEF CoordSave, IInv, CoordOK
  <1>2. LastOf(cpage[c]) \in 0..N
    BY <1>1, Ends, BatchAssumption DEF Resumes
  <1>3. BatchOK' /\ BoundOK'
    <2>1. CASE bstat[cbatch[c]] = "running"
      <3>1. BatchOK'
        BY <1>1, <1>2, <2>1, BatchAssumption
           DEF CoordSave, SetBatch, IInv, BatchOK, BatchStatus, Active
      <3> QED BY <1>1, <2>1, <3>1, OvertakeOK DEF CoordSave
    <2>2. CASE bstat[cbatch[c]] # "running"
      <3>1. UNCHANGED <<batchVars, boundVars>>
        BY <2>2 DEF CoordSave, batchVars, boundVars
      <3> QED BY <3>1, Frame
    <2> QED BY <2>1, <2>2
  <1>4. CoordOK'
    <2>1. /\ cput[c] \in ItemStatus /\ cput' = [cput EXCEPT ![c] = cput[c]]
          /\ crow[c] \in 0..N /\ crow' = [crow EXCEPT ![c] = crow[c]]
          /\ cjob[c] \in Jobs \cup {NoJob} /\ cjob' = [cjob EXCEPT ![c] = cjob[c]]
          /\ GoCoord(c, "next") /\ UNCHANGED <<cbatch, cpage>>
      BY DEF CoordSave, IInv, CoordOK
    <2> QED BY <1>1, <2>1, CoordMove
  <1>5. UNCHANGED <<itemVars, jobVars, scope, coord, workerVars, refreshVars, pollVars,
                    stopVars>>
    BY DEF CoordSave
  <1> QED BY <1>3, <1>4, <1>5, Frame DEF IInv

\* CoordNext, CoordError, CoordCrash and CoordComplete: the invocation ends.
LEMMA LeaveStep ==
  ASSUME IInv, NEW c \in Coordinators,
         CoordNext(c) \/ CoordError(c) \/ CoordCrash(c) \/ CoordComplete(c)
  PROVE  IInv'
  <1>1. cbatch[c] \in Batches
    BY DEF CoordNext, CoordError, CoordCrash, CoordComplete, IInv, CoordOK
  <1>2. CoordOK'
    BY LeaveOK DEF CoordNext, CoordError, CoordCrash, CoordComplete
  <1>3. UNCHANGED <<itemVars, jobVars, scope, workerVars, pollVars, stopVars>>
    BY DEF CoordNext, CoordError, CoordCrash, CoordComplete
  <1>4. CASE CoordNext(c)
    <2>1. coord' \in [Batches -> Nat]
      BY <1>1, <1>4 DEF CoordNext, IInv
    <2>2. UNCHANGED <<batchVars, refreshVars, boundVars>>
      BY <1>4 DEF CoordNext
    <2> QED BY <1>2, <1>3, <2>1, <2>2, Frame DEF IInv
  <1>5. CASE CoordError(c)
    <2>1. BatchOK' /\ UNCHANGED <<coord, refreshVars, boundVars>>
      BY <1>1, <1>5, FailBatchOK DEF CoordError
    <2> QED BY <1>2, <1>3, <2>1, Frame DEF IInv
  <1>6. CASE CoordCrash(c)
    <2>1. coord' \in [Batches -> Nat]
      BY <1>1, <1>6 DEF CoordCrash, IInv
    <2>2. BoundOK'
      BY <1>6, BatchAssumption DEF CoordCrash, IInv, BoundOK
    <2>3. UNCHANGED <<batchVars, refreshVars>>
      BY <1>6 DEF CoordCrash
    <2> QED BY <1>2, <1>3, <2>1, <2>2, <2>3, Frame DEF IInv
  <1>7. CASE CoordComplete(c)
    <2>1. BatchOK'
      <3>1. "running" \in BatchStatus
        BY DEF BatchStatus, Active
      <3>2. CASE SetBatch(cbatch[c], "running")
        BY <1>1, <1>7, <3>1, <3>2, SetBatchOK DEF CoordComplete
      <3>3. CASE UNCHANGED <<bstat, age>>
        BY <1>7, <3>3, Frame DEF CoordComplete, batchVars
      <3> QED BY <1>7, <3>2, <3>3 DEF CoordComplete
    <2>2. RefreshOK'
      <3>1. c \in Refreshers
        BY DEF Refreshers
      <3> QED BY <1>1, <1>7, <3>1, RefreshDue DEF CoordComplete
    <2>3. UNCHANGED <<coord, boundVars>>
      BY <1>7 DEF CoordComplete
    <2> QED BY <1>2, <1>3, <2>1, <2>2, <2>3, Frame DEF IInv
  <1> QED BY <1>4, <1>5, <1>6, <1>7

-----------------------------------------------------------------------------
(* The refresh, the consumers, the poll, and the rest *)

LEMMA RefreshKeeps ==
  ASSUME IInv, NEW p \in Refreshers, RefreshStep(p)
  PROVE  IInv'
  <1>1. CASE RefreshRead(p)
    <2>1. RefreshOK'
      <3>1. CASE RefreshDone(p)
        BY <3>1, RefreshDoneOK
      <3>2. CASE /\ rnew' = [rnew EXCEPT ![p] = Outcome(rbatch[p])]
                 /\ rpc' = [rpc EXCEPT ![p] = "write"]
                 /\ UNCHANGED rbatch
        <4>1. Outcome(rbatch[p]) \in {"queued", "running", "completed"}
          BY DEF Outcome
        <4>2. rpc[p] # "off"
          BY <1>1 DEF RefreshRead
        <4> QED BY <3>2, <4>1, <4>2 DEF IInv, RefreshOK, BatchStatus, Active
      <3> QED BY <1>1, <3>1, <3>2 DEF RefreshRead
    <2> QED BY <1>1, <2>1, Frame DEF RefreshRead, IInv
  <1>2. CASE RefreshWrite(p)
    <2>1. rbatch[p] \in Batches /\ rnew[p] \in BatchStatus
      BY <1>2 DEF RefreshWrite, IInv, RefreshOK
    <2>2. BatchOK'
      <3>1. CASE SetBatch(rbatch[p], rnew[p])
        BY <1>2, <2>1, <3>1, SetBatchOK DEF RefreshWrite
      <3>2. CASE UNCHANGED <<bstat, age>>
        BY <1>2, <3>2, Frame DEF RefreshWrite, batchVars
      <3> QED BY <1>2, <3>1, <3>2 DEF RefreshWrite
    <2>3. RefreshOK'
      BY <1>2, RefreshDoneOK DEF RefreshWrite
    <2>4. UNCHANGED <<itemVars, jobVars, scope, coord, coordVars, workerVars, pollVars,
                      stopVars, boundVars>>
      BY <1>2 DEF RefreshWrite
    <2> QED BY <2>2, <2>3, <2>4, Frame DEF IInv
  <1> QED BY <1>1, <1>2 DEF RefreshStep

\* A consumer at work has a job, and its report an item to tell.
LEMMA Busy ==
  ASSUME IInv, NEW w \in Workers
  PROVE  /\ wpc[w] # "idle" => wjob[w] \in Jobs /\ wjob[w][1] \in Resumes
         /\ w \in Refreshers
  BY DEF IInv, WorkerOK, Jobs, Refreshers

LEMMA AfterReportOK ==
  ASSUME IInv, NEW w \in Workers, wpc[w] \in {"report", "write"}, AfterReport(w)
  PROVE  WorkerOK'
  <1>1. CASE Settle(w)
    BY <1>1, SettleOK
  <1>2. CASE /\ wnews[w] = "running" /\ GoWorker(w, "work")
             /\ wnews' = [wnews EXCEPT ![w] = "none"] /\ UNCHANGED <<wjob, wsteps>>
    BY <1>2 DEF GoWorker, IInv, WorkerOK
  <1>3. CASE /\ wnews[w] = "queued" /\ GoWorker(w, "retry")
             /\ UNCHANGED <<wjob, wnews, wsteps>>
    BY <1>3 DEF GoWorker, IInv, WorkerOK
  <1> QED BY <1>1, <1>2, <1>3 DEF AfterReport

LEMMA TakeStep ==
  ASSUME IInv, NEW w \in Workers, NEW j \in Jobs, WorkerClaim(w, j) \/ WorkerIgnore(w, j)
  PROVE  IInv'
  <1>1. CASE WorkerClaim(w, j)
    <2>1. JobOK'
      BY <1>1 DEF WorkerClaim, IInv, JobOK, JobStatus, Active
    <2>2. WorkerOK'
      BY <1>1, BatchAssumption DEF WorkerClaim, GoWorker, IInv, WorkerOK
    <2>3. UNCHANGED <<batchVars, itemVars, scope, coord, coordVars, refreshVars, pollVars,
                      stopVars, boundVars>>
      BY <1>1 DEF WorkerClaim
    <2> QED BY <2>1, <2>2, <2>3, Frame DEF IInv
  <1>2. CASE WorkerIgnore(w, j)
    <2>1. JobOK'
      BY <1>2 DEF WorkerIgnore, IInv, JobOK
    <2> QED BY <1>2, <2>1, Frame DEF WorkerIgnore, IInv
  <1> QED BY <1>1, <1>2

\* The job is stopped, has an end, or goes back: its state, and news of it.
LEMMA VerdictStep ==
  ASSUME IInv, NEW w \in Workers,
         WorkerStop(w) \/ WorkerFinish(w) \/ WorkerFail(w) \/ WorkerRetry(w)
  PROVE  IInv'
  <1>1. UNCHANGED <<batchVars, itemVars, scope, coord, coordVars, refreshVars, pollVars,
                    stopVars>>
    BY DEF WorkerStop, WorkerFinish, WorkerFail, WorkerRetry
  <1>2. CASE WorkerStop(w)
    BY <1>1, <1>2, SettleOK, Frame DEF WorkerStop, IInv
  <1>3. CASE WorkerFinish(w) \/ WorkerFail(w) \/ WorkerRetry(w)
    <2>1. wjob[w] \in Jobs
      BY <1>3, Busy DEF WorkerFinish, WorkerFail, WorkerRetry
    <2>2. JobOK'
      <3>1. PICK s \in {"completed", "failed", "queued"} :
               jstat' = jstat \/ jstat' = [jstat EXCEPT ![wjob[w]] = s]
        BY <1>3, <2>1 DEF WorkerFinish, WorkerFail, WorkerRetry, IInv, JobOK
      <3>2. sent' = sent
        BY <1>3 DEF WorkerFinish, WorkerFail, WorkerRetry, jobVars
      <3> QED BY <3>1, <3>2 DEF IInv, JobOK, JobStatus, Active
    <2>3. WorkerOK'
      <3>1. PICK news \in {"completed", "failed", "queued"} : GoReport(w, news)
        BY <1>3 DEF WorkerFinish, WorkerFail, WorkerRetry
      <3>2. wpc[w] # "idle" /\ UNCHANGED <<wjob, wsteps>>
        BY <1>3 DEF WorkerFinish, WorkerFail, WorkerRetry
      <3> QED BY <3>1, <3>2 DEF GoReport, GoWorker, IInv, WorkerOK
    <2>4. BoundOK'
      <3>1. CASE UNCHANGED boundVars
        BY <3>1, Frame
      <3>2. CASE WorkerRetry(w)
        BY <3>2, BatchAssumption DEF WorkerRetry, IInv, BoundOK
      <3> QED BY <1>3, <3>1, <3>2 DEF WorkerFinish, WorkerFail
    <2> QED BY <1>1, <2>2, <2>3, <2>4, Frame DEF IInv
  <1> QED BY <1>2, <1>3

LEMMA ReportOK ==
  ASSUME IInv, NEW w \in Workers, NEW b \in Batches, ReportTo(w, b),
         NEW news \in {"queued", "running", "completed", "failed"},
         wnews' = [wnews EXCEPT ![w] = news],
         wjob' = wjob, wpc[w] # "idle", wsteps' \in [Workers -> 0..Steps],
         UNCHANGED <<rpc, rnew>>
  PROVE  WorkerOK' /\ RefreshOK'
  <1>1. WorkerOK'
    BY DEF ReportTo, GoWorker, IInv, WorkerOK
  <1>2. RefreshOK'
    BY Busy DEF ReportTo, IInv, RefreshOK
  <1> QED BY <1>1, <1>2

LEMMA ReportKeeps ==
  ASSUME IInv, NEW w \in Workers, ReportStep(w) \/ ReportEnd(w)
  PROVE  IInv'
  <1>1. WorkerOK' /\ RefreshOK'
    <2>1. ASSUME NEW b \in Batches, ReportStep(w), ReportTo(w, b),
                 wnews' = [wnews EXCEPT ![w] = "running"]
          PROVE  WorkerOK' /\ RefreshOK'
      <3>1. wsteps' \in [Workers -> 0..Steps]
        BY <2>1, BatchAssumption DEF ReportStep, IInv, WorkerOK
      <3> QED BY <2>1, <3>1, ReportOK DEF ReportStep
    <2>2. ASSUME NoneSeen(w), ReportStep(w), UNCHANGED <<wpc, wnews, rbatch>>
          PROVE  WorkerOK' /\ RefreshOK'
      <3>1. wsteps' \in [Workers -> 0..Steps]
        BY <2>2, BatchAssumption DEF ReportStep, IInv, WorkerOK
      <3>2. UNCHANGED <<rpc, rnew, wjob>>
        BY <2>2 DEF ReportStep
      <3>3. RefreshOK'
        BY <2>2, <3>2, Frame DEF refreshVars
      <3> QED BY <2>2, <3>1, <3>2, <3>3 DEF IInv, WorkerOK
    <2>3. ASSUME NEW b \in Batches, ReportEnd(w), ReportTo(w, b), UNCHANGED <<wjob, wnews, wsteps>>
          PROVE  WorkerOK' /\ RefreshOK'
      <3>1. /\ wnews' = [wnews EXCEPT ![w] = wnews[w]]
            /\ wnews[w] \in {"queued", "running", "completed", "failed"}
            /\ wsteps' \in [Workers -> 0..Steps]
        BY <2>3 DEF ReportEnd, IInv, WorkerOK
      <3> QED BY <2>3, <3>1, ReportOK DEF ReportEnd
    <2>4. ASSUME ReportEnd(w), AfterReport(w), UNCHANGED rbatch
          PROVE  WorkerOK' /\ RefreshOK'
      BY <2>4, AfterReportOK, Frame DEF ReportEnd, refreshVars
    <2> QED BY <2>1, <2>2, <2>3, <2>4 DEF ReportStep, ReportEnd
  <1>2. UNCHANGED <<batchVars, itemVars, jobVars, scope, coord, coordVars, pollVars,
                    stopVars, boundVars>>
    BY DEF ReportStep, ReportEnd
  <1> QED BY <1>1, <1>2, Frame DEF IInv

LEMMA ReportWriteKeeps ==
  ASSUME IInv, Reporting, NEW w \in Workers, ReportWrite(w)
  PROVE  IInv'
  <1>1. WorkerOK'
    BY AfterReportOK DEF ReportWrite
  <1>2. wjob[w] \in Jobs /\ wjob[w][1] \in Resumes /\ w \in Refreshers
    BY Busy DEF ReportWrite
  <1>3. ItemsOf(wjob[w]) \subseteq Batches /\ wnews[w] \in ItemStatus
    BY DEF ReportWrite, ItemsOf, IInv, WorkerOK, ItemStatus, Unfinished, Terminal, Active
  <1>4. ItemOK'
    BY <1>2, <1>3 DEF ReportWrite, IInv, ItemOK
  <1>5. RefreshOK'
    <2>1. rbatch[w] \in Batches
      BY DEF Reporting, ReportWrite
    <2> QED BY <1>2, <2>1 DEF ReportWrite, IInv, RefreshOK
  <1>6. UNCHANGED <<batchVars, jobVars, scope, coord, coordVars, pollVars, stopVars, boundVars>>
    BY DEF ReportWrite
  <1> QED BY <1>1, <1>4, <1>5, <1>6, Frame DEF IInv

LEMMA EndStep ==
  ASSUME IInv, NEW w \in Workers, SendBack(w) \/ WorkerCrash(w)
  PROVE  IInv'
  <1>1. wjob[w] \in Jobs /\ w \in Refreshers
    BY Busy DEF SendBack, WorkerCrash
  <1>2. WorkerOK'
    BY SettleOK DEF SendBack, WorkerCrash
  <1>3. JobOK'
    BY <1>1 DEF SendBack, WorkerCrash, IInv, JobOK
  <1>4. UNCHANGED <<batchVars, itemVars, scope, coord, coordVars, pollVars, stopVars>>
    BY DEF SendBack, WorkerCrash
  <1>5. CASE SendBack(w)
    BY <1>2, <1>3, <1>4, <1>5, Frame DEF SendBack, IInv
  <1>6. CASE WorkerCrash(w)
    <2>1. RefreshOK'
      BY <1>1, <1>6, RefreshDoneOK DEF WorkerCrash
    <2>2. BoundOK'
      BY <1>6, BatchAssumption DEF WorkerCrash, IInv, BoundOK
    <2> QED BY <1>2, <1>3, <1>4, <2>1, <2>2, Frame DEF IInv
  <1> QED BY <1>5, <1>6

LEMMA RecoverStep ==
  ASSUME IInv, NEW j \in Jobs, RecoverStale(j)
  PROVE  IInv'
  <1>1. JobOK'
    BY DEF RecoverStale, IInv, JobOK, JobStatus
  <1> QED BY <1>1, Frame DEF RecoverStale, IInv

LEMMA ReconcileOK ==
  ASSUME IInv, NEW b \in Batches, NEW rows \in SUBSET (Resumes \X (ItemStatus \ {"none"})),
         Reconcile(b, rows)
  PROVE  PollOK' /\ RefreshOK'
  <1>1. CASE rows # {}
    <2>1. RefreshOK'
      BY <1>1, Frame DEF Reconcile, refreshVars
    <2> QED BY <1>1, <2>1 DEF Reconcile, IInv, PollOK
  <1>2. CASE rows = {}
    <2>1. RefreshOK'
      <3>1. Poll \in Refreshers
        BY DEF Refreshers
      <3> QED BY <1>2, <3>1, RefreshDue DEF Reconcile
    <2> QED BY <1>2, <2>1, BatchAssumption DEF Reconcile, IInv, PollOK
  <1> QED BY <1>1, <1>2

\* What the poll corrects is the item of a job, and never to "none".
LEMMA Corrections ==
  ASSUME IInv, NEW b \in Batches, NEW r \in Resumes, NEW row \in Correction(b, r)
  PROVE  /\ row \in Resumes \X (ItemStatus \ {"none"})
         /\ ijob[b][r] \in Jobs /\ ijob[b][r][1] = r
         /\ row = <<r, jstat[ijob[b][r]]>>
  <1>1. /\ row = <<r, jstat[ijob[b][r]]>>
        /\ ijob[b][r] # NoJob
        /\ jstat[ijob[b][r]] \in JobStatus \ {"cancelled", "none", istat[b][r]}
    BY DEF Correction
  <1>2. ijob[b][r] \in Jobs /\ ijob[b][r][1] = r
    BY <1>1 DEF IInv, ItemOK
  <1> QED BY <1>1, <1>2 DEF JobStatus, ItemStatus, Unfinished, Terminal, Active

LEMMA ReconcileReadOK ==
  ASSUME IInv, NEW b \in Batches, ReconcileRead(b)
  PROVE  PollOK' /\ RefreshOK'
  <1> DEFINE rows == UNION {Correction(b, r) : r \in Resumes}
  <1>1. rows \in SUBSET (Resumes \X (ItemStatus \ {"none"}))
    BY Corrections
  <1>2. Reconcile(b, rows)
    BY DEF ReconcileRead
  <1> HIDE DEF rows
  <1> QED BY <1>1, <1>2, ReconcileOK

LEMMA PollKeeps ==
  ASSUME IInv, PollStep
  PROVE  IInv'
  <1>1. ASSUME NEW b \in Batches, PollStart(b) PROVE IInv'
    <2>1. PollOK' /\ RefreshOK'
      <3>1. CASE ReconcileRead(b)
        BY <3>1, ReconcileReadOK
      <3>2. CASE ppc' = "recover" /\ pbatch' = b /\ UNCHANGED <<refreshVars, prows, since>>
        BY <3>2, Frame DEF IInv, PollOK
      <3> QED BY <1>1, <3>1, <3>2 DEF PollStart
    <2> QED BY <1>1, <2>1, Frame DEF PollStart, IInv
  <1>2. CASE PollRecover
    <2>1. pbatch \in Batches
      BY <1>2 DEF PollRecover, IInv, PollOK
    <2>2. BatchOK' /\ PollOK' /\ RefreshOK'
      <3>1. CASE /\ SetBatch(pbatch, "queued") /\ ppc' = "send"
                 /\ UNCHANGED <<refreshVars, pbatch, prows, since>>
        <4>1. "queued" \in BatchStatus
          BY DEF BatchStatus, Active
        <4>2. BatchOK'
          BY <1>2, <2>1, <3>1, <4>1, SetBatchOK DEF PollRecover
        <4> QED BY <2>1, <3>1, <4>2, Frame DEF IInv, PollOK
      <3>2. CASE ReconcileRead(pbatch) /\ UNCHANGED <<bstat, age>>
        <4>1. BatchOK'
          BY <1>2, <3>2, Frame DEF PollRecover, batchVars
        <4> QED BY <2>1, <3>2, <4>1, ReconcileReadOK
      <3> QED BY <1>2, <3>1, <3>2 DEF PollRecover
    <2>3. UNCHANGED <<itemVars, jobVars, scope, coord, coordVars, workerVars, stopVars,
                      boundVars>>
      BY <1>2 DEF PollRecover
    <2> QED BY <2>2, <2>3, Frame DEF IInv
  <1>3. CASE PollSend
    <2>1. pbatch \in Batches
      BY <1>3 DEF PollSend, IInv, PollOK
    <2>2. BatchOK' /\ coord' \in [Batches -> Nat]
      <3>1. CASE coord' = [coord EXCEPT ![pbatch] = @ + 1] /\ UNCHANGED <<bstat, age>>
        BY <1>3, <3>1, Frame DEF PollSend, batchVars, IInv
      <3>2. CASE FailBatch(pbatch) /\ UNCHANGED coord
        BY <1>3, <2>1, <3>2, FailBatchOK DEF PollSend, IInv
      <3> QED BY <1>3, <3>1, <3>2 DEF PollSend
    <2>3. PollOK' /\ RefreshOK'
      BY <1>3, <2>1, ReconcileReadOK DEF PollSend
    <2>4. UNCHANGED <<itemVars, jobVars, scope, coordVars, workerVars, stopVars, boundVars>>
      BY <1>3 DEF PollSend
    <2> QED BY <2>2, <2>3, <2>4, Frame DEF IInv
  <1>4. CASE PollRow
    <2>1. pbatch \in Batches /\ prows \subseteq Resumes \X (ItemStatus \ {"none"})
      BY <1>4 DEF PollRow, IInv, PollOK
    <2>2. PICK row \in prows :
             SetItem(pbatch, row[1], row[2]) /\ Reconcile(pbatch, prows \ {row})
      BY <1>4 DEF PollRow
    <2>3. row[1] \in Resumes /\ row[2] \in ItemStatus
      BY <2>1, <2>2
    <2>4. PollOK' /\ RefreshOK'
      BY <2>1, <2>2, ReconcileOK
    <2>5. UNCHANGED <<batchVars, ijob, jobVars, scope, coord, coordVars, workerVars, stopVars,
                      boundVars>>
      BY <1>4 DEF PollRow
    <2>6. ItemOK'
      BY <2>1, <2>2, <2>3, <2>5, SetItemOK
    <2> QED BY <2>4, <2>5, <2>6, Frame DEF IInv
  <1> QED BY <1>1, <1>2, <1>3, <1>4 DEF PollStep

LEMMA TickKeeps ==
  ASSUME IInv, Tick
  PROVE  IInv'
  <1>1. PICK slow \in SUBSET {b \in Batches : coord[b] > 0} :
          /\ late + Cardinality(slow) <= MaxLate
          /\ late' = late + Cardinality(slow)
          /\ age' = [b \in Batches |->
                        IF /\ bstat[b] \in Active /\ ~AtWork(b) /\ age[b] < StallTimeout
                           /\ coord[b] = 0 \/ b \in slow
                        THEN age[b] + 1 ELSE age[b]]
    BY DEF Tick
  <1>2. Cardinality(slow) \in Nat
    BY Counting
  <1>3. BatchOK'
    <2>1. age' \in [Batches -> 0..StallTimeout]
      BY <1>1, BatchAssumption DEF IInv, BatchOK
    <2> QED BY <2>1 DEF Tick, IInv, BatchOK
  <1>4. BoundOK'
    BY <1>1, <1>2, BatchAssumption DEF Tick, IInv, BoundOK
  <1>5. PollOK'
    BY BatchAssumption DEF Tick, IInv, PollOK
  <1>6. UNCHANGED <<itemVars, jobVars, scope, coord, coordVars, workerVars, refreshVars,
                    stopVars>>
    BY DEF Tick
  <1> QED BY <1>3, <1>4, <1>5, <1>6, Frame DEF IInv

LEMMA StopKeeps ==
  ASSUME IInv, StopStep \/ \E b \in Batches : StopBatch(b)
  PROVE  IInv'
  <1>1. ASSUME NEW b \in Batches, StopBatch(b) PROVE IInv'
    <2>1. BatchOK'
      <3>1. "failed" \in BatchStatus
        BY DEF BatchStatus
      <3> QED BY <1>1, <3>1, SetBatchOK DEF StopBatch
    <2>2. StopOK'
      BY <1>1 DEF StopBatch, StopOK
    <2>3. UNCHANGED <<itemVars, jobVars, scope, coord, coordVars, workerVars, refreshVars,
                      pollVars, boundVars>>
      BY <1>1 DEF StopBatch
    <2> QED BY <2>1, <2>2, <2>3, Frame DEF IInv
  <1>2. CASE StopJobs
    <2>1. JobOK'
      BY <1>2 DEF StopJobs, IInv, JobOK, JobStatus
    <2>2. StopOK'
      BY <1>2 DEF StopJobs, IInv, StopOK
    <2>3. UNCHANGED <<batchVars, itemVars, scope, coord, coordVars, workerVars, refreshVars,
                      pollVars, boundVars>>
      BY <1>2 DEF StopJobs
    <2> QED BY <2>1, <2>2, <2>3, Frame DEF IInv
  <1>3. CASE StopItems
    <2>1. ItemOK'
      BY <1>3 DEF StopItems, IInv, ItemOK, StopOK, ItemStatus, Terminal
    <2>2. StopOK'
      BY <1>3 DEF StopItems, IInv, StopOK
    <2>3. UNCHANGED <<batchVars, jobVars, scope, coord, coordVars, workerVars, refreshVars,
                      pollVars, boundVars>>
      BY <1>3 DEF StopItems
    <2> QED BY <2>1, <2>2, <2>3, Frame DEF IInv
  <1> QED BY <1>1, <1>2, <1>3 DEF StopStep

LEMMA OutsideKeeps ==
  ASSUME IInv, NEW r \in Resumes, Drift(r) \/ Alone(r)
  PROVE  IInv'
  <1>1. BoundOK'
    BY BatchAssumption DEF Drift, Alone, IInv, BoundOK
  <1>2. CASE Drift(r)
    <2>1. scope' \subseteq Resumes
      BY <1>2 DEF Drift, IInv
    <2> QED BY <1>1, <1>2, <2>1, Frame DEF Drift, IInv
  <1>3. CASE Alone(r)
    <2>1. JobOK'
      BY <1>3, JobsForRow DEF Alone, IInv, JobOK, JobStatus, Active
    <2> QED BY <1>1, <1>3, <2>1, Frame DEF Alone, IInv
  <1> QED BY <1>2, <1>3

-----------------------------------------------------------------------------
(* The invariant *)

LEMMA InitInv == Init => IInv /\ Reporting
  <1> SUFFICES ASSUME Init PROVE IInv /\ Reporting
    OBVIOUS
  <1> USE BatchAssumption DEF Init
  <1>1. BatchOK
    BY DEF BatchOK, BatchStatus
  <1>2. ItemOK
    BY DEF ItemOK, ItemStatus
  <1>3. JobOK /\ scope \subseteq Resumes /\ coord \in [Batches -> Nat]
    BY DEF JobOK, JobStatus
  <1>4. CoordOK
    BY DEF CoordOK, MidPage, ItemStatus
  <1>5. WorkerOK
    BY DEF WorkerOK
  <1>6. RefreshOK
    BY DEF RefreshOK, BatchStatus
  <1>7. PollOK /\ StopOK /\ BoundOK
    BY DEF PollOK, StopOK, BoundOK
  <1>8. Reporting
    BY DEF Reporting
  <1> QED BY <1>1, <1>2, <1>3, <1>4, <1>5, <1>6, <1>7, <1>8 DEF IInv

LEMMA StepIInv == IInv /\ Reporting /\ [Next]_vars => IInv'
  <1> SUFFICES ASSUME IInv, Reporting, [Next]_vars PROVE IInv'
    OBVIOUS
  <1>1. ASSUME NEW b \in Batches, Start(b) \/ StopBatch(b) PROVE IInv'
    BY <1>1, StartStep, StopKeeps
  <1>2. ASSUME NEW c \in Coordinators,
               CoordStep(c) \/ CoordRowError(c) \/ CoordError(c) \/ CoordCrash(c)
        PROVE  IInv'
    BY <1>2, ClaimStep, IgnoreStep, InsertStep, RowStep, EnqueueStep, GiveUpStep,
       AttachReadStep, AttachWriteStep, SendStep, RowErrorStep, SaveStep, LeaveStep
       DEF CoordStep
  <1>3. ASSUME NEW w \in Workers,
               WorkerStep(w) \/ WorkerFail(w) \/ WorkerRetry(w) \/ WorkerCrash(w)
        PROVE  IInv'
    BY <1>3, TakeStep, VerdictStep, ReportKeeps, ReportWriteKeeps, EndStep DEF WorkerStep
  <1>4. ASSUME NEW p \in Refreshers, RefreshStep(p) PROVE IInv'
    BY <1>4, RefreshKeeps
  <1>5. ASSUME NEW j \in Jobs, RecoverStale(j) PROVE IInv'
    BY <1>5, RecoverStep
  <1>6. CASE PollStep \/ StopStep \/ Tick
    BY <1>6, PollKeeps, StopKeeps, TickKeeps
  <1>7. ASSUME NEW r \in Resumes, Drift(r) \/ Alone(r) PROVE IInv'
    BY <1>7, OutsideKeeps
  <1>8. CASE UNCHANGED vars
    BY <1>8, Frame DEF vars, IInv
  <1> QED BY <1>1, <1>2, <1>3, <1>4, <1>5, <1>6, <1>7, <1>8 DEF Next

-----------------------------------------------------------------------------
(* Who writes what *)

\* A batch's state is set by its start, by a step that finds it active, or by a
\* refresh that does not find it failed; its target is set by the start only.
BatchMoves ==
    \A b \in Batches :
        /\ \/ bstat'[b] = bstat[b]
           \/ bstat[b] = "none" /\ bstat'[b] \in {"queued", "failed"}
           \/ bstat[b] \in Active /\ bstat'[b] \in {"queued", "running", "failed"}
           \/ /\ bstat[b] # "failed"
              /\ \E p \in Refreshers :
                    rpc[p] = "write" /\ rbatch[p] = b /\ bstat'[b] = rnew[p]
        /\ total'[b] = total[b] \/ bstat[b] = "none"

LEMMA SameBatches ==
  ASSUME UNCHANGED bstat, UNCHANGED total
  PROVE  BatchMoves
  BY DEF BatchMoves

LEMMA FailMoves ==
  ASSUME IInv, NEW b \in Batches, FailBatch(b), UNCHANGED total
  PROVE  BatchMoves
  BY DEF FailBatch, SetBatch, BatchMoves, IInv, BatchOK

LEMMA BatchSteps ==
  ASSUME IInv, [Next]_vars
  PROVE  BatchMoves
  <1> USE DEF batchVars
  <1>1. ASSUME NEW b \in Batches, Start(b) PROVE BatchMoves
    <2>1. /\ bstat[b] = "none"
          /\ bstat' = [bstat EXCEPT ![b] = "queued"] \/ bstat' = [bstat EXCEPT ![b] = "failed"]
          /\ total' = [total EXCEPT ![b] = Cardinality(scope)]
      BY <1>1 DEF Start, SetBatch
    <2> QED BY <2>1 DEF BatchMoves, IInv, BatchOK
  <1>2. ASSUME NEW b \in Batches, StopBatch(b) PROVE BatchMoves
    BY <1>2 DEF StopBatch, SetBatch, BatchMoves, IInv, BatchOK
  <1>3. ASSUME NEW c \in Coordinators, NEW b \in Batches, CoordClaim(c, b) PROVE BatchMoves
    BY <1>3 DEF CoordClaim, SetBatch, BatchMoves, IInv, BatchOK, Active
  <1>4. ASSUME NEW c \in Coordinators, CoordSave(c) PROVE BatchMoves
    BY <1>4 DEF CoordSave, SetBatch, BatchMoves, IInv, BatchOK, CoordOK, Active
  <1>5. ASSUME NEW c \in Coordinators, CoordComplete(c) PROVE BatchMoves
    BY <1>5 DEF CoordComplete, SetBatch, BatchMoves, IInv, BatchOK, CoordOK
  <1>6. ASSUME NEW c \in Coordinators, CoordError(c) PROVE BatchMoves
    <2>1. cbatch[c] \in Batches
      BY <1>6 DEF CoordError, IInv, CoordOK
    <2> QED BY <1>6, <2>1, FailMoves DEF CoordError
  <1>7. ASSUME NEW c \in Coordinators,
               \/ \E b \in Batches : CoordIgnore(c, b)
               \/ CoordInsert(c) \/ CoordRow(c) \/ CoordEnqueue(c) \/ CoordSkip(c)
               \/ CoordAttachRead(c) \/ CoordAttachWrite(c) \/ CoordSend(c)
               \/ CoordRowFailed(c) \/ CoordNext(c) \/ CoordRowError(c) \/ CoordCrash(c)
        PROVE  BatchMoves
    BY <1>7, SameBatches
       DEF CoordIgnore, CoordInsert, CoordRow, CoordEnqueue, CoordSkip, CoordAttachRead,
           CoordAttachWrite, CoordSend, CoordRowFailed, CoordNext, CoordRowError, CoordCrash
  <1>8. ASSUME NEW w \in Workers,
               WorkerStep(w) \/ WorkerFail(w) \/ WorkerRetry(w) \/ WorkerCrash(w)
        PROVE  BatchMoves
    BY <1>8, SameBatches
       DEF WorkerStep, WorkerClaim, WorkerIgnore, ReportStep, WorkerStop, WorkerFinish,
           ReportEnd, ReportWrite, SendBack, WorkerFail, WorkerRetry, WorkerCrash
  <1>9. ASSUME NEW p \in Refreshers, RefreshRead(p) PROVE BatchMoves
    BY <1>9, SameBatches DEF RefreshRead
  <1>10. ASSUME NEW p \in Refreshers, RefreshWrite(p) PROVE BatchMoves
    BY <1>10 DEF RefreshWrite, SetBatch, BatchMoves, IInv, BatchOK, RefreshOK
  <1>11. ASSUME NEW b \in Batches, PollStart(b) PROVE BatchMoves
    BY <1>11, SameBatches DEF PollStart
  <1>12. CASE PollRecover
    BY <1>12 DEF PollRecover, SetBatch, BatchMoves, IInv, BatchOK, PollOK
  <1>13. CASE PollSend
    <2>1. pbatch \in Batches
      BY <1>13 DEF PollSend, IInv, PollOK
    <2> QED BY <1>13, <2>1, FailMoves, SameBatches DEF PollSend
  <1>14. CASE PollRow \/ StopStep \/ Tick \/ UNCHANGED vars
    BY <1>14, SameBatches DEF PollRow, StopStep, StopJobs, StopItems, Tick, vars
  <1>15. ASSUME NEW j \in Jobs, RecoverStale(j) PROVE BatchMoves
    BY <1>15, SameBatches DEF RecoverStale
  <1>16. ASSUME NEW r \in Resumes, Drift(r) \/ Alone(r) PROVE BatchMoves
    BY <1>16, SameBatches DEF Drift, Alone
  <1> QED BY <1>1, <1>2, <1>3, <1>4, <1>5, <1>6, <1>7, <1>8, <1>9, <1>10, <1>11, <1>12,
             <1>13, <1>14, <1>15, <1>16 DEF Next, CoordStep, RefreshStep, PollStep

\* A coordinator takes a batch that is queued, and keeps it.
CoordMoves ==
    \A c \in Coordinators :
        \/ cpc'[c] = "idle"
        \/ cpc[c] # "idle" /\ cbatch'[c] = cbatch[c]
        \/ bstat[cbatch'[c]] = "queued"

LEMMA NextRowMoves ==
  ASSUME NEW c \in Coordinators, MidPage(c), NextRow(c), IInv
  PROVE  CoordMoves
  BY DEF NextRow, GoCoord, MidPage, CoordMoves, IInv, CoordOK

LEMMA LeaveMoves ==
  ASSUME NEW c \in Coordinators, Leave(c), IInv
  PROVE  CoordMoves
  BY DEF Leave, CoordMoves, IInv, CoordOK

LEMMA CoordSteps ==
  ASSUME IInv, [Next]_vars
  PROVE  CoordMoves
  <1>1. CASE UNCHANGED coordVars
    BY <1>1 DEF coordVars, CoordMoves
  <1>2. ASSUME NEW c \in Coordinators, NEW b \in Batches, CoordClaim(c, b) PROVE CoordMoves
    BY <1>2 DEF CoordClaim, GoCoord, CoordMoves, IInv, CoordOK
  <1>3. ASSUME NEW c \in Coordinators,
               \/ CoordInsert(c) \/ CoordEnqueue(c) \/ CoordAttachRead(c)
               \/ CoordAttachWrite(c) \/ CoordRowError(c) \/ CoordSave(c)
        PROVE  CoordMoves
    <2>1. cpc[c] # "idle" /\ UNCHANGED cbatch /\ \E pc : GoCoord(c, pc)
      BY <1>3 DEF CoordInsert, CoordEnqueue, CoordAttachRead, CoordAttachWrite,
                  CoordRowError, CoordSave
    <2> QED BY <2>1 DEF GoCoord, CoordMoves, IInv, CoordOK
  <1>4. ASSUME NEW c \in Coordinators,
               CoordRow(c) \/ CoordSkip(c) \/ CoordSend(c) \/ CoordRowFailed(c)
        PROVE  CoordMoves
    <2>1. MidPage(c)
      BY <1>4 DEF CoordRow, CoordSkip, CoordSend, CoordRowFailed, MidPage
    <2>2. CASE NextRow(c)
      BY <2>1, <2>2, NextRowMoves
    <2>3. CASE GoCoord(c, "enqueue") /\ UNCHANGED cbatch
      BY <2>1, <2>3 DEF GoCoord, MidPage, CoordMoves, IInv, CoordOK
    <2> QED BY <1>4, <2>2, <2>3 DEF CoordRow, CoordSkip, CoordSend, CoordRowFailed
  <1>5. ASSUME NEW c \in Coordinators,
               CoordNext(c) \/ CoordComplete(c) \/ CoordError(c) \/ CoordCrash(c)
        PROVE  CoordMoves
    BY <1>5, LeaveMoves DEF CoordNext, CoordComplete, CoordError, CoordCrash
  <1>6. ASSUME NEW b \in Batches, Start(b) \/ StopBatch(b) PROVE UNCHANGED coordVars
    BY <1>6 DEF Start, StopBatch
  <1>7. ASSUME NEW c \in Coordinators, NEW b \in Batches, CoordIgnore(c, b)
        PROVE  UNCHANGED coordVars
    BY <1>7 DEF CoordIgnore
  <1>8. ASSUME NEW w \in Workers,
               WorkerStep(w) \/ WorkerFail(w) \/ WorkerRetry(w) \/ WorkerCrash(w)
        PROVE  UNCHANGED coordVars
    BY <1>8 DEF WorkerStep, WorkerClaim, WorkerIgnore, ReportStep, WorkerStop, WorkerFinish,
                ReportEnd, ReportWrite, SendBack, WorkerFail, WorkerRetry, WorkerCrash
  <1>9. ASSUME NEW p \in Refreshers, RefreshStep(p) PROVE UNCHANGED coordVars
    BY <1>9 DEF RefreshStep, RefreshRead, RefreshWrite
  <1>10. CASE PollStep \/ StopStep \/ Tick \/ UNCHANGED vars
    BY <1>1, <1>10 DEF PollStep, PollStart, PollRecover, PollSend, PollRow, StopStep,
                StopJobs, StopItems, Tick, vars
  <1>11. ASSUME NEW j \in Jobs, RecoverStale(j) PROVE UNCHANGED coordVars
    BY <1>11 DEF RecoverStale
  <1>12. ASSUME NEW r \in Resumes, Drift(r) \/ Alone(r) PROVE UNCHANGED coordVars
    BY <1>12 DEF Drift, Alone
  <1> QED BY <1>1, <1>2, <1>3, <1>4, <1>5, <1>6, <1>7, <1>8, <1>9, <1>10, <1>11, <1>12
          DEF Next, CoordStep

\* Everything that is under way is about a batch that was started.
Begun ==
    /\ \A c \in Coordinators : cpc[c] # "idle" => bstat[cbatch[c]] # "none"
    /\ \A p \in Refreshers : rpc[p] # "off" => bstat[rbatch[p]] # "none"
    /\ \A w \in Workers : wpc[w] = "write" => bstat[rbatch[w]] # "none"
    /\ ppc # "idle" => bstat[pbatch] # "none"
    /\ \A b \in Batches, r \in Resumes :
          istat[b][r] # "none" \/ ijob[b][r] # NoJob => bstat[b] # "none"

\* A refresh that is going to complete a batch has seen as many items as the
\* batch started with.
Enough(b) == Cardinality(Items(b)) >= total[b]
Counted ==
    \A p \in Refreshers : rpc[p] = "write" /\ rnew[p] = "completed" => Enough(rbatch[p])

BInv == IInv /\ Reporting /\ Begun /\ Counted

Started(b) == b \in Batches /\ bstat[b] # "none"

\* A refresh starts on a batch that was started, and concludes from its items.
RefreshMoves ==
    \A p \in Refreshers :
        \/ rpc'[p] = "off"
        \/ rpc[p] # "off" /\ rpc'[p] = rpc[p] /\ rbatch'[p] = rbatch[p] /\ rnew'[p] = rnew[p]
        \/ /\ rpc[p] = "read" /\ rpc'[p] = "write" /\ rbatch'[p] = rbatch[p]
           /\ rnew'[p] = Outcome(rbatch[p])
        \/ rpc'[p] = "read" /\ Started(rbatch'[p])

\* A consumer reports while it refreshes nothing.
ReportMoves ==
    \A w \in Workers : wpc'[w] \in {"report", "write"} =>
        /\ rpc'[w] = "off"
        /\ wpc'[w] = "write" => Started(rbatch'[w])

LEMMA SameRefreshes ==
  ASSUME UNCHANGED refreshVars, UNCHANGED workerVars, BInv
  PROVE  RefreshMoves /\ ReportMoves
  <1>1. RefreshMoves
    BY DEF refreshVars, RefreshMoves
  <1>2. ReportMoves
    BY DEF refreshVars, workerVars, ReportMoves, BInv, Reporting, Begun, Started
  <1> QED BY <1>1, <1>2

\* A refresh that starts, by somebody who is not about to report.
LEMMA DueMoves ==
  ASSUME BInv, NEW p \in Refreshers, NEW b, Started(b),
         rpc' = [rpc EXCEPT ![p] = "read"], rbatch' = [rbatch EXCEPT ![p] = b],
         UNCHANGED rnew
  PROVE  /\ RefreshMoves
         /\ (p \notin Workers \/ wpc'[p] \notin {"report", "write"})
               /\ (\A w \in Workers : w # p => wpc'[w] = wpc[w]) => ReportMoves
  <1>0. rpc \in [Refreshers -> {"off", "read", "write"}]
        /\ rbatch \in [Refreshers -> Batches \cup {NoBatch}]
        /\ Workers \subseteq Refreshers
    BY DEF BInv, IInv, RefreshOK, Refreshers
  <1>1. RefreshMoves
    BY <1>0 DEF RefreshMoves, Started
  <1>2. ASSUME p \notin Workers \/ wpc'[p] \notin {"report", "write"},
               \A w \in Workers : w # p => wpc'[w] = wpc[w]
        PROVE  ReportMoves
    BY <1>0, <1>2 DEF ReportMoves, BInv, Reporting, Begun, Started
  <1> QED BY <1>1, <1>2

LEMMA DoneMoves ==
  ASSUME BInv, NEW p \in Refreshers, RefreshDone(p),
         p \notin Workers \/ wpc'[p] \notin {"report", "write"},
         \A w \in Workers : w # p => wpc'[w] = wpc[w]
  PROVE  RefreshMoves /\ ReportMoves
  <1>0. rpc \in [Refreshers -> {"off", "read", "write"}]
        /\ rbatch \in [Refreshers -> Batches \cup {NoBatch}]
        /\ rnew \in [Refreshers -> BatchStatus]
        /\ Workers \subseteq Refreshers
    BY DEF BInv, IInv, RefreshOK, Refreshers
  <1>1. RefreshMoves
    BY <1>0 DEF RefreshDone, RefreshMoves
  <1>2. ReportMoves
    BY <1>0 DEF RefreshDone, ReportMoves, BInv, Reporting, Begun, Started
  <1> QED BY <1>1, <1>2

\* A consumer that refreshes nothing moves on to anything but a write.
LEMMA QuietMoves ==
  ASSUME BInv, NEW w \in Workers, NEW pc, wpc' = [wpc EXCEPT ![w] = pc], pc # "write",
         rpc[w] = "off" \/ pc # "report", UNCHANGED refreshVars
  PROVE  RefreshMoves /\ ReportMoves
  <1>1. RefreshMoves
    BY DEF refreshVars, RefreshMoves
  <1>2. ReportMoves
    BY DEF refreshVars, ReportMoves, BInv, IInv, WorkerOK, Reporting, Begun, Started
  <1> QED BY <1>1, <1>2

\* One that writes has chosen the batch of an item it has seen.
LEMMA ReportToMoves ==
  ASSUME BInv, NEW w \in Workers, NEW b \in Batches, ReportTo(w, b), rpc[w] = "off",
         wpc[w] # "idle", UNCHANGED <<rpc, rnew>>
  PROVE  RefreshMoves /\ ReportMoves
  <1>1. Started(b)
    <2>1. istat[b][wjob[w][1]] # "none"
      BY DEF ReportTo, ItemSeen, Unfinished, Active
    <2> QED BY <2>1, Busy DEF BInv, Begun, Started
  <1>2. /\ rbatch' = [rbatch EXCEPT ![w] = b] /\ wpc' = [wpc EXCEPT ![w] = "write"]
        /\ w \in Refreshers /\ Workers \subseteq Refreshers
    BY DEF ReportTo, GoWorker, Refreshers
  <1>3. RefreshMoves
    BY <1>2 DEF RefreshMoves, BInv, IInv, RefreshOK
  <1>4. ReportMoves
    BY <1>1, <1>2 DEF ReportMoves, BInv, IInv, RefreshOK, WorkerOK, Reporting, Begun, Started
  <1> QED BY <1>3, <1>4

LEMMA ReconcileMoves ==
  ASSUME BInv, NEW b, Started(b), NEW rows, Reconcile(b, rows), UNCHANGED workerVars
  PROVE  RefreshMoves /\ ReportMoves
  <1>1. Poll \in Refreshers /\ Poll \notin Workers
    BY ProcessAssumption DEF Refreshers
  <1>2. CASE rows # {}
    BY <1>2, SameRefreshes DEF Reconcile, refreshVars
  <1>3. CASE rows = {}
    BY <1>1, <1>3, DueMoves DEF Reconcile, workerVars
  <1> QED BY <1>2, <1>3

LEMMA RefreshSteps ==
  ASSUME BInv, [Next]_vars
  PROVE  RefreshMoves /\ ReportMoves
  <1>1. ASSUME NEW b \in Batches, Start(b) \/ StopBatch(b)
        PROVE  RefreshMoves /\ ReportMoves
    BY <1>1, SameRefreshes DEF Start, StopBatch
  <1>2. ASSUME NEW c \in Coordinators,
               \/ \E b \in Batches : CoordClaim(c, b) \/ CoordIgnore(c, b)
               \/ CoordInsert(c) \/ CoordRow(c) \/ CoordEnqueue(c) \/ CoordSkip(c)
               \/ CoordAttachRead(c) \/ CoordAttachWrite(c) \/ CoordSend(c)
               \/ CoordRowFailed(c) \/ CoordSave(c) \/ CoordNext(c) \/ CoordRowError(c)
               \/ CoordError(c) \/ CoordCrash(c)
        PROVE  RefreshMoves /\ ReportMoves
    BY <1>2, SameRefreshes
       DEF CoordClaim, CoordIgnore, CoordInsert, CoordRow, CoordEnqueue, CoordSkip,
           CoordAttachRead, CoordAttachWrite, CoordSend, CoordRowFailed, CoordSave,
           CoordNext, CoordRowError, CoordError, CoordCrash
  <1>3. ASSUME NEW c \in Coordinators, CoordComplete(c) PROVE RefreshMoves /\ ReportMoves
    <2>1. Started(cbatch[c]) /\ c \in Refreshers /\ c \notin Workers
      BY <1>3, ProcessAssumption
         DEF CoordComplete, BInv, IInv, CoordOK, Begun, Started, Refreshers
    <2> QED BY <1>3, <2>1, DueMoves DEF CoordComplete, workerVars
  <1>4. ASSUME NEW w \in Workers, NEW j \in Jobs, WorkerClaim(w, j)
        PROVE  RefreshMoves /\ ReportMoves
    BY <1>4, QuietMoves DEF WorkerClaim, GoWorker
  <1>5. ASSUME NEW w \in Workers, NEW j \in Jobs, WorkerIgnore(w, j)
        PROVE  RefreshMoves /\ ReportMoves
    BY <1>5, SameRefreshes DEF WorkerIgnore
  <1>6. ASSUME NEW w \in Workers, WorkerStop(w) \/ SendBack(w)
        PROVE  RefreshMoves /\ ReportMoves
    BY <1>6, QuietMoves DEF WorkerStop, SendBack, Settle
  <1>7. ASSUME NEW w \in Workers, WorkerFinish(w) \/ WorkerFail(w) \/ WorkerRetry(w)
        PROVE  RefreshMoves /\ ReportMoves
    BY <1>7, QuietMoves DEF WorkerFinish, WorkerFail, WorkerRetry, GoReport, GoWorker
  <1>8. ASSUME NEW w \in Workers, ReportStep(w) PROVE RefreshMoves /\ ReportMoves
    <2>1. CASE \E b \in Batches : ReportTo(w, b)
      BY <1>8, <2>1, ReportToMoves DEF ReportStep
    <2>2. CASE UNCHANGED <<wpc, rbatch>>
      <3>1. UNCHANGED refreshVars
        BY <1>8, <2>2 DEF ReportStep, refreshVars
      <3>2. RefreshMoves
        BY <3>1 DEF RefreshMoves, refreshVars
      <3>3. ReportMoves
        BY <2>2, <3>1 DEF ReportMoves, refreshVars, BInv, Reporting, Begun, Started
      <3> QED BY <3>2, <3>3
    <2> QED BY <1>8, <2>1, <2>2 DEF ReportStep
  <1>9. ASSUME NEW w \in Workers, ReportEnd(w) PROVE RefreshMoves /\ ReportMoves
    <2>1. rpc[w] = "off"
      BY <1>9 DEF ReportEnd, BInv, Reporting
    <2>2. CASE \E b \in Batches : ReportTo(w, b)
      BY <1>9, <2>1, <2>2, ReportToMoves DEF ReportEnd
    <2>3. CASE AfterReport(w) /\ UNCHANGED rbatch
      <3>1. PICK pc \in {"idle", "work", "retry"} : wpc' = [wpc EXCEPT ![w] = pc]
        BY <2>3 DEF AfterReport, GoWorker, Settle
      <3> QED BY <1>9, <2>3, <3>1, QuietMoves DEF ReportEnd, refreshVars
    <2> QED BY <1>9, <2>2, <2>3 DEF ReportEnd
  <1>10. ASSUME NEW w \in Workers, ReportWrite(w) PROVE RefreshMoves /\ ReportMoves
    <2>1. PICK pc \in {"idle", "work", "retry"} : wpc' = [wpc EXCEPT ![w] = pc]
      BY <1>10 DEF ReportWrite, AfterReport, GoWorker, Settle
    <2>2. Started(rbatch[w]) /\ w \in Refreshers
      BY <1>10 DEF ReportWrite, BInv, Reporting, Begun, Started, Refreshers
    <2>3. /\ rbatch' = [rbatch EXCEPT ![w] = rbatch[w]] /\ wpc'[w] \notin {"report", "write"}
          /\ \A v \in Workers : v # w => wpc'[v] = wpc[v]
      BY <1>10, <2>1 DEF ReportWrite, BInv, IInv, RefreshOK, WorkerOK
    <2> QED BY <1>10, <2>1, <2>2, <2>3, DueMoves DEF ReportWrite
  <1>11. ASSUME NEW w \in Workers, WorkerCrash(w) PROVE RefreshMoves /\ ReportMoves
    <2>1. wpc' = [wpc EXCEPT ![w] = "idle"] /\ w \in Refreshers
      BY <1>11 DEF WorkerCrash, Settle, Refreshers
    <2> QED BY <1>11, <2>1, DoneMoves DEF WorkerCrash, BInv, IInv, WorkerOK
  <1>12. ASSUME NEW p \in Refreshers, RefreshRead(p) PROVE RefreshMoves /\ ReportMoves
    <2>1. CASE RefreshDone(p)
      <3>1. UNCHANGED wpc /\ (p \in Workers => wpc[p] \notin {"report", "write"})
        BY <1>12 DEF RefreshRead, BInv, Reporting, workerVars
      <3> QED BY <2>1, <3>1, DoneMoves
    <2>2. CASE /\ rnew' = [rnew EXCEPT ![p] = Outcome(rbatch[p])]
               /\ rpc' = [rpc EXCEPT ![p] = "write"]
               /\ UNCHANGED rbatch
      <3>1. RefreshMoves
        BY <1>12, <2>2 DEF RefreshRead, RefreshMoves, BInv, IInv, RefreshOK
      <3>2. ReportMoves
        BY <1>12, <2>2 DEF RefreshRead, ReportMoves, BInv, IInv, RefreshOK, Reporting, Begun,
           Started, Refreshers, workerVars
      <3> QED BY <3>1, <3>2
    <2> QED BY <1>12, <2>1, <2>2 DEF RefreshRead
  <1>13. ASSUME NEW p \in Refreshers, RefreshWrite(p) PROVE RefreshMoves /\ ReportMoves
    <2>1. UNCHANGED wpc /\ (p \in Workers => wpc[p] \notin {"report", "write"})
      BY <1>13 DEF RefreshWrite, BInv, Reporting, workerVars
    <2> QED BY <1>13, <2>1, DoneMoves DEF RefreshWrite
  <1>14. CASE PollStep
    <2>1. ASSUME NEW b \in Batches, PollStart(b) PROVE RefreshMoves /\ ReportMoves
      <3>1. Started(b)
        BY <2>1 DEF PollStart, Started, Active
      <3> QED BY <2>1, <3>1, ReconcileMoves, SameRefreshes DEF PollStart, ReconcileRead
    <2>2. CASE PollRecover \/ PollSend \/ PollRow
      <3>1. Started(pbatch)
        BY <2>2 DEF PollRecover, PollSend, PollRow, BInv, IInv, PollOK, Begun, Started
      <3> QED BY <2>2, <3>1, ReconcileMoves, SameRefreshes
              DEF PollRecover, PollSend, PollRow, ReconcileRead
    <2> QED BY <1>14, <2>1, <2>2 DEF PollStep
  <1>15. CASE StopStep \/ Tick \/ UNCHANGED vars
    BY <1>15, SameRefreshes DEF StopStep, StopJobs, StopItems, Tick, vars
  <1>16. ASSUME NEW j \in Jobs, RecoverStale(j) PROVE RefreshMoves /\ ReportMoves
    BY <1>16, SameRefreshes DEF RecoverStale
  <1>17. ASSUME NEW r \in Resumes, Drift(r) \/ Alone(r) PROVE RefreshMoves /\ ReportMoves
    BY <1>17, SameRefreshes DEF Drift, Alone
  <1> QED BY <1>1, <1>2, <1>3, <1>4, <1>5, <1>6, <1>7, <1>8, <1>9, <1>10, <1>11, <1>12,
             <1>13, <1>14, <1>15, <1>16, <1>17
          DEF Next, CoordStep, WorkerStep, RefreshStep

\* An item stays once it is there, and is made for a batch that was started.
ItemMoves ==
    \A b \in Batches, r \in Resumes :
        /\ istat[b][r] # "none" => istat'[b][r] # "none"
        /\ istat'[b][r] # "none" => istat[b][r] # "none" \/ bstat[b] # "none"
        /\ ijob'[b][r] # NoJob => ijob[b][r] # NoJob \/ bstat[b] # "none"

LEMMA SameItems ==
  ASSUME UNCHANGED <<istat, ijob>>
  PROVE  ItemMoves
  BY DEF ItemMoves

LEMMA SetItemMoves ==
  ASSUME IInv, NEW b \in Batches, NEW r \in Resumes, NEW s, SetItem(b, r, s), s # "none",
         bstat[b] # "none", UNCHANGED ijob
  PROVE  ItemMoves
  BY DEF SetItem, ItemMoves, IInv, ItemOK

LEMMA ItemSteps ==
  ASSUME IInv, Begun, [Next]_vars
  PROVE  ItemMoves
  <1> USE DEF itemVars
  <1>1. ASSUME NEW b \in Batches, Start(b) \/ StopBatch(b) PROVE ItemMoves
    BY <1>1, SameItems DEF Start, StopBatch
  <1>2. ASSUME NEW c \in Coordinators,
               \/ \E b \in Batches : CoordClaim(c, b) \/ CoordIgnore(c, b)
               \/ CoordRow(c) \/ CoordEnqueue(c) \/ CoordAttachRead(c) \/ CoordSend(c)
               \/ CoordSave(c) \/ CoordNext(c) \/ CoordComplete(c) \/ CoordRowError(c)
               \/ CoordError(c) \/ CoordCrash(c)
        PROVE  ItemMoves
    BY <1>2, SameItems
       DEF CoordClaim, CoordIgnore, CoordRow, CoordEnqueue, CoordAttachRead, CoordSend,
           CoordSave, CoordNext, CoordComplete, CoordRowError, CoordError, CoordCrash
  <1>3. ASSUME NEW c \in Coordinators, CoordInsert(c) PROVE ItemMoves
    <2>1. cbatch[c] \in Batches /\ bstat[cbatch[c]] # "none"
      BY <1>3 DEF CoordInsert, IInv, CoordOK, Begun
    <2> QED BY <1>3, <2>1 DEF CoordInsert, ItemMoves, IInv, ItemOK
  <1>4. ASSUME NEW c \in Coordinators, CoordSkip(c) \/ CoordRowFailed(c) PROVE ItemMoves
    <2>1. MidPage(c) /\ bstat[cbatch[c]] # "none" /\ UNCHANGED ijob
      BY <1>4 DEF CoordSkip, CoordRowFailed, MidPage, Begun
    <2> QED BY <1>4, <2>1, AtRow, SetItemMoves DEF CoordSkip, CoordRowFailed
  <1>14. ASSUME NEW c \in Coordinators, CoordAttachWrite(c) PROVE ItemMoves
    <2>1. MidPage(c) /\ bstat[cbatch[c]] # "none"
      BY <1>14 DEF CoordAttachWrite, MidPage, Begun
    <2>2. cbatch[c] \in Batches /\ crow[c] \in Resumes
      BY <2>1, AtRow
    <2>3. \A b \in Batches, r \in Resumes :
             ijob'[b][r] = ijob[b][r] \/ b = cbatch[c]
      BY <1>14, <2>2 DEF CoordAttachWrite, IInv, ItemOK
    <2>4. \A b \in Batches, r \in Resumes :
             \/ istat'[b][r] = istat[b][r]
             \/ b = cbatch[c] /\ istat'[b][r] # "none"
      <3>1. CASE istat' = istat
        BY <3>1
      <3>2. CASE cput[c] # "none" /\ SetItem(cbatch[c], crow[c], cput[c])
        BY <2>2, <3>2 DEF SetItem, IInv, ItemOK
      <3> QED BY <1>14, <3>1, <3>2 DEF CoordAttachWrite
    <2> QED BY <2>1, <2>3, <2>4 DEF ItemMoves
  <1>5. ASSUME NEW w \in Workers,
               \/ \E j \in Jobs : WorkerClaim(w, j) \/ WorkerIgnore(w, j)
               \/ ReportStep(w) \/ WorkerStop(w) \/ WorkerFinish(w) \/ ReportEnd(w)
               \/ SendBack(w) \/ WorkerFail(w) \/ WorkerRetry(w) \/ WorkerCrash(w)
        PROVE  ItemMoves
    BY <1>5, SameItems
       DEF WorkerClaim, WorkerIgnore, ReportStep, WorkerStop, WorkerFinish, ReportEnd,
           SendBack, WorkerFail, WorkerRetry, WorkerCrash
  <1>6. ASSUME NEW w \in Workers, ReportWrite(w) PROVE ItemMoves
    <2>1. wjob[w] \in Jobs /\ wjob[w][1] \in Resumes
      BY <1>6, Busy DEF ReportWrite
    <2>2. \A b \in ItemsOf(wjob[w]) : b \in Batches /\ bstat[b] # "none"
      BY <2>1, ProcessAssumption DEF ItemsOf, Begun
    <2>3. wnews[w] # "none"
      BY <1>6 DEF ReportWrite, IInv, WorkerOK
    <2>4. \A b \in Batches, r \in Resumes :
             \/ istat'[b][r] = istat[b][r]
             \/ b \in ItemsOf(wjob[w]) /\ istat'[b][r] = wnews[w]
      BY <1>6, <2>1 DEF ReportWrite, IInv, ItemOK
    <2> QED BY <1>6, <2>2, <2>3, <2>4 DEF ReportWrite, ItemMoves
  <1>7. ASSUME NEW p \in Refreshers, RefreshStep(p) PROVE ItemMoves
    BY <1>7, SameItems DEF RefreshStep, RefreshRead, RefreshWrite
  <1>8. ASSUME NEW b \in Batches, PollStart(b) PROVE ItemMoves
    BY <1>8, SameItems DEF PollStart
  <1>9. CASE PollRow
    <2>1. PICK row \in prows : SetItem(pbatch, row[1], row[2])
      BY <1>9 DEF PollRow
    <2>2. /\ pbatch \in Batches /\ bstat[pbatch] # "none" /\ UNCHANGED ijob
          /\ row[1] \in Resumes /\ row[2] # "none"
      BY <1>9, <2>1 DEF PollRow, IInv, PollOK, Begun
    <2> QED BY <2>1, <2>2, SetItemMoves
  <1>10. CASE PollRecover \/ PollSend \/ StopJobs \/ Tick \/ UNCHANGED vars
    BY <1>10, SameItems DEF PollRecover, PollSend, StopJobs, Tick, vars
  <1>11. CASE StopItems
    BY <1>11 DEF StopItems, ItemMoves, IInv, ItemOK, StopOK, Unfinished, Active
  <1>12. ASSUME NEW j \in Jobs, RecoverStale(j) PROVE ItemMoves
    BY <1>12, SameItems DEF RecoverStale
  <1>13. ASSUME NEW r \in Resumes, Drift(r) \/ Alone(r) PROVE ItemMoves
    BY <1>13, SameItems DEF Drift, Alone
  <1> QED BY <1>1, <1>2, <1>3, <1>4, <1>5, <1>6, <1>7, <1>8, <1>9, <1>10, <1>11, <1>12, <1>13,
             <1>14
          DEF Next, CoordStep, WorkerStep, PollStep, StopStep

\* The poll is about a batch it found active.
LEMMA PollSteps ==
  ASSUME [Next]_vars
  PROVE  ppc' # "idle" => (ppc # "idle" /\ pbatch' = pbatch) \/ bstat[pbatch'] # "none"
  <1> DEFINE Moves == ppc' # "idle" => (ppc # "idle" /\ pbatch' = pbatch) \/ bstat[pbatch'] # "none"
  <1>1. CASE UNCHANGED <<ppc, pbatch>>
    BY <1>1
  <1>2. ASSUME NEW b \in Batches, Start(b) \/ StopBatch(b) PROVE UNCHANGED <<ppc, pbatch>>
    BY <1>2 DEF Start, StopBatch, pollVars
  <1>3. ASSUME NEW c \in Coordinators,
               CoordStep(c) \/ CoordRowError(c) \/ CoordError(c) \/ CoordCrash(c)
        PROVE  UNCHANGED <<ppc, pbatch>>
    BY <1>3 DEF CoordStep, CoordClaim, CoordIgnore, CoordInsert, CoordRow, CoordEnqueue,
           CoordSkip, CoordAttachRead, CoordAttachWrite, CoordSend, CoordRowFailed, CoordSave,
           CoordNext, CoordComplete, CoordRowError, CoordError, CoordCrash, pollVars
  <1>4. ASSUME NEW w \in Workers,
               WorkerStep(w) \/ WorkerFail(w) \/ WorkerRetry(w) \/ WorkerCrash(w)
        PROVE  UNCHANGED <<ppc, pbatch>>
    BY <1>4 DEF WorkerStep, WorkerClaim, WorkerIgnore, ReportStep, WorkerStop, WorkerFinish,
           ReportEnd, ReportWrite, SendBack, WorkerFail, WorkerRetry, WorkerCrash, pollVars
  <1>5. ASSUME NEW p \in Refreshers, RefreshStep(p) PROVE UNCHANGED <<ppc, pbatch>>
    BY <1>5 DEF RefreshStep, RefreshRead, RefreshWrite, pollVars
  <1>6. ASSUME NEW b \in Batches, PollStart(b) PROVE Moves
    BY <1>6 DEF PollStart, ReconcileRead, Reconcile, Active
  <1>7. CASE PollRecover \/ PollSend \/ PollRow
    BY <1>7 DEF PollRecover, PollSend, PollRow, ReconcileRead, Reconcile
  <1>8. CASE StopStep \/ Tick \/ UNCHANGED vars
    BY <1>8 DEF StopStep, StopJobs, StopItems, Tick, vars, pollVars
  <1>9. ASSUME NEW j \in Jobs, RecoverStale(j) PROVE UNCHANGED <<ppc, pbatch>>
    BY <1>9 DEF RecoverStale, pollVars
  <1>10. ASSUME NEW r \in Resumes, Drift(r) \/ Alone(r) PROVE UNCHANGED <<ppc, pbatch>>
    BY <1>10 DEF Drift, Alone, pollVars
  <1> QED BY <1>1, <1>2, <1>3, <1>4, <1>5, <1>6, <1>7, <1>8, <1>9, <1>10 DEF Next, PollStep

-----------------------------------------------------------------------------
(* The theorems about batches *)

LEMMA InitBInv == Init => BInv
  <1>1. Init => Begun /\ Counted
    BY DEF Init, Begun, Counted
  <1> QED BY <1>1, InitInv DEF BInv

LEMMA StepBInv ==
  ASSUME BInv, [Next]_vars
  PROVE  BInv'
  <1>1. IInv'
    BY StepIInv DEF BInv
  <1>2. BatchMoves /\ CoordMoves /\ RefreshMoves /\ ReportMoves /\ ItemMoves
    BY BatchSteps, CoordSteps, RefreshSteps, ItemSteps DEF BInv
  <1>3. ASSUME NEW b \in Batches, bstat[b] # "none"
        PROVE  bstat'[b] # "none" /\ total'[b] = total[b]
    <2>1. \A p \in Refreshers : rpc[p] = "write" => rnew[p] # "none"
      BY DEF BInv, IInv, RefreshOK
    <2> QED BY <1>2, <1>3, <2>1 DEF BatchMoves
  <1>4. Reporting'
    BY <1>2, <1>3 DEF ReportMoves, Reporting, Started
  <1>5. Begun'
    <2>1. \A c \in Coordinators : cpc'[c] # "idle" => bstat'[cbatch'[c]] # "none"
      BY <1>1, <1>2, <1>3 DEF CoordMoves, BInv, Begun, IInv, CoordOK
    <2>2. \A p \in Refreshers : rpc'[p] # "off" => bstat'[rbatch'[p]] # "none"
      BY <1>1, <1>2, <1>3 DEF RefreshMoves, Started, BInv, Begun, IInv, RefreshOK
    <2>3. \A w \in Workers : wpc'[w] = "write" => bstat'[rbatch'[w]] # "none"
      BY <1>2, <1>3 DEF ReportMoves, Started
    <2>4. ppc' # "idle" => bstat'[pbatch'] # "none"
      BY <1>1, <1>3, PollSteps DEF BInv, Begun, IInv, PollOK
    <2>5. \A b \in Batches, r \in Resumes :
             istat'[b][r] # "none" \/ ijob'[b][r] # NoJob => bstat'[b] # "none"
      BY <1>2, <1>3 DEF ItemMoves, BInv, Begun
    <2> QED BY <2>1, <2>2, <2>3, <2>4, <2>5 DEF Begun
  <1>6. Counted'
    <2> SUFFICES ASSUME NEW p \in Refreshers, rpc'[p] = "write", rnew'[p] = "completed"
                 PROVE  Enough(rbatch[p])' /\ rbatch'[p] = rbatch[p]
      BY DEF Counted, Enough, Items
    <2>1. /\ rbatch'[p] = rbatch[p] /\ rpc[p] # "off"
          /\ \/ rpc[p] = "write" /\ rnew[p] = "completed"
             \/ Outcome(rbatch[p]) = "completed"
      BY <1>2 DEF RefreshMoves
    <2>2. rbatch[p] \in Batches /\ bstat[rbatch[p]] # "none"
      BY <2>1 DEF BInv, Begun, IInv, RefreshOK
    <2>3. Enough(rbatch[p])
      <3>1. CASE rpc[p] = "write" /\ rnew[p] = "completed"
        BY <3>1 DEF BInv, Counted
      <3>2. CASE Outcome(rbatch[p]) = "completed"
        BY <3>2 DEF Outcome, AllDone, Enough
      <3> QED BY <2>1, <3>1, <3>2
    <2>4. total'[rbatch[p]] = total[rbatch[p]] /\ total[rbatch[p]] \in Nat
      BY <1>3, <2>2, BatchAssumption DEF BInv, IInv, BatchOK
    <2> DEFINE before == Items(rbatch[p])
               after == {r \in Resumes : istat'[rbatch[p]][r] # "none"}
    <2>5. after \in SUBSET Resumes /\ before \in SUBSET after
      BY <1>2, <2>2 DEF ItemMoves, Items
    <2>6. Cardinality(before) <= Cardinality(after)
          /\ Cardinality(before) \in Nat /\ Cardinality(after) \in Nat
      <3>1. before \in SUBSET Resumes
        BY DEF Items
      <3> HIDE DEF before, after
      <3> QED BY <2>5, <3>1, Counting
    <2>7. Cardinality(after) >= total'[rbatch[p]]
      BY <2>3, <2>4, <2>6 DEF Enough
    <2> QED BY <2>1, <2>7 DEF Enough, Items
  <1> QED BY <1>1, <1>4, <1>5, <1>6 DEF BInv

\* Every variable of the batches keeps its type.
THEOREM BatchTypes == Spec => []TypeOK
  <1>1. BInv /\ UNCHANGED vars => BInv'
    BY StepBInv
  <1>2. BInv => TypeOK
    BY IInvTypes DEF BInv
  <1> QED BY <1>1, <1>2, InitBInv, StepBInv, PTL DEF Spec

\* A batch that failed or was stopped is not revived: what a refresh, a save, a
\* completion or the recovery writes depends on the batch being found active, or
\* at least not failed, by the statement that writes.
THEOREM BatchStoppedStays == Spec => StoppedStaysStopped
  <1>1. ASSUME BInv, [Next]_vars
        PROVE  \A b \in Batches : bstat[b] = "failed" => bstat'[b] = "failed"
    BY <1>1, BatchSteps DEF BatchMoves, Active, BInv
  <1> QED BY <1>1, InitBInv, StepBInv, PTL DEF Spec, StoppedStaysStopped

\* A batch is declared completed only with as many items as it started with,
\* however long ago the refresh that does it counted them.
THEOREM BatchReachesTarget == Spec => CompletedReachesTarget
  <1>1. ASSUME BInv, [Next]_vars
        PROVE  \A b \in Batches : bstat[b] # "completed" /\ bstat'[b] = "completed" =>
                  Cardinality(Items(b)) >= total[b]
    <2> SUFFICES ASSUME NEW b \in Batches, bstat[b] # "completed", bstat'[b] = "completed"
                 PROVE  Cardinality(Items(b)) >= total[b]
      OBVIOUS
    <2>1. PICK p \in Refreshers : rpc[p] = "write" /\ rbatch[p] = b /\ rnew[p] = "completed"
      BY <1>1, BatchSteps DEF BatchMoves, BInv
    <2> QED BY <1>1, <2>1 DEF BInv, Counted, Enough
  <1> QED BY <1>1, InitBInv, StepBInv, PTL DEF Spec, CompletedReachesTarget

-----------------------------------------------------------------------------
(* Items reported completed, as long as nobody stops a batch *)

\* The consumer has the job in hand, in a report that it runs too.
Doing(w) == wpc[w] = "work" \/ (wpc[w] = "write" /\ wnews[w] = "running")
Done(r) == \E j \in Jobs : j[1] = r /\ jstat[j] = "completed"

\* A consumer at work is the only one on its job, which is running.
OneAtWork ==
    \A w \in Workers : Doing(w) =>
        /\ jstat[wjob[w]] = "running"
        /\ \A v \in Workers : Doing(v) /\ wjob[v] = wjob[w] => v = w

\* Whoever is about to report, copy or attach "completed" has a completed job.
Truthful ==
    /\ \A w \in Workers : wpc[w] \in {"report", "write"} /\ wnews[w] = "completed" =>
          jstat[wjob[w]] = "completed"
    /\ \A c \in Coordinators : cpc[c] = "write" /\ cput[c] = "completed" =>
          jstat[cjob[c]] = "completed"
    /\ \A row \in prows : row[2] = "completed" => Done(row[1])

DInv == IInv /\ Reporting /\ spc = "idle" /\ OneAtWork /\ Truthful

\* A completed job stays completed, and one that is running is left to its
\* consumer; it is claimed only while it is queued.
JobMoves ==
    \A j \in Jobs :
        /\ jstat[j] = "completed" => jstat'[j] = "completed"
        /\ jstat[j] = "running" /\ jstat'[j] # "running" =>
              \/ \E w \in Workers : Doing(w) /\ wjob[w] = j /\ ~Doing(w)'
              \/ \A w \in Workers : wpc[w] # "idle" => wjob[w] # j

\* What a consumer does goes on, or starts with a claim.
WorkMoves ==
    \A w \in Workers :
        /\ Doing(w)' =>
              \/ Doing(w) /\ wjob'[w] = wjob[w]
              \/ /\ wpc[w] = "idle" /\ wpc'[w] = "work"
                 /\ jstat[wjob'[w]] = "queued" /\ jstat'[wjob'[w]] = "running"
                 /\ \A v \in Workers : v # w => wpc'[v] = wpc[v]
        /\ wpc'[w] \in {"report", "write"} /\ wnews'[w] = "completed" =>
              /\ wjob'[w] = wjob[w]
              /\ \/ wpc[w] \in {"report", "write"} /\ wnews[w] = "completed"
                 \/ jstat'[wjob[w]] = "completed"

LEMMA SameJobs ==
  ASSUME UNCHANGED jstat
  PROVE  JobMoves
  BY DEF JobMoves

LEMMA SameWork ==
  ASSUME UNCHANGED workerVars
  PROVE  WorkMoves
  BY DEF workerVars, WorkMoves, Doing

\* A job that is queued, or that no consumer has, is given a new state.
LEMMA IdleJobMoves ==
  ASSUME IInv, NEW j \in Jobs, NEW s, jstat' = [jstat EXCEPT ![j] = s],
         jstat[j] \notin {"running", "completed"}
  PROVE  JobMoves
  BY DEF JobMoves, IInv, JobOK

LEMMA JobSteps ==
  ASSUME DInv, ~Stoppable, [Next]_vars
  PROVE  JobMoves
  <1> USE DEF jobVars
  <1>1. ASSUME NEW b \in Batches, Start(b) \/ StopBatch(b) PROVE JobMoves
    BY <1>1, SameJobs DEF Start, StopBatch
  <1>2. ASSUME NEW c \in Coordinators,
               \/ \E b \in Batches : CoordClaim(c, b) \/ CoordIgnore(c, b)
               \/ CoordInsert(c) \/ CoordRow(c) \/ CoordSkip(c) \/ CoordAttachRead(c)
               \/ CoordAttachWrite(c) \/ CoordSend(c) \/ CoordRowFailed(c) \/ CoordSave(c)
               \/ CoordNext(c) \/ CoordComplete(c) \/ CoordError(c) \/ CoordCrash(c)
        PROVE  JobMoves
    BY <1>2, SameJobs
       DEF CoordClaim, CoordIgnore, CoordInsert, CoordRow, CoordSkip, CoordAttachRead,
           CoordAttachWrite, CoordSend, CoordRowFailed, CoordSave, CoordNext, CoordComplete,
           CoordError, CoordCrash
  <1>3. ASSUME NEW c \in Coordinators, CoordEnqueue(c) PROVE JobMoves
    <2>1. crow[c] \in Resumes
      BY <1>3, AtRow DEF CoordEnqueue, MidPage, DInv
    <2>2. PICK j \in JobsFor(crow[c]) : jstat' = [jstat EXCEPT ![j] = "queued"]
      BY <1>3 DEF CoordEnqueue
    <2> QED BY <2>1, <2>2, JobsForRow, IdleJobMoves DEF DInv
  <1>4. ASSUME NEW c \in Coordinators, CoordRowError(c) PROVE JobMoves
    BY <1>4 DEF CoordRowError, JobMoves
  <1>5. ASSUME NEW w \in Workers, NEW j \in Jobs, WorkerClaim(w, j) PROVE JobMoves
    BY <1>5, IdleJobMoves DEF WorkerClaim, DInv
  <1>6. ASSUME NEW w \in Workers, WorkerFinish(w) \/ WorkerFail(w) \/ WorkerRetry(w)
        PROVE  JobMoves
    <2>1. wpc[w] = "work" /\ Doing(w) /\ jstat[wjob[w]] = "running" /\ wjob[w] \in Jobs
      BY <1>6, Busy DEF WorkerFinish, WorkerFail, WorkerRetry, Doing, DInv, OneAtWork
    <2>2. ~Doing(w)'
      BY <1>6 DEF WorkerFinish, WorkerFail, WorkerRetry, GoReport, GoWorker, Doing, DInv,
         IInv, WorkerOK
    <2>3. \A j \in Jobs : jstat'[j] = jstat[j] \/ j = wjob[w]
      BY <1>6 DEF WorkerFinish, WorkerFail, WorkerRetry, DInv, IInv, JobOK
    <2> QED BY <2>1, <2>2, <2>3 DEF JobMoves
  <1>7. ASSUME NEW w \in Workers,
               \/ \E j \in Jobs : WorkerIgnore(w, j)
               \/ ReportStep(w) \/ WorkerStop(w) \/ ReportEnd(w) \/ ReportWrite(w)
               \/ SendBack(w) \/ WorkerCrash(w)
        PROVE  JobMoves
    BY <1>7, SameJobs DEF WorkerIgnore, ReportStep, WorkerStop, ReportEnd, ReportWrite,
       SendBack, WorkerCrash
  <1>8. ASSUME NEW p \in Refreshers, RefreshStep(p) PROVE JobMoves
    BY <1>8, SameJobs DEF RefreshStep, RefreshRead, RefreshWrite
  <1>9. CASE PollStep \/ StopItems \/ Tick \/ UNCHANGED vars
    BY <1>9, SameJobs DEF PollStep, PollStart, PollRecover, PollSend, PollRow, StopItems,
       Tick, vars
  <1>10. ~StopJobs
    BY DEF StopJobs, DInv
  <1>11. ASSUME NEW j \in Jobs, RecoverStale(j) PROVE JobMoves
    BY <1>11 DEF RecoverStale, JobMoves, DInv, IInv, JobOK
  <1>12. ASSUME NEW r \in Resumes, Drift(r) PROVE JobMoves
    BY <1>12, SameJobs DEF Drift
  <1>13. ASSUME NEW r \in Resumes, Alone(r) PROVE JobMoves
    BY <1>13, JobsForRow, IdleJobMoves DEF Alone, DInv
  <1> QED BY <1>1, <1>2, <1>3, <1>4, <1>5, <1>6, <1>7, <1>8, <1>9, <1>10, <1>11, <1>12,
             <1>13 DEF Next, CoordStep, WorkerStep, StopStep

\* A consumer that moves on to the end of its job or of its report.
LEMMA EndMoves ==
  ASSUME IInv, NEW w \in Workers, Settle(w)
  PROVE  WorkMoves
  BY DEF Settle, WorkMoves, Doing, IInv, WorkerOK

LEMMA AfterReportMoves ==
  ASSUME IInv, NEW w \in Workers, AfterReport(w), wpc[w] \in {"report", "write"}
  PROVE  WorkMoves
  <1>1. CASE wnews[w] = "running" /\ GoWorker(w, "work")
             /\ wnews' = [wnews EXCEPT ![w] = "none"] /\ UNCHANGED <<wjob, wsteps>>
    <2>1. wpc[w] = "write"
      BY <1>1 DEF IInv, WorkerOK
    <2> QED BY <1>1, <2>1 DEF GoWorker, WorkMoves, Doing, IInv, WorkerOK
  <1>2. CASE wnews[w] = "queued" /\ GoWorker(w, "retry") /\ UNCHANGED <<wjob, wnews, wsteps>>
    BY <1>2 DEF GoWorker, WorkMoves, Doing, IInv, WorkerOK
  <1> QED BY <1>1, <1>2, EndMoves DEF AfterReport

LEMMA WorkSteps ==
  ASSUME DInv, [Next]_vars
  PROVE  WorkMoves
  <1>1. ASSUME NEW b \in Batches, Start(b) \/ StopBatch(b) PROVE WorkMoves
    BY <1>1, SameWork DEF Start, StopBatch
  <1>2. ASSUME NEW c \in Coordinators,
               CoordStep(c) \/ CoordRowError(c) \/ CoordError(c) \/ CoordCrash(c)
        PROVE  WorkMoves
    BY <1>2, SameWork
       DEF CoordStep, CoordClaim, CoordIgnore, CoordInsert, CoordRow, CoordEnqueue,
           CoordSkip, CoordAttachRead, CoordAttachWrite, CoordSend, CoordRowFailed, CoordSave,
           CoordNext, CoordComplete, CoordRowError, CoordError, CoordCrash
  <1>3. ASSUME NEW w \in Workers, NEW j \in Jobs, WorkerClaim(w, j) PROVE WorkMoves
    <2>1. /\ wpc[w] = "idle" /\ jstat[j] = "queued" /\ jstat'[j] = "running"
          /\ wpc' = [wpc EXCEPT ![w] = "work"] /\ wjob' = [wjob EXCEPT ![w] = j]
          /\ wnews' = wnews
      BY <1>3 DEF WorkerClaim, GoWorker, DInv, IInv, JobOK
    <2> QED BY <2>1 DEF WorkMoves, Doing, DInv, IInv, WorkerOK
  <1>4. ASSUME NEW w \in Workers, NEW j \in Jobs, WorkerIgnore(w, j) PROVE WorkMoves
    BY <1>4, SameWork DEF WorkerIgnore
  <1>5. ASSUME NEW w \in Workers, WorkerStop(w) \/ SendBack(w) \/ WorkerCrash(w)
        PROVE  WorkMoves
    BY <1>5, EndMoves DEF WorkerStop, SendBack, WorkerCrash, DInv
  <1>6. ASSUME NEW w \in Workers, WorkerFinish(w) PROVE WorkMoves
    <2>1. jstat[wjob[w]] = "running" /\ wjob[w] \in Jobs
      BY <1>6, Busy DEF WorkerFinish, DInv, OneAtWork, Doing
    <2>2. jstat'[wjob[w]] = "completed" /\ wjob' = wjob
      BY <1>6, <2>1 DEF WorkerFinish, DInv, IInv, JobOK
    <2> QED BY <1>6, <2>2 DEF WorkerFinish, GoReport, GoWorker, WorkMoves, Doing, DInv,
            IInv, WorkerOK
  <1>7. ASSUME NEW w \in Workers, WorkerFail(w) \/ WorkerRetry(w) PROVE WorkMoves
    <2>1. PICK news \in {"failed", "queued"} : GoReport(w, news) /\ wjob' = wjob
      BY <1>7 DEF WorkerFail, WorkerRetry
    <2> QED BY <2>1 DEF GoReport, GoWorker, WorkMoves, Doing, DInv, IInv, WorkerOK
  <1>8. ASSUME NEW w \in Workers, ReportStep(w) PROVE WorkMoves
    <2>1. CASE UNCHANGED <<wpc, wnews>>
      BY <1>8, <2>1 DEF ReportStep, WorkMoves, Doing
    <2>2. CASE GoWorker(w, "write") /\ wnews' = [wnews EXCEPT ![w] = "running"]
      BY <1>8, <2>2 DEF ReportStep, GoWorker, WorkMoves, Doing, DInv, IInv, WorkerOK
    <2> QED BY <1>8, <2>1, <2>2 DEF ReportStep, ReportTo
  <1>9. ASSUME NEW w \in Workers, ReportEnd(w) PROVE WorkMoves
    <2>1. CASE GoWorker(w, "write") /\ UNCHANGED <<wjob, wnews, wsteps>>
      BY <1>9, <2>1 DEF ReportEnd, GoWorker, WorkMoves, Doing, DInv, IInv, WorkerOK
    <2> QED BY <1>9, <2>1, AfterReportMoves DEF ReportEnd, ReportTo, DInv
  <1>10. ASSUME NEW w \in Workers, ReportWrite(w) PROVE WorkMoves
    BY <1>10, AfterReportMoves DEF ReportWrite, DInv
  <1>11. ASSUME NEW p \in Refreshers, RefreshStep(p) PROVE WorkMoves
    BY <1>11, SameWork DEF RefreshStep, RefreshRead, RefreshWrite
  <1>12. CASE PollStep \/ StopStep \/ Tick \/ UNCHANGED vars
    BY <1>12, SameWork DEF PollStep, PollStart, PollRecover, PollSend, PollRow, StopStep,
       StopJobs, StopItems, Tick, vars
  <1>13. ASSUME NEW j \in Jobs, RecoverStale(j) PROVE WorkMoves
    BY <1>13, SameWork DEF RecoverStale
  <1>14. ASSUME NEW r \in Resumes, Drift(r) \/ Alone(r) PROVE WorkMoves
    BY <1>14, SameWork DEF Drift, Alone
  <1> QED BY <1>1, <1>2, <1>3, <1>4, <1>5, <1>6, <1>7, <1>8, <1>9, <1>10, <1>11, <1>12,
             <1>13, <1>14 DEF Next, WorkerStep

\* What a coordinator is about to attach, or the poll to copy, was so when it
\* was read.
AttachMoves ==
    \A c \in Coordinators : cpc'[c] = "write" /\ cput'[c] = "completed" =>
        cjob'[c] = cjob[c] /\ jstat[cjob[c]] = "completed"
CopyMoves == \A row \in prows' : row[2] = "completed" => Done(row[1])

\* A coordinator that moves anywhere but to the write.
LEMMA ElsewhereMoves ==
  ASSUME DInv, NEW c \in Coordinators, NEW pc, GoCoord(c, pc), pc # "write",
         \A d \in Coordinators : d # c => cput'[d] = cput[d] /\ cjob'[d] = cjob[d]
  PROVE  AttachMoves
  BY DEF GoCoord, AttachMoves, DInv, Truthful, IInv, CoordOK

LEMMA AttachSteps ==
  ASSUME DInv, [Next]_vars
  PROVE  AttachMoves
  <1>0. cjob \in [Coordinators -> Jobs \cup {NoJob}] /\ cput \in [Coordinators -> ItemStatus]
        /\ cpc \in [Coordinators -> {"idle", "insert", "row", "enqueue", "attach", "write",
                                 "send", "rowFailed", "save", "next", "complete"}]
    BY DEF DInv, IInv, CoordOK
  <1>1. CASE UNCHANGED coordVars
    BY <1>1 DEF coordVars, AttachMoves, DInv, Truthful
  <1>2. ASSUME NEW c \in Coordinators, Leave(c) \/ NextRow(c) PROVE AttachMoves
    <2>1. PICK pc : pc # "write" /\ GoCoord(c, pc)
      BY <1>2 DEF Leave, NextRow, GoCoord
    <2>2. \A d \in Coordinators : d # c => cput'[d] = cput[d] /\ cjob'[d] = cjob[d]
      BY <1>0, <1>2 DEF Leave, NextRow
    <2> QED BY <2>1, <2>2, ElsewhereMoves
  <1>3. ASSUME NEW c \in Coordinators,
               \/ \E b \in Batches : CoordClaim(c, b)
               \/ CoordInsert(c) \/ CoordEnqueue(c) \/ CoordRowError(c) \/ CoordSave(c)
               \/ CoordAttachWrite(c)
        PROVE  AttachMoves
    <2>1. PICK pc : pc # "write" /\ GoCoord(c, pc)
      BY <1>3 DEF CoordClaim, CoordInsert, CoordEnqueue, CoordRowError, CoordSave, CoordAttachWrite
    <2>2. \A d \in Coordinators : d # c => cput'[d] = cput[d] /\ cjob'[d] = cjob[d]
      BY <1>0, <1>3
         DEF CoordClaim, CoordInsert, CoordEnqueue, CoordRowError, CoordSave, CoordAttachWrite
    <2> QED BY <2>1, <2>2, ElsewhereMoves
  <1>4. ASSUME NEW c \in Coordinators,
               \/ CoordRow(c) \/ CoordSkip(c) \/ CoordSend(c) \/ CoordRowFailed(c)
               \/ CoordNext(c) \/ CoordComplete(c) \/ CoordError(c) \/ CoordCrash(c)
        PROVE  AttachMoves
    <2>1. CASE GoCoord(c, "enqueue") /\ UNCHANGED <<cput, cjob>>
      BY <2>1, ElsewhereMoves
    <2> QED BY <1>2, <1>4, <2>1
            DEF CoordRow, CoordSkip, CoordSend, CoordRowFailed, CoordNext, CoordComplete,
                CoordError, CoordCrash
  <1>5. ASSUME NEW c \in Coordinators, CoordAttachRead(c) PROVE AttachMoves
    <2>1. AsItem(jstat[cjob[c]]) = "completed" => jstat[cjob[c]] = "completed"
      BY DEF AsItem
    <2>2. cput'[c] = "completed" => jstat[cjob[c]] = "completed"
      BY <1>0, <1>5, <2>1 DEF CoordAttachRead
    <2>3. \A d \in Coordinators : d # c => cput'[d] = cput[d] /\ cpc'[d] = cpc[d]
      BY <1>0, <1>5 DEF CoordAttachRead, GoCoord
    <2> QED BY <1>5, <2>2, <2>3 DEF CoordAttachRead, AttachMoves, DInv, Truthful
  <1>6. ASSUME NEW b \in Batches, Start(b) \/ StopBatch(b) PROVE UNCHANGED coordVars
    BY <1>6 DEF Start, StopBatch
  <1>7. ASSUME NEW c \in Coordinators, NEW b \in Batches, CoordIgnore(c, b)
        PROVE  UNCHANGED coordVars
    BY <1>7 DEF CoordIgnore
  <1>8. ASSUME NEW w \in Workers,
               WorkerStep(w) \/ WorkerFail(w) \/ WorkerRetry(w) \/ WorkerCrash(w)
        PROVE  UNCHANGED coordVars
    BY <1>8 DEF WorkerStep, WorkerClaim, WorkerIgnore, ReportStep, WorkerStop, WorkerFinish,
                ReportEnd, ReportWrite, SendBack, WorkerFail, WorkerRetry, WorkerCrash
  <1>9. ASSUME NEW p \in Refreshers, RefreshStep(p) PROVE UNCHANGED coordVars
    BY <1>9 DEF RefreshStep, RefreshRead, RefreshWrite
  <1>10. CASE PollStep \/ StopStep \/ Tick \/ UNCHANGED vars
    BY <1>1, <1>10 DEF PollStep, PollStart, PollRecover, PollSend, PollRow, StopStep,
                StopJobs, StopItems, Tick, vars
  <1>11. ASSUME NEW j \in Jobs, RecoverStale(j) PROVE UNCHANGED coordVars
    BY <1>11 DEF RecoverStale
  <1>12. ASSUME NEW r \in Resumes, Drift(r) \/ Alone(r) PROVE UNCHANGED coordVars
    BY <1>12 DEF Drift, Alone
  <1> QED BY <1>1, <1>3, <1>4, <1>5, <1>6, <1>7, <1>8, <1>9, <1>10, <1>11, <1>12
          DEF Next, CoordStep

LEMMA ReadRows ==
  ASSUME IInv, NEW b \in Batches, ReconcileRead(b)
  PROVE  CopyMoves
  <1> SUFFICES ASSUME NEW row \in prows', row[2] = "completed" PROVE Done(row[1])
    BY DEF CopyMoves
  <1>1. PICK r \in Resumes : row \in Correction(b, r)
    BY DEF ReconcileRead, Reconcile
  <1>2. ijob[b][r] \in Jobs /\ ijob[b][r][1] = r /\ row = <<r, jstat[ijob[b][r]]>>
    BY <1>1, Corrections
  <1> QED BY <1>2 DEF Done

LEMMA CopySteps ==
  ASSUME DInv, [Next]_vars
  PROVE  CopyMoves
  <1>1. CASE prows' \subseteq prows
    BY <1>1 DEF CopyMoves, DInv, Truthful
  <1>2. ASSUME NEW b \in Batches, Start(b) \/ StopBatch(b) PROVE prows' = prows
    BY <1>2 DEF Start, StopBatch, pollVars
  <1>3. ASSUME NEW c \in Coordinators,
               CoordStep(c) \/ CoordRowError(c) \/ CoordError(c) \/ CoordCrash(c)
        PROVE  prows' = prows
    BY <1>3 DEF CoordStep, CoordClaim, CoordIgnore, CoordInsert, CoordRow, CoordEnqueue,
           CoordSkip, CoordAttachRead, CoordAttachWrite, CoordSend, CoordRowFailed, CoordSave,
           CoordNext, CoordComplete, CoordRowError, CoordError, CoordCrash, pollVars
  <1>4. ASSUME NEW w \in Workers,
               WorkerStep(w) \/ WorkerFail(w) \/ WorkerRetry(w) \/ WorkerCrash(w)
        PROVE  prows' = prows
    BY <1>4 DEF WorkerStep, WorkerClaim, WorkerIgnore, ReportStep, WorkerStop, WorkerFinish,
           ReportEnd, ReportWrite, SendBack, WorkerFail, WorkerRetry, WorkerCrash, pollVars
  <1>5. ASSUME NEW p \in Refreshers, RefreshStep(p) PROVE prows' = prows
    BY <1>5 DEF RefreshStep, RefreshRead, RefreshWrite, pollVars
  <1>6. ASSUME NEW b \in Batches, PollStart(b) PROVE CopyMoves
    BY <1>1, <1>6, ReadRows DEF PollStart, DInv
  <1>7. CASE PollRecover \/ PollSend
    <2>1. pbatch \in Batches
      BY <1>7 DEF PollRecover, PollSend, DInv, IInv, PollOK
    <2> QED BY <1>1, <1>7, <2>1, ReadRows DEF PollRecover, PollSend, DInv
  <1>8. CASE PollRow
    BY <1>1, <1>8 DEF PollRow, Reconcile
  <1>9. CASE StopStep \/ Tick \/ UNCHANGED vars
    BY <1>1, <1>9 DEF StopStep, StopJobs, StopItems, Tick, vars, pollVars
  <1>10. ASSUME NEW j \in Jobs, RecoverStale(j) PROVE prows' = prows
    BY <1>10 DEF RecoverStale, pollVars
  <1>11. ASSUME NEW r \in Resumes, Drift(r) \/ Alone(r) PROVE prows' = prows
    BY <1>11 DEF Drift, Alone, pollVars
  <1> QED BY <1>1, <1>2, <1>3, <1>4, <1>5, <1>6, <1>7, <1>8, <1>9, <1>10, <1>11
          DEF Next, PollStep

\* Nobody stops a batch.
LEMMA NoStop ==
  ASSUME spc = "idle", ~Stoppable, [Next]_vars
  PROVE  spc' = "idle"
  <1> USE DEF stopVars
  <1>1. ASSUME NEW b \in Batches, Start(b) \/ StopBatch(b) PROVE spc' = spc
    BY <1>1 DEF Start, StopBatch
  <1>2. ASSUME NEW c \in Coordinators,
               CoordStep(c) \/ CoordRowError(c) \/ CoordError(c) \/ CoordCrash(c)
        PROVE  spc' = spc
    BY <1>2 DEF CoordStep, CoordClaim, CoordIgnore, CoordInsert, CoordRow, CoordEnqueue,
           CoordSkip, CoordAttachRead, CoordAttachWrite, CoordSend, CoordRowFailed, CoordSave,
           CoordNext, CoordComplete, CoordRowError, CoordError, CoordCrash
  <1>3. ASSUME NEW w \in Workers,
               WorkerStep(w) \/ WorkerFail(w) \/ WorkerRetry(w) \/ WorkerCrash(w)
        PROVE  spc' = spc
    BY <1>3 DEF WorkerStep, WorkerClaim, WorkerIgnore, ReportStep, WorkerStop, WorkerFinish,
           ReportEnd, ReportWrite, SendBack, WorkerFail, WorkerRetry, WorkerCrash
  <1>4. ASSUME NEW p \in Refreshers, RefreshStep(p) PROVE spc' = spc
    BY <1>4 DEF RefreshStep, RefreshRead, RefreshWrite
  <1>5. CASE PollStep \/ StopStep \/ Tick \/ UNCHANGED vars
    BY <1>5 DEF PollStep, PollStart, PollRecover, PollSend, PollRow, StopStep, StopJobs,
           StopItems, Tick, vars
  <1>6. ASSUME NEW j \in Jobs, RecoverStale(j) PROVE spc' = spc
    BY <1>6 DEF RecoverStale
  <1>7. ASSUME NEW r \in Resumes, Drift(r) \/ Alone(r) PROVE spc' = spc
    BY <1>7 DEF Drift, Alone
  <1> QED BY <1>1, <1>2, <1>3, <1>4, <1>5, <1>6, <1>7 DEF Next

LEMMA InitDInv == Init => DInv
  <1>1. Init => OneAtWork /\ Truthful
    BY DEF Init, OneAtWork, Truthful, Doing
  <1>2. Init => spc = "idle"
    BY DEF Init
  <1> QED BY <1>1, <1>2, InitInv DEF DInv

LEMMA StepDInv ==
  ASSUME DInv, BInv, ~Stoppable, [Next]_vars
  PROVE  DInv'
  <1>1. JobMoves /\ WorkMoves /\ AttachMoves /\ CopyMoves /\ spc' = "idle"
    BY JobSteps, WorkSteps, AttachSteps, CopySteps, NoStop DEF DInv
  <1>2. IInv' /\ Reporting'
    BY StepBInv DEF BInv
  <1>3. OneAtWork'
    <2> SUFFICES ASSUME NEW w \in Workers, Doing(w)'
                 PROVE  /\ jstat'[wjob'[w]] = "running"
                        /\ \A v \in Workers : Doing(v)' /\ wjob'[v] = wjob'[w] => v = w
      BY DEF OneAtWork, Doing
    <2>1. ASSUME NEW v \in Workers, Doing(v)
          PROVE  wpc[v] # "idle" /\ wjob[v] \in Jobs /\ jstat[wjob[v]] = "running"
      BY <2>1 DEF Doing, DInv, IInv, WorkerOK, OneAtWork
    <2>2. CASE Doing(w) /\ wjob'[w] = wjob[w]
      <3>1. jstat'[wjob[w]] = "running"
        BY <1>1, <2>1, <2>2 DEF JobMoves, DInv, OneAtWork
      <3>2. ASSUME NEW v \in Workers, Doing(v)', wjob'[v] = wjob[w] PROVE v = w
        <4>1. Doing(v) /\ wjob[v] = wjob[w]
          BY <1>1, <2>1, <2>2, <3>2 DEF WorkMoves
        <4> QED BY <2>2, <4>1 DEF DInv, OneAtWork
      <3> QED BY <2>2, <3>1, <3>2
    <2>3. CASE /\ wpc[w] = "idle" /\ wpc'[w] = "work"
               /\ jstat[wjob'[w]] = "queued" /\ jstat'[wjob'[w]] = "running"
               /\ \A v \in Workers : v # w => wpc'[v] = wpc[v]
      <3>1. ASSUME NEW v \in Workers, Doing(v)', wjob'[v] = wjob'[w], v # w PROVE FALSE
        <4>1. CASE Doing(v) /\ wjob'[v] = wjob[v]
          BY <2>1, <2>3, <3>1, <4>1
        <4>2. CASE wpc[v] = "idle" /\ wpc'[v] = "work"
          BY <2>3, <3>1, <4>2
        <4> QED BY <1>1, <3>1, <4>1, <4>2 DEF WorkMoves
      <3> QED BY <2>3, <3>1
    <2> QED BY <1>1, <2>2, <2>3 DEF WorkMoves
  <1>4. Truthful'
    <2>1. \A w \in Workers : wpc'[w] \in {"report", "write"} /\ wnews'[w] = "completed" =>
             jstat'[wjob'[w]] = "completed"
      <3>1. \A w \in Workers : wpc[w] \in {"report", "write"} => wjob[w] \in Jobs
        BY DEF DInv, IInv, WorkerOK
      <3> QED BY <1>1, <3>1 DEF WorkMoves, JobMoves, DInv, Truthful
    <2>2. \A c \in Coordinators : cpc'[c] = "write" /\ cput'[c] = "completed" =>
             jstat'[cjob'[c]] = "completed"
      BY <1>1, <1>2 DEF AttachMoves, JobMoves, IInv, CoordOK
    <2>3. \A row \in prows' : row[2] = "completed" => Done(row[1])'
      BY <1>1 DEF CopyMoves, JobMoves, Done
    <2> QED BY <2>1, <2>2, <2>3 DEF Truthful
  <1> QED BY <1>1, <1>2, <1>3, <1>4 DEF DInv

\* What makes an item completed.
Reported ==
    \A b \in Batches, r \in Resumes :
        istat[b][r] # "completed" /\ istat'[b][r] = "completed" => Done(r)

LEMMA NotReported ==
  ASSUME UNCHANGED istat
  PROVE  Reported
  BY DEF Reported

LEMMA SetReported ==
  ASSUME IInv, NEW b \in Batches, NEW r \in Resumes, NEW s, SetItem(b, r, s),
         s = "completed" => Done(r)
  PROVE  Reported
  BY DEF SetItem, Reported, IInv, ItemOK

LEMMA ReportedSteps ==
  ASSUME DInv, [Next]_vars
  PROVE  Reported
  <1> USE DEF itemVars
  <1>1. ASSUME NEW b \in Batches, Start(b) \/ StopBatch(b) PROVE Reported
    BY <1>1, NotReported DEF Start, StopBatch
  <1>2. ASSUME NEW c \in Coordinators,
               \/ \E b \in Batches : CoordClaim(c, b) \/ CoordIgnore(c, b)
               \/ CoordRow(c) \/ CoordEnqueue(c) \/ CoordAttachRead(c) \/ CoordSend(c)
               \/ CoordSave(c) \/ CoordNext(c) \/ CoordComplete(c) \/ CoordRowError(c)
               \/ CoordError(c) \/ CoordCrash(c)
        PROVE  Reported
    BY <1>2, NotReported
       DEF CoordClaim, CoordIgnore, CoordRow, CoordEnqueue, CoordAttachRead, CoordSend,
           CoordSave, CoordNext, CoordComplete, CoordRowError, CoordError, CoordCrash
  <1>3. ASSUME NEW c \in Coordinators, CoordInsert(c) PROVE Reported
    BY <1>3 DEF CoordInsert, Reported, DInv, IInv, ItemOK
  <1>4. ASSUME NEW c \in Coordinators, CoordSkip(c) \/ CoordRowFailed(c) PROVE Reported
    <2>1. MidPage(c)
      BY <1>4 DEF CoordSkip, CoordRowFailed, MidPage
    <2> QED BY <1>4, <2>1, AtRow, SetReported DEF CoordSkip, CoordRowFailed, DInv
  <1>5. ASSUME NEW c \in Coordinators, CoordAttachWrite(c) PROVE Reported
    <2>1. cbatch[c] \in Batches /\ crow[c] \in Resumes
      BY <1>5, AtRow DEF CoordAttachWrite, MidPage, DInv
    <2>2. cput[c] = "completed" => Done(crow[c])
      BY <1>5 DEF CoordAttachWrite, DInv, IInv, CoordOK, Truthful, Done
    <2> QED BY <1>5, <2>1, <2>2, NotReported, SetReported DEF CoordAttachWrite, DInv
  <1>6. ASSUME NEW w \in Workers,
               \/ \E j \in Jobs : WorkerClaim(w, j) \/ WorkerIgnore(w, j)
               \/ ReportStep(w) \/ WorkerStop(w) \/ WorkerFinish(w) \/ ReportEnd(w)
               \/ SendBack(w) \/ WorkerFail(w) \/ WorkerRetry(w) \/ WorkerCrash(w)
        PROVE  Reported
    BY <1>6, NotReported
       DEF WorkerClaim, WorkerIgnore, ReportStep, WorkerStop, WorkerFinish, ReportEnd,
           SendBack, WorkerFail, WorkerRetry, WorkerCrash
  <1>7. ASSUME NEW w \in Workers, ReportWrite(w) PROVE Reported
    <2>1. wjob[w] \in Jobs /\ wjob[w][1] \in Resumes
      BY <1>7, Busy DEF ReportWrite, DInv
    <2>2. wnews[w] = "completed" => Done(wjob[w][1])
      BY <1>7, <2>1 DEF ReportWrite, DInv, Truthful, Done
    <2>3. \A b \in Batches, r \in Resumes :
             \/ istat'[b][r] = istat[b][r]
             \/ r = wjob[w][1] /\ istat'[b][r] = wnews[w]
      BY <1>7, <2>1 DEF ReportWrite, DInv, IInv, ItemOK
    <2> QED BY <2>2, <2>3 DEF Reported
  <1>8. ASSUME NEW p \in Refreshers, RefreshStep(p) PROVE Reported
    BY <1>8, NotReported DEF RefreshStep, RefreshRead, RefreshWrite
  <1>9. ASSUME NEW b \in Batches, PollStart(b) PROVE Reported
    BY <1>9, NotReported DEF PollStart
  <1>10. CASE PollRow
    <2>1. PICK row \in prows : SetItem(pbatch, row[1], row[2])
      BY <1>10 DEF PollRow
    <2>2. /\ pbatch \in Batches /\ row[1] \in Resumes
          /\ row[2] = "completed" => Done(row[1])
      BY <1>10, <2>1 DEF PollRow, DInv, IInv, PollOK, Truthful
    <2> QED BY <2>1, <2>2, SetReported DEF DInv
  <1>11. CASE PollRecover \/ PollSend \/ StopJobs \/ Tick \/ UNCHANGED vars
    BY <1>11, NotReported DEF PollRecover, PollSend, StopJobs, Tick, vars
  <1>12. ~StopItems
    BY DEF StopItems, DInv
  <1>13. ASSUME NEW j \in Jobs, RecoverStale(j) PROVE Reported
    BY <1>13, NotReported DEF RecoverStale
  <1>14. ASSUME NEW r \in Resumes, Drift(r) \/ Alone(r) PROVE Reported
    BY <1>14, NotReported DEF Drift, Alone
  <1> QED BY <1>1, <1>2, <1>3, <1>4, <1>5, <1>6, <1>7, <1>8, <1>9, <1>10, <1>11, <1>12,
             <1>13, <1>14 DEF Next, CoordStep, WorkerStep, PollStep, StopStep

\* As long as nobody stops a batch, an item is reported completed, by a callback,
\* the poll or an attachment, only when a job of its resume is completed: for
\* any crashes, retries and re-evaluations on their own.
THEOREM CompletedItemsDone ==
  ASSUME ~Stoppable
  PROVE  Spec => CompletedItemIsDone
  <1>1. ASSUME DInv, [Next]_vars
        PROVE  \A b \in Batches, r \in Resumes :
                  istat[b][r] # "completed" /\ istat'[b][r] = "completed" =>
                     \E j \in Jobs : j[1] = r /\ jstat[j] = "completed"
    BY <1>1, ReportedSteps DEF Reported, Done
  <1>2. Init => DInv /\ BInv
    BY InitDInv, InitBInv
  <1>3. DInv /\ BInv /\ [Next]_vars => DInv' /\ BInv'
    BY StepDInv, StepBInv
  <1> QED BY <1>1, <1>2, <1>3, PTL DEF Spec, CompletedItemIsDone

=============================================================================
