------------------------ MODULE ArchivePipelineProofs ------------------------
(***************************************************************************)
(* Theorems about ArchivePipeline, for any number of rows, jobs, requests, *)
(* attempts and crashes.                                                   *)
(***************************************************************************)
EXTENDS ArchivePipeline, TLAPS

\* A job that may be claimed has attempts left.
Budget ==
    \A j \in Job : jobs[j].state \in {"available", "retryable"}
                     => jobs[j].attempt < MaxAttempts

\* The slot an unused record carries is a slot.
LEMMA DefaultSlot == NoRow.slot \in Slot
BY PipelineAssumption DEF NoRow

\* Row 1 is a row: the default row of an execution.
LEMMA RowOne == 1 \in Row
BY PipelineAssumption DEF Row

\* A row with another status is a row, and a run that writes more kinds is a run.
LEMMA RowStatus ==
    ASSUME NEW row \in RowType, NEW st \in Unsettled \cup {"completed", "failed"}, NEW old \in BOOLEAN
    PROVE  [row EXCEPT !.status = st, !.stale = old] \in RowType
BY Zenon DEF RowType

LEMMA RowStale ==
    ASSUME NEW row \in RowType, NEW old \in BOOLEAN
    PROVE  [row EXCEPT !.stale = old] \in RowType
BY Zenon DEF RowType

LEMMA RunWrote ==
    ASSUME NEW work \in RunType, NEW W \in SUBSET Kind
    PROVE  [work EXCEPT !.wrote = W] \in RunType
BY Zenon DEF RunType

LEMMA RunRowOf ==
    ASSUME NEW work \in RunType, NEW r \in Row
    PROVE  [work EXCEPT !.pc = "archiving", !.row = r] \in RunType
BY Zenon DEF RunType

LEMMA RunMade ==
    ASSUME NEW work \in RunType, NEW W \in SUBSET Kind, NEW f \in Flow
    PROVE  [work EXCEPT !.pc = "storing", !.made = f, !.want = W] \in RunType
BY Zenon DEF RunType

LEMMA RowPublished ==
    ASSUME NEW row \in RowType, NEW keys \in SUBSET Kind, NEW stored \in SUBSET Kind,
           NEW made \in Flow, NEW source \in Flow
    PROVE  [row EXCEPT !.status = "completed", !.stale = FALSE, !.keys = keys, !.stored = stored,
                       !.made = made, !.source = source] \in RowType
BY Zenon DEF RowType

\* A status update (WithStatus) keeps the rows well typed.
LEMMA StatusUpdate ==
    ASSUME rows \in [Row -> RowType], NEW r \in Row,
           NEW st \in Unsettled \cup {"completed", "failed"},
           rows' = WithStatus(r, st)
    PROVE  rows' \in [Row -> RowType]
<1>1. [rows[r] EXCEPT !.status = st, !.stale = FALSE] \in RowType
  BY RowStatus
<1>2. QED BY <1>1 DEF WithStatus

\* Creating the next row keeps the rows well typed.
LEMMA RowCreation ==
    ASSUME rows \in [Row -> RowType], NEW r \in Row, NEW s \in Slot, CreateRow(s, r)
    PROVE  rows' \in [Row -> RowType]
BY DEF CreateRow, NoRow, RowType, Unsettled, Flow

\* Moving an execution to another point keeps it well typed.
LEMMA RunUpdate ==
    ASSUME run \in [Job -> RunType], NEW j \in Job,
           NEW pc \in {"failing", "erred", "handled", "succeeded"}, Step(j, pc)
    PROVE  run' \in [Job -> RunType]
BY DEF Step, RunType

\* Forgetting an execution keeps the executions well typed.
LEMMA RunReset ==
    ASSUME run \in [Job -> RunType], NEW j \in Job,
           NEW pc \in {"none", "claimed"},
           run' = [run EXCEPT ![j] = [NoRun EXCEPT !.pc = pc]]
    PROVE  run' \in [Job -> RunType]
BY RowOne DEF NoRun, RunType, Flow

\* Type correctness and the attempt budget are inductive together.
LEMMA TypeInit == Init => TypeOK /\ Budget
<1> SUFFICES ASSUME Init PROVE TypeOK /\ Budget
  OBVIOUS
<1> USE DEF Init
<1>1. rows \in [Row -> RowType]
  BY DefaultSlot DEF NoRow, RowType, Flow
<1>2. jobs \in [Job -> JobType] /\ Budget
  BY DefaultSlot, PipelineAssumption DEF NoJob, JobType, Budget
<1>3. run \in [Job -> RunType]
  BY RowOne DEF NoRun, RunType, Flow
<1>4. req \in [Request -> ReqType]
  BY DefaultSlot DEF NoReq, ReqType
<1>5. crashes \in 0..MaxCrash
  BY PipelineAssumption
<1>6. QED BY <1>1, <1>2, <1>3, <1>4, <1>5 DEF TypeOK

\* Every step of an execution of Work (archive_worker.go) leaves well-typed tables.
LEMMA RunStepType ==
    ASSUME TypeOK, Budget, NEW j \in Job, RunStep(j)
    PROVE  TypeOK' /\ Budget'
<1> USE DEF TypeOK
<1>1. CASE Work(j)
  <2>1. rows' \in [Row -> RowType]
    BY <1>1, StatusUpdate DEF Work, MaybeStatus, Unsettled
  <2>2. run' \in [Job -> RunType]
    <3>1. ASSUME NEW r \in Row, run' = [run EXCEPT ![j].pc = "archiving", ![j].row = r]
          PROVE  run' \in [Job -> RunType]
      <4>1. [run[j] EXCEPT !.pc = "archiving", !.row = r] \in RunType
        BY RunRowOf
      <4>2. QED BY <3>1, <4>1
    <3>2. QED BY <1>1, <3>1, RunUpdate DEF Work
  <2>3. QED BY <1>1, <2>1, <2>2 DEF Work, Budget
<1>2. CASE Archive(j)
  <2>1. ASSUME NEW W \in SUBSET Sidecar, NEW f \in Flow,
               run' = [run EXCEPT ![j] = [@ EXCEPT !.pc = "storing", !.made = f,
                                                   !.want = W \cup {"primary"}]]
        PROVE  run' \in [Job -> RunType]
    <3>1. W \cup {"primary"} \in SUBSET Kind
      BY DEF Kind
    <3>2. [run[j] EXCEPT !.pc = "storing", !.made = f, !.want = W \cup {"primary"}] \in RunType
      BY <3>1, RunMade
    <3>3. QED BY <2>1, <3>2
  <2>2. run' \in [Job -> RunType]
    BY <1>2, <2>1, RunUpdate DEF Archive
  <2>3. QED BY <1>2, <2>2 DEF Archive, Budget
<1>3. CASE StoreArtifact(j)
  <2>1. ASSUME NEW k \in run[j].want, run' = [run EXCEPT ![j].wrote = @ \cup {k}]
        PROVE  run' \in [Job -> RunType]
    <3>1. run[j] \in RunType /\ run[j].wrote \cup {k} \in SUBSET Kind
      BY <2>1 DEF RunType
    <3>2. [run[j] EXCEPT !.wrote = run[j].wrote \cup {k}] \in RunType
      BY <3>1, RunWrote
    <3>3. QED BY <2>1, <3>2
  <2>2. run' \in [Job -> RunType]
    BY <1>3, <2>1, RunUpdate DEF StoreArtifact
  <2>3. QED BY <1>3, <2>2 DEF StoreArtifact, Budget
<1>4. CASE Publish(j)
  <2>1. run[j] \in RunType /\ run[j].row \in Row /\ rows[run[j].row] \in RowType
    BY DEF RunType
  <2>2. Published(j) \in RowType
    <3>1. run[j].want \in SUBSET Kind /\ run[j].wrote \in SUBSET Kind /\ run[j].made \in Flow
          /\ rows[run[j].row].source \in Flow
      BY <2>1 DEF RowType, RunType
    <3>2. (IF run[j].made = "brightdata" THEN "brightdata" ELSE rows[run[j].row].source) \in Flow
      BY <3>1
    <3>3. [rows[run[j].row] EXCEPT !.status = "completed", !.stale = FALSE,
             !.keys = run[j].want, !.stored = run[j].wrote, !.made = run[j].made,
             !.source = IF run[j].made = "brightdata" THEN "brightdata" ELSE rows[run[j].row].source] \in RowType
      BY <2>1, <3>1, <3>2, RowPublished, Zenon
    <3>4. QED BY <3>3, Zenon DEF Published
  <2>3. rows' \in [Row -> RowType]
    BY <1>4, <2>1, <2>2 DEF Publish
  <2>4. run' \in [Job -> RunType]
    BY <1>4, RunUpdate DEF Publish
  <2>5. QED BY <1>4, <2>3, <2>4 DEF Publish, Budget
<1>5. CASE GiveUp(j)
  <2>1. run[j].row \in Row
    BY DEF RunType
  <2>2. rows' \in [Row -> RowType]
    BY <1>5, <2>1, StatusUpdate DEF GiveUp, MaybeStatus
  <2>3. run' \in [Job -> RunType]
    BY <1>5, RunUpdate DEF GiveUp
  <2>4. QED BY <1>5, <2>2, <2>3 DEF GiveUp, Budget
<1>6. CASE HandleError(j)
  <2>1. rows' \in [Row -> RowType]
    BY <1>6, StatusUpdate DEF HandleError, MaybeStatus
  <2>2. run' \in [Job -> RunType]
    BY <1>6, RunUpdate DEF HandleError
  <2>3. QED BY <1>6, <2>1, <2>2 DEF HandleError, Budget
<1>7. CASE Report(j)
  <2>1. jobs[j] \in JobType
    OBVIOUS
  <2>2. jobs' \in [Job -> JobType] /\ Budget'
    BY <1>7, <2>1, PipelineAssumption
    DEF Report, AfterFailure, LastAttempt, JobType, Active, Budget
  <2>3. run' \in [Job -> RunType]
    BY <1>7, RowOne DEF Report, NoRun, RunType, Flow
  <2>4. QED BY <1>7, <2>2, <2>3 DEF Report
<1>8. QED
  BY <1>1, <1>2, <1>3, <1>4, <1>5, <1>6, <1>7 DEF RunStep

\* Claims, rescues and deletions keep the job table typed and the attempts in budget.
LEMMA RiverStepType ==
    ASSUME TypeOK, Budget, NEW j \in Job, RiverStep(j)
    PROVE  TypeOK' /\ Budget'
<1> USE PipelineAssumption DEF TypeOK
<1>1. jobs[j] \in JobType
  OBVIOUS
<1>2. CASE Claim(j)
  <2>1. jobs' \in [Job -> JobType] /\ Budget'
    <3>1. jobs[j].attempt + 1 \in 0..MaxAttempts
      BY <1>1, <1>2 DEF Claim, JobType, Budget
    <3>2. [jobs[j] EXCEPT !.state = "running", !.attempt = jobs[j].attempt + 1] \in JobType
      BY <1>1, <3>1 DEF JobType, Active
    <3>3. jobs' \in [Job -> JobType]
      BY <1>2, <3>2 DEF Claim
    <3>4. Budget'
      BY <1>1, <1>2 DEF Claim, JobType, Budget
    <3>5. QED BY <3>3, <3>4
  <2>2. run' \in [Job -> RunType]
    BY <1>2, RunReset DEF Claim
  <2>3. QED BY <1>2, <2>1, <2>2 DEF Claim
<1>3. CASE RescueStuckJob(j)
  BY <1>1, <1>3 DEF RescueStuckJob, AfterFailure, LastAttempt, JobType, Active, Budget
<1>4. CASE DeleteFinishedJob(j)
  BY <1>1, <1>4, DefaultSlot DEF DeleteFinishedJob, NoJob, JobType, Active, Budget
<1>5. QED BY <1>2, <1>3, <1>4 DEF RiverStep

\* One statement of RunCleanup only writes statuses of existing row records.
LEMMA SweepType ==
    ASSUME rows \in [Row -> RowType], NEW R \in SUBSET Row, Sweep(R)
    PROVE  rows' \in [Row -> RowType]
<1>1. ASSUME NEW r \in Row
      PROVE  [rows[r] EXCEPT !.status = "failed", !.stale = FALSE] \in RowType
  BY DEF RowType
<1>2. QED BY <1>1 DEF Sweep

\* The three statements of RunCleanup preserve the types.
LEMMA CleanupType ==
    ASSUME TypeOK, Budget, CleanupStep
    PROVE  TypeOK' /\ Budget'
<1>1. PICK R \in SUBSET Row : Sweep(R)
  BY DEF CleanupStep, SweepPending, SweepProcessing, SweepDiscarded
<1>2. rows' \in [Row -> RowType]
  BY <1>1, SweepType DEF TypeOK
<1>3. QED BY <1>1, <1>2 DEF Sweep, TypeOK, Budget

\* An insert, a skipped duplicate included, keeps the job table typed.
LEMMA InsertType ==
    ASSUME TypeOK, Budget, NEW s \in Slot, Insert(s)
    PROVE  jobs' \in [Job -> JobType] /\ Budget'
<1>1. CASE UNCHANGED jobs
  BY <1>1 DEF TypeOK, Budget
<1>2. ASSUME NEW j \in Job,
             jobs' = [jobs EXCEPT ![j] = [state |-> "available", slot |-> s,
                                          attempt |-> 0, recent |-> TRUE]]
      PROVE  jobs' \in [Job -> JobType] /\ Budget'
  BY <1>2, PipelineAssumption DEF TypeOK, JobType, Active, Budget
<1>3. QED BY <1>1, <1>2 DEF Insert

\* Every step of a request handler preserves the types.
LEMMA RequestStepType ==
    ASSUME TypeOK, Budget, NEW p \in Request, RequestStep(p)
    PROVE  TypeOK' /\ Budget'
<1> USE DEF TypeOK
<1>0. req[p] \in ReqType
  OBVIOUS
<1>1. ASSUME NEW s \in Slot, Submit(p, s) PROVE TypeOK' /\ Budget'
  <2>1. rows' \in [Row -> RowType]
    BY <1>1, RowCreation DEF Submit
  <2>2. req' \in [Request -> ReqType]
    BY <1>1 DEF Submit, NoReq, ReqType
  <2>3. QED BY <1>1, <2>1, <2>2 DEF Submit, Budget
<1>2. ASSUME NEW s \in Slot, BackfillSelect(p, s) PROVE TypeOK' /\ Budget'
  BY <1>2 DEF BackfillSelect, NoReq, ReqType, Budget
<1>3. ASSUME NEW R \in SUBSET Row, RetrySelect(p, R) PROVE TypeOK' /\ Budget'
  BY <1>3, DefaultSlot DEF RetrySelect, NoReq, ReqType, Budget
<1>4. ASSUME NEW r \in Row, RetryReset(p, r) PROVE TypeOK' /\ Budget'
  <2>1. rows' \in [Row -> RowType]
    BY <1>4, StatusUpdate DEF RetryReset, Unsettled
  <2>2. rows[r].slot \in Slot
    BY DEF RowType
  <2>3. req' \in [Request -> ReqType]
    BY <1>0, <1>4, <2>2 DEF RetryReset, ReqType
  <2>4. QED BY <1>4, <2>1, <2>3 DEF RetryReset, Budget
<1>5. CASE BackfillCreate(p)
  <2>1. rows' \in [Row -> RowType]
    BY <1>0, <1>5, RowCreation DEF BackfillCreate, ReqType
  <2>2. req' \in [Request -> ReqType]
    BY <1>0, <1>5 DEF BackfillCreate, ReqType
  <2>3. QED BY <1>5, <2>1, <2>2 DEF BackfillCreate, Budget
<1>6. CASE Enqueue(p)
  <2>1. req[p].slot \in Slot
    BY <1>0 DEF ReqType
  <2>2. jobs' \in [Job -> JobType] /\ Budget'
    BY <1>6, <2>1, InsertType DEF Enqueue
  <2>3. req' \in [Request -> ReqType]
    BY <1>0, <1>6, DefaultSlot DEF Enqueue, NoReq, ReqType
  <2>4. QED BY <1>6, <2>2, <2>3 DEF Enqueue
<1>7. QED
  BY <1>1, <1>2, <1>3, <1>4, <1>5, <1>6 DEF RequestStep

\* Passing time and a crash preserve the types.
LEMMA EnvironmentType ==
    ASSUME TypeOK, Budget, MinutePasses \/ HourPasses \/ Crash
    PROVE  TypeOK' /\ Budget'
<1> USE DEF TypeOK
<1>1. ASSUME jobs' = [j \in Job |-> [jobs[j] EXCEPT !.recent = FALSE]]
      PROVE  jobs' \in [Job -> JobType] /\ Budget'
  BY <1>1 DEF JobType, Budget
<1>2. CASE MinutePasses
  BY <1>1, <1>2 DEF MinutePasses
<1>3. CASE HourPasses
  <2>1. rows' \in [Row -> RowType]
    <3>1. ASSUME NEW r \in Row
          PROVE  [rows[r] EXCEPT !.stale = rows[r].status \in Unsettled] \in RowType
      <4>1. (rows[r].status \in Unsettled) \in BOOLEAN
        OBVIOUS
      <4>2. QED BY <4>1, RowStale
    <3>2. QED BY <1>3, <3>1 DEF HourPasses
  <2>2. QED BY <1>1, <1>3, <2>1 DEF HourPasses
<1>4. CASE Crash
  <2>1. run' \in [Job -> RunType]
    BY <1>4, RowOne DEF Crash, NoRun, RunType, Flow
  <2>2. req' \in [Request -> ReqType]
    BY <1>4, DefaultSlot DEF Crash, NoReq, ReqType
  <2>3. crashes' \in 0..MaxCrash
    BY <1>4, PipelineAssumption DEF Crash
  <2>4. QED BY <1>4, <2>1, <2>2, <2>3 DEF Crash, Budget
<1>5. QED BY <1>2, <1>3, <1>4

\* A stuttering step preserves the types.
LEMMA StutterType ==
    ASSUME TypeOK, Budget, UNCHANGED vars
    PROVE  TypeOK' /\ Budget'
BY DEF TypeOK, Budget, vars

\* Type correctness of the pipeline, with the attempt budget: no run of a job
\* ever exceeds MaxAttempts, through any order of claims, crashes and rescues.
THEOREM TypeCorrect == Spec => [](TypeOK /\ Budget)
<1>1. Init => TypeOK /\ Budget
  BY TypeInit
<1>2. TypeOK /\ Budget /\ [Next]_vars => TypeOK' /\ Budget'
  BY RunStepType, RiverStepType, CleanupType, RequestStepType, EnvironmentType,
     StutterType DEF Next
<1>3. QED BY <1>1, <1>2, PTL DEF Spec

-----------------------------------------------------------------------------
(* The archive invariant.  CompletedIsStored and CompletedJobPublished are   *)
(* not inductive: they need to know what a run in progress holds.            *)

\* An execution belongs to a job River holds as running.
RunOwnsJob == \A j \in Job : run[j].pc # "none" => jobs[j].state = "running"

\* The row a run works on exists and is of its job's slot.
RunRow ==
    \A j \in Job : run[j].pc \in {"archiving", "storing", "failing", "succeeded"} =>
        Exists(run[j].row) /\ rows[run[j].row].slot = jobs[j].slot

\* A result carries a primary artifact, and a run that succeeded published it.
RunProduct ==
    \A j \in Job :
        /\ run[j].pc = "storing" => "primary" \in run[j].want
        /\ run[j].pc = "succeeded" => "primary" \in rows[run[j].row].keys

\* A retry only has rows to reset that exist.
TodoExists == \A p \in Request : \A r \in req[p].todo : Exists(r)

\* A row that does not exist yet names no object.
AbsentEmpty == \A r \in Row : ~Exists(r) => rows[r].keys = {}

ArchiveInv ==
    /\ AbsentEmpty
    /\ RunOwnsJob /\ RunRow /\ RunProduct /\ TodoExists
    /\ CompletedIsStored /\ CompletedJobPublished

\* What every step keeps of a row: it exists, in its slot, with its archive; and
\* a row that does not exist yet keeps its empty columns.
RowKept(r) ==
    /\ Exists(r)'
    /\ rows'[r].slot = rows[r].slot
    /\ ("primary" \in rows[r].keys) => ("primary" \in rows'[r].keys)

AbsentRowKept(r) == ~Exists(r) /\ rows'[r].keys = rows[r].keys

Kept ==
    \A r \in Row : (Exists(r) => RowKept(r)) /\ (~Exists(r)' => AbsentRowKept(r))

\* A step that leaves the rows alone keeps every archive.
LEMMA UnchangedKeeps ==
    ASSUME CompletedIsStored, UNCHANGED rows
    PROVE  Kept /\ CompletedIsStored'
BY DEF Kept, RowKept, AbsentRowKept, CompletedIsStored, Exists

\* A status update (Work, GiveUp, HandleError, a reset) keeps every archive.
LEMMA StatusKeeps ==
    ASSUME rows \in [Row -> RowType], CompletedIsStored, NEW r \in Row,
           NEW st \in {"pending", "processing", "failed"}, rows' = WithStatus(r, st)
    PROVE  Kept /\ CompletedIsStored'
BY DEF Kept, RowKept, AbsentRowKept, CompletedIsStored, Exists, WithStatus, RowType

\* Creating a row (queueCapture, the backfill) keeps every archive.
LEMMA CreateKeeps ==
    ASSUME rows \in [Row -> RowType], CompletedIsStored, NEW r \in Row,
           NEW s \in Slot, CreateRow(s, r)
    PROVE  Kept /\ CompletedIsStored'
BY DEF Kept, RowKept, AbsentRowKept, CompletedIsStored, Exists, CreateRow, IsNextId, IsFirst, NoRow, RowType

\* A cleanup statement keeps every archive.
LEMMA SweepKeeps ==
    ASSUME rows \in [Row -> RowType], CompletedIsStored, NEW R \in SUBSET Row, Sweep(R)
    PROVE  Kept /\ CompletedIsStored'
<1>1. ASSUME NEW r \in Row
      PROVE  /\ rows'[r].slot = rows[r].slot /\ rows'[r].keys = rows[r].keys /\ rows'[r].stored = rows[r].stored
             /\ rows'[r].status \in {rows[r].status, "failed"}
  <2>1. rows[r] \in RowType /\ rows'[r] \in {rows[r], [rows[r] EXCEPT !.status = "failed", !.stale = FALSE]}
    BY DEF Sweep
  <2>2. QED BY <2>1 DEF RowType
<1>2. Kept
  BY <1>1 DEF Kept, RowKept, AbsentRowKept, Exists
<1>3. CompletedIsStored'
  BY <1>1 DEF CompletedIsStored
<1>4. QED BY <1>2, <1>3

\* Time going by keeps every archive.
LEMMA HourKeeps ==
    ASSUME rows \in [Row -> RowType], CompletedIsStored, HourPasses
    PROVE  Kept /\ CompletedIsStored'
<1>1. ASSUME NEW r \in Row
      PROVE  /\ rows'[r].slot = rows[r].slot /\ rows'[r].keys = rows[r].keys /\ rows'[r].stored = rows[r].stored
             /\ rows'[r].status = rows[r].status
  BY DEF HourPasses, RowType
<1>2. Kept
  BY <1>1 DEF Kept, RowKept, AbsentRowKept, Exists
<1>3. CompletedIsStored'
  BY <1>1 DEF CompletedIsStored
<1>4. QED BY <1>2, <1>3

\* The update of saveArchiveResult publishes a row whose objects are all stored.
LEMMA PublishKeeps ==
    ASSUME TypeOK, CompletedIsStored, RunProduct, NEW j \in Job,
           run[j].pc = "storing", run[j].wrote = run[j].want,
           rows' = [rows EXCEPT ![run[j].row] = Published(j)]
    PROVE  /\ Kept /\ CompletedIsStored'
           /\ "primary" \in rows'[run[j].row].keys
<1>1. run[j].row \in Row /\ rows[run[j].row] \in RowType
  BY DEF TypeOK, RunType
<1>2. "primary" \in run[j].want
  BY DEF RunProduct
<1>3. /\ Published(j).status = "completed" /\ Published(j).slot = rows[run[j].row].slot
      /\ Published(j).keys = run[j].want /\ Published(j).stored = run[j].want
  BY <1>1 DEF Published, RowType
<1>4. \A r \in Row : rows'[r] = IF r = run[j].row THEN Published(j) ELSE rows[r]
  BY <1>1 DEF TypeOK
<1>5. QED
  BY <1>1, <1>2, <1>3, <1>4 DEF Kept, RowKept, AbsentRowKept, CompletedIsStored, Exists

\* Completed jobs keep their archive as long as no other job is completed.
LEMMA CompletedJobsKept ==
    ASSUME Kept, CompletedJobPublished,
           \A j \in Job : jobs'[j].state = "completed" =>
               jobs[j].state = "completed" /\ jobs'[j].slot = jobs[j].slot
    PROVE  CompletedJobPublished'
<1>1. ASSUME NEW j \in Job, jobs'[j].state = "completed"
      PROVE  \E r \in SlotRows(jobs[j].slot)' : "primary" \in rows'[r].keys
  <2>1. PICK r \in SlotRows(jobs[j].slot) : "primary" \in rows[r].keys
    BY <1>1 DEF CompletedJobPublished
  <2>2. r \in SlotRows(jobs[j].slot)' /\ "primary" \in rows'[r].keys
    BY <1>1, <2>1 DEF Kept, RowKept, AbsentRowKept, SlotRows, Exists
  <2>3. QED BY <2>2
<1>2. QED BY <1>1 DEF CompletedJobPublished

\* What is known of an execution survives any step that keeps the rows and leaves runs and jobs alone.
LEMMA RunsKept ==
    ASSUME TypeOK, Kept, RunOwnsJob, RunRow, RunProduct, UNCHANGED <<jobs, run>>
    PROVE  RunOwnsJob' /\ RunRow' /\ RunProduct'
BY DEF TypeOK, RunType, Kept, RowKept, AbsentRowKept, RunOwnsJob, RunRow, RunProduct, Exists

\* A step of one run: what it must establish of its own run.
LEMMA OtherRunsKept ==
    ASSUME TypeOK, Kept, RunOwnsJob, RunRow, RunProduct, UNCHANGED jobs,
           NEW j \in Job, run[j].pc # "none",
           \A i \in Job : i # j => run'[i] = run[i],
           run'[j].pc \in {"archiving", "storing", "failing", "succeeded"} =>
               run'[j].row \in Row /\ Exists(run'[j].row) /\ rows[run'[j].row].slot = jobs[j].slot,
           run'[j].pc = "storing" => "primary" \in run'[j].want,
           run'[j].pc = "succeeded" => "primary" \in rows'[run'[j].row].keys
    PROVE  RunOwnsJob' /\ RunRow' /\ RunProduct'
<1>0. \A i \in Job : run[i].row \in Row
  BY DEF TypeOK, RunType
<1>1. RunOwnsJob'
  BY DEF RunOwnsJob
<1>2. RunRow'
  BY <1>0 DEF RunRow, Kept, RowKept, Exists
<1>3. RunProduct'
  <2>1. ASSUME NEW i \in Job, i # j
        PROVE  /\ run'[i].pc = "storing" => "primary" \in run'[i].want
               /\ run'[i].pc = "succeeded" => "primary" \in rows'[run'[i].row].keys
    BY <1>0, <2>1 DEF RunRow, RunProduct, Kept, RowKept
  <2>2. QED BY <2>1 DEF RunProduct
<1>4. QED BY <1>1, <1>2, <1>3

\* The rows a retry-all has still to reset stay in the table.
LEMMA TodoKept ==
    ASSUME TypeOK, Kept, TodoExists, UNCHANGED req
    PROVE  TodoExists'
BY DEF TypeOK, ReqType, Kept, RowKept, AbsentRowKept, TodoExists, Exists

\* A row id that is not used yet carries no archive.
LEMMA AbsentKept ==
    ASSUME Kept, AbsentEmpty
    PROVE  AbsentEmpty'
BY DEF Kept, RowKept, AbsentRowKept, AbsentEmpty, Exists

\* The inductive invariant holds of the empty tables.
LEMMA ArchiveInit == Init => ArchiveInv
BY DEF Init, ArchiveInv, AbsentEmpty, Exists, RunOwnsJob, RunRow, RunProduct, TodoExists,
       CompletedIsStored, CompletedJobPublished, NoRow, NoJob, NoRun, NoReq

\* Every step of an execution of Work preserves the invariant and keeps every archive.
LEMMA RunStepArchive ==
    ASSUME TypeOK, ArchiveInv, NEW j \in Job, RunStep(j)
    PROVE  ArchiveInv' /\ Kept
<1> USE AbsentKept DEF ArchiveInv
<1>0. /\ rows \in [Row -> RowType] /\ jobs \in [Job -> JobType]
      /\ run \in [Job -> RunType] /\ run[j].row \in Row
  BY DEF TypeOK, RunType
<1>1. CASE Work(j)
  <2>1. Kept /\ CompletedIsStored'
    BY <1>0, <1>1, StatusKeeps, UnchangedKeeps DEF Work, MaybeStatus
  <2>2. CompletedJobPublished' /\ TodoExists'
    BY <1>1, <2>1, CompletedJobsKept, TodoKept DEF Work
  <2>3. CASE Step(j, "erred")
    <3>1. run'[j].pc = "erred" /\ \A i \in Job : i # j => run'[i] = run[i]
      BY <1>0, <2>3 DEF Step, RunType
    <3>2. RunOwnsJob' /\ RunRow' /\ RunProduct'
      BY <1>1, <2>1, <3>1, OtherRunsKept DEF Work
    <3>3. QED BY <2>1, <2>2, <3>2
  <2>4. ASSUME NEW r \in Row, IsFirst(r, SlotRows(jobs[j].slot)),
               run' = [run EXCEPT ![j].pc = "archiving", ![j].row = r]
        PROVE  ArchiveInv' /\ Kept
    <3>1. Exists(r) /\ rows[r].slot = jobs[j].slot
      BY <2>4 DEF IsFirst, SlotRows
    <3>2. /\ run'[j].pc = "archiving" /\ run'[j].row = r
          /\ \A i \in Job : i # j => run'[i] = run[i]
      BY <1>0, <2>4 DEF RunType
    <3>3. RunOwnsJob' /\ RunRow' /\ RunProduct'
      BY <1>1, <2>1, <3>1, <3>2, OtherRunsKept DEF Work
    <3>4. QED BY <2>1, <2>2, <3>3
  <2>5. QED BY <1>1, <2>3, <2>4 DEF Work
<1>2. CASE Archive(j)
  <2>1. Kept /\ CompletedIsStored' /\ CompletedJobPublished' /\ TodoExists'
    BY <1>2, UnchangedKeeps, CompletedJobsKept, TodoKept DEF Archive
  <2>2. /\ \A i \in Job : i # j => run'[i] = run[i]
        /\ run'[j].pc \in {"storing", "failing", "erred"} /\ run'[j].row = run[j].row
        /\ run'[j].pc = "storing" => "primary" \in run'[j].want
    <3>1. ASSUME NEW W \in SUBSET Sidecar, NEW f \in Flow,
                 run' = [run EXCEPT ![j] = [@ EXCEPT !.pc = "storing", !.made = f,
                                                     !.want = W \cup {"primary"}]]
          PROVE  run'[j].row = run[j].row /\ run'[j].pc = "storing"
                 /\ run'[j].want = W \cup {"primary"}
      BY <1>0, <3>1 DEF RunType
    <3>2. \A i \in Job : i # j => run'[i] = run[i]
      BY <1>0, <1>2 DEF Archive, Step
    <3>3. CASE Step(j, "failing") \/ Step(j, "erred")
      BY <1>0, <3>2, <3>3 DEF Step, RunType
    <3>4. QED BY <1>2, <3>1, <3>2, <3>3 DEF Archive
  <2>3. UNCHANGED <<rows, jobs>> /\ run[j].pc = "archiving"
    BY <1>2 DEF Archive
  <2>4. RunOwnsJob'
    BY <1>0, <2>2, <2>3 DEF RunOwnsJob
  <2>5. RunRow'
    BY <1>0, <2>2, <2>3 DEF RunRow, Exists
  <2>6. RunProduct'
    BY <1>0, <2>2, <2>3 DEF RunProduct
  <2>7. QED BY <2>1, <2>4, <2>5, <2>6
<1>3. CASE StoreArtifact(j)
  <2>1. Kept /\ CompletedIsStored' /\ CompletedJobPublished' /\ TodoExists'
    BY <1>3, UnchangedKeeps, CompletedJobsKept, TodoKept DEF StoreArtifact
  <2>2. /\ \A i \in Job : i # j => run'[i] = run[i]
        /\ run'[j].pc \in {"storing", "failing"} /\ run'[j].row = run[j].row /\ run'[j].want = run[j].want
        /\ run[j].pc = "storing" /\ UNCHANGED <<rows, jobs>>
    BY <1>0, <1>3 DEF StoreArtifact, Step, RunType
  <2>3. RunOwnsJob'
    BY <2>2 DEF RunOwnsJob
  <2>4. RunRow'
    BY <2>2 DEF RunRow, Exists
  <2>5. RunProduct'
    BY <2>2 DEF RunProduct
  <2>6. QED BY <2>1, <2>3, <2>4, <2>5
<1>4. CASE Publish(j)
  <2>1. CASE rows' = [rows EXCEPT ![run[j].row] = Published(j)] /\ Step(j, "succeeded")
    <3>1. /\ Kept /\ CompletedIsStored'
          /\ "primary" \in rows'[run[j].row].keys
      BY <1>4, <2>1, PublishKeeps DEF Publish
    <3>2. CompletedJobPublished' /\ TodoExists'
      BY <1>4, <3>1, CompletedJobsKept, TodoKept DEF Publish
    <3>3. RunOwnsJob' /\ RunRow' /\ RunProduct'
      BY <1>0, <1>4, <2>1, <3>1
      DEF Publish, Step, RunType, Kept, RowKept, AbsentRowKept, RunOwnsJob, RunRow, RunProduct, Exists
    <3>4. QED BY <3>1, <3>2, <3>3
  <2>2. CASE Step(j, "failing") /\ UNCHANGED rows
    <3>1. Kept /\ CompletedIsStored' /\ CompletedJobPublished' /\ TodoExists'
      BY <1>4, <2>2, UnchangedKeeps, CompletedJobsKept, TodoKept DEF Publish
    <3>2. RunOwnsJob' /\ RunRow' /\ RunProduct'
      BY <1>0, <1>4, <2>2
      DEF Publish, Step, RunType, RunOwnsJob, RunRow, RunProduct, Exists
    <3>3. QED BY <3>1, <3>2
  <2>3. QED BY <1>4, <2>1, <2>2 DEF Publish
<1>5. CASE GiveUp(j)
  <2>1. Kept /\ CompletedIsStored'
    BY <1>0, <1>5, StatusKeeps, UnchangedKeeps DEF GiveUp, MaybeStatus
  <2>2. CompletedJobPublished' /\ TodoExists'
    BY <1>5, <2>1, CompletedJobsKept, TodoKept DEF GiveUp
  <2>3. RunOwnsJob' /\ RunRow' /\ RunProduct'
    BY <1>0, <1>5, <2>1
    DEF GiveUp, Step, RunType, Kept, RowKept, AbsentRowKept, RunOwnsJob, RunRow, RunProduct, Exists
  <2>4. QED BY <2>1, <2>2, <2>3
<1>6. CASE HandleError(j)
  <2>1. Kept /\ CompletedIsStored'
    BY <1>0, <1>6, StatusKeeps, UnchangedKeeps DEF HandleError, MaybeStatus
  <2>2. CompletedJobPublished' /\ TodoExists'
    BY <1>6, <2>1, CompletedJobsKept, TodoKept DEF HandleError
  <2>3. RunOwnsJob' /\ RunRow' /\ RunProduct'
    BY <1>0, <1>6, <2>1
    DEF HandleError, Step, RunType, Kept, RowKept, AbsentRowKept, RunOwnsJob, RunRow, RunProduct, Exists
  <2>4. QED BY <2>1, <2>2, <2>3
<1>7. CASE Report(j)
  <2>1. Kept /\ CompletedIsStored' /\ TodoExists'
    BY <1>7, UnchangedKeeps, TodoKept DEF Report
  <2>2. RunOwnsJob' /\ RunRow' /\ RunProduct'
    BY <1>0, <1>7
    DEF Report, NoRun, RunType, JobType, RunOwnsJob, RunRow, RunProduct, Exists
  <2>3. /\ \A i \in Job : i # j => jobs'[i] = jobs[i]
        /\ jobs'[j].slot = jobs[j].slot
        /\ jobs'[j].state = "completed" => run[j].pc = "succeeded"
    BY <1>0, <1>7 DEF Report, AfterFailure, JobType
  <2>4. CASE run[j].pc = "succeeded"
    <3>1. /\ run[j].row \in SlotRows(jobs[j].slot)
          /\ "primary" \in rows[run[j].row].keys
      BY <1>0, <2>4 DEF RunRow, RunProduct, SlotRows
    <3>2. SlotRows(jobs[j].slot)' = SlotRows(jobs[j].slot)
      BY <1>7, <2>3 DEF Report, SlotRows, Exists
    <3>3. CompletedJobPublished'
      BY <1>7, <2>3, <3>1, <3>2 DEF Report, CompletedJobPublished, SlotRows, Exists
    <3>4. QED BY <2>1, <2>2, <3>3
  <2>5. CASE run[j].pc # "succeeded"
    BY <2>1, <2>2, <2>3, <2>5, CompletedJobsKept
  <2>6. QED BY <2>4, <2>5
<1>8. QED
  BY <1>1, <1>2, <1>3, <1>4, <1>5, <1>6, <1>7 DEF RunStep

\* A claim, a rescue or the deletion of a finished job preserves the invariant.
LEMMA RiverStepArchive ==
    ASSUME TypeOK, ArchiveInv, NEW j \in Job, RiverStep(j)
    PROVE  ArchiveInv' /\ Kept
<1> USE AbsentKept DEF ArchiveInv
<1>0. /\ jobs \in [Job -> JobType] /\ run \in [Job -> RunType]
      /\ UNCHANGED <<rows, req>>
  BY DEF TypeOK, RiverStep, Claim, RescueStuckJob, DeleteFinishedJob
<1>1. Kept /\ CompletedIsStored' /\ TodoExists'
  BY <1>0, UnchangedKeeps, TodoKept
<1>2. /\ \A i \in Job : i # j => jobs'[i] = jobs[i] /\ run'[i] = run[i]
      /\ jobs'[j].state # "completed"
  <2>1. CASE Claim(j)
    BY <1>0, <2>1 DEF Claim, JobType
  <2>2. CASE RescueStuckJob(j)
    BY <1>0, <2>2 DEF RescueStuckJob, AfterFailure, JobType
  <2>3. CASE DeleteFinishedJob(j)
    BY <1>0, <2>3 DEF DeleteFinishedJob, NoJob
  <2>4. QED BY <2>1, <2>2, <2>3 DEF RiverStep
<1>3. CompletedJobPublished'
  BY <1>1, <1>2, CompletedJobsKept
<1>4. CASE Claim(j)
  BY <1>0, <1>1, <1>3, <1>4
  DEF Claim, NoRun, JobType, RunType, RunOwnsJob, RunRow, RunProduct, Exists
<1>5. CASE RescueStuckJob(j)
  BY <1>0, <1>1, <1>2, <1>3, <1>5
  DEF RescueStuckJob, RunOwnsJob, RunRow, RunProduct, Exists
<1>6. CASE DeleteFinishedJob(j)
  BY <1>0, <1>1, <1>2, <1>3, <1>6
  DEF DeleteFinishedJob, RunOwnsJob, RunRow, RunProduct, Exists
<1>7. QED BY <1>4, <1>5, <1>6 DEF RiverStep

\* The cleanup preserves the invariant: it touches statuses only.
LEMMA CleanupArchive ==
    ASSUME TypeOK, ArchiveInv, CleanupStep
    PROVE  ArchiveInv' /\ Kept
<1> USE AbsentKept DEF ArchiveInv
<1>1. PICK R \in SUBSET Row : Sweep(R)
  BY DEF CleanupStep, SweepPending, SweepProcessing, SweepDiscarded
<1>2. Kept /\ CompletedIsStored'
  BY <1>1, SweepKeeps DEF TypeOK
<1>3. UNCHANGED <<jobs, run, req>>
  BY <1>1 DEF Sweep
<1>4. QED BY <1>2, <1>3, CompletedJobsKept, RunsKept, TodoKept

\* A request preserves the invariant: it creates empty rows and resets statuses.
LEMMA RequestStepArchive ==
    ASSUME TypeOK, ArchiveInv, NEW p \in Request, RequestStep(p)
    PROVE  ArchiveInv' /\ Kept
<1> USE AbsentKept DEF ArchiveInv
<1>0. /\ rows \in [Row -> RowType] /\ jobs \in [Job -> JobType]
      /\ run \in [Job -> RunType] /\ req \in [Request -> ReqType] /\ req[p] \in ReqType
  BY DEF TypeOK
<1>1. ASSUME NEW s \in Slot, Submit(p, s) PROVE ArchiveInv' /\ Kept
  <2>1. Kept /\ CompletedIsStored'
    BY <1>0, <1>1, CreateKeeps DEF Submit
  <2>2. CompletedJobPublished' /\ RunOwnsJob' /\ RunRow' /\ RunProduct'
    BY <1>1, <2>1, CompletedJobsKept, RunsKept DEF Submit
  <2>3. TodoExists'
    BY <1>0, <1>1, <2>1 DEF Submit, NoReq, TodoExists, Kept, RowKept, AbsentRowKept, ReqType, Exists
  <2>4. QED BY <2>1, <2>2, <2>3
<1>2. ASSUME NEW s \in Slot, BackfillSelect(p, s) PROVE ArchiveInv' /\ Kept
  <2>1. Kept /\ CompletedIsStored'
    BY <1>2, UnchangedKeeps DEF BackfillSelect
  <2>2. CompletedJobPublished' /\ RunOwnsJob' /\ RunRow' /\ RunProduct'
    BY <1>2, <2>1, CompletedJobsKept, RunsKept DEF BackfillSelect
  <2>3. TodoExists'
    BY <1>0, <1>2 DEF BackfillSelect, NoReq, TodoExists, Exists
  <2>4. QED BY <2>1, <2>2, <2>3
<1>3. ASSUME NEW R \in SUBSET Row, RetrySelect(p, R) PROVE ArchiveInv' /\ Kept
  <2>1. Kept /\ CompletedIsStored'
    BY <1>3, UnchangedKeeps DEF RetrySelect
  <2>2. CompletedJobPublished' /\ RunOwnsJob' /\ RunRow' /\ RunProduct'
    BY <1>3, <2>1, CompletedJobsKept, RunsKept DEF RetrySelect
  <2>3. TodoExists'
    BY <1>0, <1>3 DEF RetrySelect, NoReq, TodoExists, Exists
  <2>4. QED BY <2>1, <2>2, <2>3
<1>4. ASSUME NEW r \in Row, RetryReset(p, r) PROVE ArchiveInv' /\ Kept
  <2>1. Kept /\ CompletedIsStored'
    BY <1>0, <1>4, StatusKeeps DEF RetryReset
  <2>2. CompletedJobPublished' /\ RunOwnsJob' /\ RunRow' /\ RunProduct'
    BY <1>4, <2>1, CompletedJobsKept, RunsKept DEF RetryReset
  <2>3. TodoExists'
    BY <1>0, <1>4, <2>1 DEF RetryReset, TodoExists, Kept, RowKept, AbsentRowKept, ReqType, Exists
  <2>4. QED BY <2>1, <2>2, <2>3
<1>5. CASE BackfillCreate(p)
  <2>1. Kept /\ CompletedIsStored'
    BY <1>0, <1>5, CreateKeeps DEF BackfillCreate, ReqType
  <2>2. CompletedJobPublished' /\ RunOwnsJob' /\ RunRow' /\ RunProduct'
    BY <1>5, <2>1, CompletedJobsKept, RunsKept DEF BackfillCreate
  <2>3. TodoExists'
    BY <1>0, <1>5, <2>1 DEF BackfillCreate, TodoExists, Kept, RowKept, AbsentRowKept, ReqType, Exists
  <2>4. QED BY <2>1, <2>2, <2>3
<1>6. CASE Enqueue(p)
  <2>1. Kept /\ CompletedIsStored'
    BY <1>6, UnchangedKeeps DEF Enqueue
  <2>2. \A i \in Job :
           (jobs'[i] = jobs[i]) \/ (jobs[i].state = "none" /\ jobs'[i].state = "available")
    BY <1>0, <1>6 DEF Enqueue, Insert
  <2>3. CompletedJobPublished'
    BY <2>1, <2>2, CompletedJobsKept
  <2>4. RunOwnsJob' /\ RunRow' /\ RunProduct'
    <3>1. \A i \in Job : run[i].pc # "none" => jobs'[i] = jobs[i]
      BY <2>2 DEF RunOwnsJob
    <3>2. QED BY <1>6, <3>1 DEF Enqueue, RunOwnsJob, RunRow, RunProduct, Exists
  <2>5. TodoExists'
    BY <1>0, <1>6 DEF Enqueue, NoReq, TodoExists, ReqType, Exists
  <2>6. QED BY <2>1, <2>3, <2>4, <2>5
<1>7. QED
  BY <1>1, <1>2, <1>3, <1>4, <1>5, <1>6 DEF RequestStep

\* Time and crashes preserve the invariant: what a crash loses is never relied on.
LEMMA EnvironmentArchive ==
    ASSUME TypeOK, ArchiveInv, MinutePasses \/ HourPasses \/ Crash
    PROVE  ArchiveInv' /\ Kept
<1> USE AbsentKept DEF ArchiveInv
<1>1. Kept /\ CompletedIsStored'
  BY HourKeeps, UnchangedKeeps DEF TypeOK, MinutePasses, Crash
<1>2. \A j \in Job : jobs'[j].state = jobs[j].state /\ jobs'[j].slot = jobs[j].slot
  BY DEF TypeOK, JobType, MinutePasses, HourPasses, Crash
<1>3. CompletedJobPublished'
  BY <1>1, <1>2, CompletedJobsKept
<1>4. CASE MinutePasses \/ HourPasses
  <2>1. UNCHANGED <<run, req>>
    BY <1>4 DEF MinutePasses, HourPasses
  <2>2. RunOwnsJob' /\ RunRow' /\ RunProduct'
    BY <1>1, <1>2, <2>1
    DEF TypeOK, RunType, Kept, RowKept, AbsentRowKept, RunOwnsJob, RunRow, RunProduct, Exists
  <2>3. QED BY <1>1, <1>3, <2>1, <2>2, TodoKept
<1>5. CASE Crash
  BY <1>1, <1>3, <1>5
  DEF Crash, NoRun, NoReq, RunOwnsJob, RunRow, RunProduct, TodoExists
<1>6. QED BY <1>4, <1>5

\* A stuttering step preserves the invariant.
LEMMA StutterArchive ==
    ASSUME TypeOK, ArchiveInv, UNCHANGED vars
    PROVE  ArchiveInv' /\ Kept
<1> USE AbsentKept DEF ArchiveInv, vars
<1>1. Kept /\ CompletedIsStored'
  BY UnchangedKeeps
<1>2. QED BY <1>1, CompletedJobsKept, RunsKept, TodoKept

\* Every step preserves the invariant and loses no archive.
LEMMA NextArchive ==
    ASSUME TypeOK, ArchiveInv, [Next]_vars
    PROVE  ArchiveInv' /\ Kept
BY RunStepArchive, RiverStepArchive, CleanupArchive, RequestStepArchive,
   EnvironmentArchive, StutterArchive DEF Next

\* The inductive invariant behind the results below.
THEOREM ArchiveInvariant == Spec => []ArchiveInv
<1>1. TypeOK /\ ArchiveInv /\ [Next]_vars => ArchiveInv'
  BY NextArchive
<1>2. QED BY <1>1, ArchiveInit, TypeCorrect, PTL DEF Spec

\* A completed item is readable, and every key of a row leads to a stored object.
THEOREM CompletedStored == Spec => []CompletedIsStored
<1>1. ArchiveInv => CompletedIsStored
  BY DEF ArchiveInv
<1>2. QED BY <1>1, ArchiveInvariant, PTL

\* A job River reports as completed left a published archive in its slot.
THEOREM JobPublished == Spec => []CompletedJobPublished
<1>1. ArchiveInv => CompletedJobPublished
  BY DEF ArchiveInv
<1>2. QED BY <1>1, ArchiveInvariant, PTL

-----------------------------------------------------------------------------
(* The pipeline implements ItemLifecycle: every step is a lifecycle step of  *)
(* one row (of several, for a cleanup statement) or leaves the view alone.   *)

Status == [r \in Row |-> rows[r].status]
Archived == [r \in Row |-> "primary" \in rows[r].keys /\ rows[r].keys \subseteq rows[r].stored]

\* A step that leaves the rows alone is a stutter of the abstract lifecycle.
LEMMA ViewUnchanged ==
    ASSUME UNCHANGED rows
    PROVE  UNCHANGED Lifecycle!vars
BY DEF Lifecycle!vars

\* A status update maps to Reopen or Fail.
LEMMA ViewOfStatus ==
    ASSUME rows \in [Row -> RowType], NEW r \in Row, Exists(r),
           NEW st \in {"pending", "processing", "failed"}, rows' = WithStatus(r, st)
    PROVE  Lifecycle!Next
<1>1. \A q \in Row : /\ rows'[q].status = IF q = r THEN st ELSE rows[q].status
                     /\ rows'[q].keys = rows[q].keys /\ rows'[q].stored = rows[q].stored
  BY DEF WithStatus, RowType
<1>2. Archived' = Archived
  BY <1>1 DEF Archived
<1>3. Status' = [Status EXCEPT ![r] = st]
  BY <1>1 DEF Status
<1>4. r \in Lifecycle!Existing
  BY DEF Lifecycle!Existing, Exists
<1>5. CASE st = "failed"
  <2>1. Lifecycle!Fail({r})
    BY <1>2, <1>3, <1>5 DEF Lifecycle!Fail, Status, Archived
  <2>2. QED BY <1>4, <2>1 DEF Lifecycle!Next
<1>6. CASE st # "failed"
  <2>1. Lifecycle!Reopen(r)
    BY <1>2, <1>3, <1>4, <1>6 DEF Lifecycle!Reopen, Status, Archived
  <2>2. QED BY <2>1 DEF Lifecycle!Next
<1>7. QED BY <1>5, <1>6

\* A row creation maps to Create.
LEMMA ViewOfCreate ==
    ASSUME rows \in [Row -> RowType], CompletedIsStored, NEW r \in Row, NEW s \in Slot,
           rows[r].keys = {}, CreateRow(s, r)
    PROVE  Lifecycle!Next
<1>1. ~Exists(r)
  BY DEF CreateRow, IsNextId, IsFirst
<1>2. /\ rows'[r].status = "pending" /\ rows'[r].keys = {}
      /\ \A q \in Row : q # r => rows'[q] = rows[q]
  BY DEF CreateRow, NoRow
<1>3. Status' = [Status EXCEPT ![r] = "pending"]
  BY <1>2 DEF Status
<1>4. Archived' = Archived
  BY <1>2 DEF Archived
<1>5. Lifecycle!Create(r)
  BY <1>1, <1>3, <1>4 DEF Lifecycle!Create, Lifecycle!Existing, Exists, Status, Archived
<1>6. QED BY <1>5 DEF Lifecycle!Next

\* A cleanup statement maps to Fail of the rows it sweeps.
LEMMA ViewOfSweep ==
    ASSUME rows \in [Row -> RowType], NEW R \in SUBSET Row,
           \A r \in R : Exists(r), Sweep(R)
    PROVE  Lifecycle!Next
<1>1. \A r \in Row : /\ rows'[r].status = IF r \in R THEN "failed" ELSE rows[r].status
                     /\ rows'[r].keys = rows[r].keys /\ rows'[r].stored = rows[r].stored
  BY DEF Sweep, RowType
<1>2. Archived' = Archived
  BY <1>1 DEF Archived
<1>3. Status' = [r \in Row |-> IF r \in R THEN "failed" ELSE Status[r]]
  BY <1>1 DEF Status
<1>4. R \in SUBSET Lifecycle!Existing
  BY DEF Lifecycle!Existing, Exists
<1>5. Lifecycle!Fail(R)
  BY <1>2, <1>3 DEF Lifecycle!Fail, Status, Archived
<1>6. QED BY <1>4, <1>5 DEF Lifecycle!Next

\* saveArchiveResult's update maps to Publish.
LEMMA ViewOfPublish ==
    ASSUME TypeOK, ArchiveInv, NEW j \in Job, Publish(j)
    PROVE  Lifecycle!Next \/ UNCHANGED Lifecycle!vars
<1>1. CASE UNCHANGED rows
  BY <1>1, ViewUnchanged
<1>2. CASE rows' = [rows EXCEPT ![run[j].row] = Published(j)]
  <2>0. PICK r \in Row : r = run[j].row
    BY DEF TypeOK, RunType
  <2>1. rows[r] \in RowType /\ rows \in [Row -> RowType]
    BY DEF TypeOK
  <2>2. Exists(r) /\ "primary" \in run[j].want /\ run[j].wrote = run[j].want
    BY <2>0 DEF Publish, ArchiveInv, RunRow, RunProduct
  <2>3. /\ Published(j).status = "completed"
        /\ Published(j).keys = run[j].want /\ Published(j).stored = run[j].want
    BY <2>0, <2>1, <2>2 DEF Published, RowType
  <2>4. \A q \in Row : rows'[q] = IF q = r THEN Published(j) ELSE rows[q]
    BY <1>2, <2>0, <2>1
  <2>5. Status' = [Status EXCEPT ![r] = "completed"]
    BY <2>1, <2>3, <2>4 DEF Status
  <2>6. Archived' = [Archived EXCEPT ![r] = TRUE]
    <3>1. \A q \in Row : ("primary" \in rows'[q].keys /\ rows'[q].keys \subseteq rows'[q].stored)
              = IF q = r THEN TRUE
                ELSE ("primary" \in rows[q].keys /\ rows[q].keys \subseteq rows[q].stored)
      BY <2>1, <2>2, <2>3, <2>4
    <3>2. QED BY <3>1, <2>1 DEF Archived
  <2>7. Lifecycle!Publish(r)
    BY <2>1, <2>2, <2>5, <2>6
    DEF Lifecycle!Publish, Lifecycle!Existing, Exists, Status, Archived
  <2>8. QED BY <2>7 DEF Lifecycle!Next
<1>3. QED BY <1>1, <1>2 DEF Publish

\* Time going by is a stutter of the abstract lifecycle.
LEMMA ViewOfHour ==
    ASSUME rows \in [Row -> RowType], HourPasses
    PROVE  UNCHANGED Lifecycle!vars
<1>1. \A r \in Row : /\ rows'[r].status = rows[r].status
                     /\ rows'[r].keys = rows[r].keys /\ rows'[r].stored = rows[r].stored
  BY DEF HourPasses, RowType
<1>2. Status' = Status /\ Archived' = Archived
  BY <1>1 DEF Status, Archived
<1>3. QED BY <1>2 DEF Lifecycle!vars, Status, Archived

\* The empty tables map to the initial state of the abstract lifecycle.
LEMMA LifecycleInit == Init => Lifecycle!Init
<1> SUFFICES ASSUME Init PROVE Lifecycle!Init
  OBVIOUS
<1>1. \A r \in Row : rows[r].status = "absent" /\ rows[r].keys = {}
  BY DEF Init, NoRow
<1>2. \A r \in Row : ("primary" \in rows[r].keys /\ rows[r].keys \subseteq rows[r].stored) = FALSE
  BY <1>1
<1>3. QED BY <1>1, <1>2 DEF Lifecycle!Init

\* Every step maps to a step of the abstract lifecycle or to a stutter.
LEMMA LifecycleStep ==
    ASSUME TypeOK, ArchiveInv, [Next]_vars
    PROVE  Lifecycle!Next \/ UNCHANGED Lifecycle!vars
<1>0. rows \in [Row -> RowType] /\ (\A j \in Job : run[j].row \in Row)
  BY DEF TypeOK, RunType
<1>1. ASSUME NEW j \in Job, RunStep(j)
      PROVE  Lifecycle!Next \/ UNCHANGED Lifecycle!vars
  <2>1. CASE Work(j)
    BY <1>0, <2>1, ViewOfStatus, ViewUnchanged DEF Work, MaybeStatus, IsFirst, SlotRows
  <2>2. CASE Archive(j) \/ StoreArtifact(j) \/ Report(j)
    BY <2>2, ViewUnchanged DEF Archive, StoreArtifact, Report
  <2>3. CASE Publish(j)
    BY <2>3, ViewOfPublish
  <2>4. CASE GiveUp(j)
    <3>1. Exists(run[j].row)
      BY <2>4 DEF GiveUp, ArchiveInv, RunRow
    <3>2. QED BY <1>0, <2>4, <3>1, ViewOfStatus, ViewUnchanged DEF GiveUp, MaybeStatus
  <2>5. CASE HandleError(j)
    BY <1>0, <2>5, ViewOfStatus, ViewUnchanged
    DEF HandleError, MaybeStatus, IsFirst, SlotRows
  <2>6. QED BY <1>1, <2>1, <2>2, <2>3, <2>4, <2>5 DEF RunStep
<1>2. ASSUME NEW j \in Job, RiverStep(j)
      PROVE  UNCHANGED Lifecycle!vars
  BY <1>2, ViewUnchanged DEF RiverStep, Claim, RescueStuckJob, DeleteFinishedJob
<1>3. CASE CleanupStep
  <2>1. PICK R \in SUBSET Row : Sweep(R) /\ \A r \in R : Exists(r)
    BY <1>3 DEF CleanupStep, SweepPending, SweepProcessing, SweepDiscarded, Exists, Unsettled
  <2>2. QED BY <1>0, <2>1, ViewOfSweep
<1>4. ASSUME NEW p \in Request, RequestStep(p)
      PROVE  Lifecycle!Next \/ UNCHANGED Lifecycle!vars
  <2>0. req[p].slot \in Slot
    BY DEF TypeOK, ReqType
  <2>1. ASSUME NEW s \in Slot, NEW r \in Row, CreateRow(s, r)
        PROVE  Lifecycle!Next
    <3>1. rows[r].keys = {}
      BY <2>1 DEF CreateRow, IsNextId, IsFirst, ArchiveInv, AbsentEmpty
    <3>2. QED BY <1>0, <2>1, <3>1, ViewOfCreate DEF ArchiveInv
  <2>2. CASE (\E s \in Slot : Submit(p, s)) \/ BackfillCreate(p)
    BY <2>0, <2>1, <2>2 DEF Submit, BackfillCreate
  <2>3. ASSUME NEW r \in Row, RetryReset(p, r)
        PROVE  Lifecycle!Next
    <3>1. Exists(r)
      BY <2>3 DEF RetryReset, ArchiveInv, TodoExists
    <3>2. QED BY <1>0, <2>3, <3>1, ViewOfStatus DEF RetryReset
  <2>4. CASE \/ \E s \in Slot : BackfillSelect(p, s)
             \/ \E R \in SUBSET Row : RetrySelect(p, R)
             \/ Enqueue(p)
    BY <2>4, ViewUnchanged DEF BackfillSelect, RetrySelect, Enqueue
  <2>5. QED BY <1>4, <2>2, <2>3, <2>4 DEF RequestStep
<1>5. CASE MinutePasses \/ Crash \/ UNCHANGED vars
  BY <1>5, ViewUnchanged DEF MinutePasses, Crash, vars
<1>6. CASE HourPasses
  BY <1>0, <1>6, ViewOfHour
<1>7. QED BY <1>1, <1>2, <1>3, <1>4, <1>5, <1>6 DEF Next

\* The refinement: readers never lose an archive, and "completed" always has one.
THEOREM Refinement == Spec => ImplementsLifecycle
<1>1. TypeOK /\ ArchiveInv /\ [Next]_vars => [Lifecycle!Next]_(Lifecycle!vars)
  BY LifecycleStep
<1>2. QED
  BY <1>1, LifecycleInit, TypeCorrect, ArchiveInvariant, PTL
  DEF Spec, ImplementsLifecycle, Lifecycle!Spec

-----------------------------------------------------------------------------
(* Who may fail an item.                                                     *)

\* r goes from unsettled to failed in this step.
GivenUp(r) == rows[r].status \in Unsettled /\ rows'[r].status = "failed"

\* Nothing that runs for the item of r may still be retried.
NoRetryRuns(r) ==
    HasJob(rows[r].slot, {"running"}) =>
        \E j \in Job : /\ jobs[j].slot = rows[r].slot
                       /\ jobs[j].state = "running" /\ LastAttempt(j)

\* A status update changes the status of its row only.
LEMMA StatusElsewhere ==
    ASSUME rows \in [Row -> RowType], NEW r \in Row, NEW q \in Row, NEW st,
           MaybeStatus(r, st), GivenUp(q)
    PROVE  q = r /\ st = "failed"
<1>1. rows' = WithStatus(r, st)
  BY DEF MaybeStatus, GivenUp, Unsettled
<1>2. (q # r => rows'[q] = rows[q]) /\ (q = r => rows'[q].status = st)
  <2>1. rows[r] \in RowType
    OBVIOUS
  <2>2. QED BY <1>1, <2>1 DEF WithStatus, RowType
<1>3. QED BY <1>2 DEF GivenUp, Unsettled

\* The attempt that gives an item up is the last one of a job of the item's slot.
LEMMA RunVerdict ==
    ASSUME TypeOK, RunOwnsJob, RunRow, NEW j \in Job, RunStep(j), NEW q \in Row, GivenUp(q)
    PROVE  NoRetryRuns(q)
<1>1. rows \in [Row -> RowType] /\ run[j].row \in Row
  BY DEF TypeOK, RunType
<1>2. rows' # rows
  BY DEF GivenUp, Unsettled
<1>3. ASSUME LastAttempt(j), jobs[j].slot = rows[q].slot, run[j].pc # "none"
      PROVE  NoRetryRuns(q)
  BY <1>3 DEF NoRetryRuns, RunOwnsJob
<1>4. CASE Work(j)
  BY <1>1, <1>2, <1>4, StatusElsewhere DEF Work
<1>5. CASE Publish(j)
  <2>1. rows' = [rows EXCEPT ![run[j].row] = Published(j)]
    BY <1>2, <1>5 DEF Publish
  <2>2. rows[run[j].row] \in RowType
    BY <1>1
  <2>3. Published(j).status = "completed"
    BY <2>2 DEF Published, RowType
  <2>4. QED BY <1>1, <2>1, <2>3 DEF GivenUp, Unsettled
<1>6. CASE GiveUp(j)
  <2>1. LastAttempt(j) /\ MaybeStatus(run[j].row, "failed") /\ run[j].pc = "failing"
    BY <1>2, <1>6 DEF GiveUp
  <2>2. q = run[j].row
    BY <1>1, <2>1, StatusElsewhere
  <2>3. QED BY <1>3, <2>1, <2>2 DEF RunRow
<1>7. CASE HandleError(j)
  <2>1. LastAttempt(j) /\ run[j].pc = "erred"
    BY <1>2, <1>7 DEF HandleError
  <2>2. PICK r \in SlotRows(jobs[j].slot) : MaybeStatus(r, "failed")
    BY <1>2, <1>7 DEF HandleError, IsFirst
  <2>3. q = r
    BY <1>1, <2>2, StatusElsewhere DEF SlotRows
  <2>4. QED BY <1>3, <2>1, <2>2, <2>3 DEF SlotRows
<1>8. CASE Archive(j) \/ StoreArtifact(j) \/ Report(j)
  BY <1>2, <1>8 DEF Archive, StoreArtifact, Report
<1>9. QED BY <1>4, <1>5, <1>6, <1>7, <1>8 DEF RunStep

\* The cleanup fails only items that no job is running for.
LEMMA SweepVerdict ==
    ASSUME TypeOK, CleanupStep, NEW q \in Row, GivenUp(q)
    PROVE  NoRetryRuns(q)
<1>1. ASSUME NEW R \in SUBSET Row, Sweep(R) PROVE q \in R
  BY <1>1 DEF Sweep, GivenUp, Unsettled
<1>2. ~HasJob(rows[q].slot, {"running"})
  <2>1. CASE SweepPending
    BY <1>1, <2>1 DEF SweepPending, HasJob, Active
  <2>2. CASE SweepProcessing
    BY <1>1, <2>2 DEF SweepProcessing
  <2>3. CASE SweepDiscarded
    BY <1>1, <2>3 DEF SweepDiscarded, HasJob, Active
  <2>4. QED BY <2>1, <2>2, <2>3 DEF CleanupStep
<1>3. QED BY <1>2 DEF NoRetryRuns

\* Requests, River, time and crashes fail no item.
LEMMA OthersFailNone ==
    ASSUME TypeOK, NEW q \in Row, GivenUp(q),
           \/ \E j \in Job : RiverStep(j)
           \/ \E p \in Request : RequestStep(p)
           \/ MinutePasses \/ HourPasses \/ Crash \/ UNCHANGED vars
    PROVE  FALSE
<1>1. rows \in [Row -> RowType]
  BY DEF TypeOK
<1>2. rows' # rows
  BY DEF GivenUp, Unsettled
<1>3. ASSUME NEW r \in Row, NEW s \in Slot, CreateRow(s, r) PROVE FALSE
  BY <1>1, <1>3 DEF CreateRow, NoRow, GivenUp, RowType, Unsettled
<1>4. ASSUME NEW r \in Row, rows' = WithStatus(r, "pending") PROVE FALSE
  BY <1>1, <1>4 DEF WithStatus, GivenUp, RowType, Unsettled
<1>5. ASSUME NEW p \in Request, RequestStep(p) PROVE FALSE
  <2>1. req[p].slot \in Slot
    BY DEF TypeOK, ReqType
  <2>2. CASE \E s \in Slot : Submit(p, s)
    BY <1>3, <2>2 DEF Submit
  <2>3. CASE BackfillCreate(p)
    BY <1>3, <2>1, <2>3 DEF BackfillCreate
  <2>4. CASE \E r \in Row : RetryReset(p, r)
    BY <1>4, <2>4 DEF RetryReset
  <2>5. CASE \/ \E s \in Slot : BackfillSelect(p, s)
             \/ \E R \in SUBSET Row : RetrySelect(p, R)
             \/ Enqueue(p)
    BY <1>2, <2>5 DEF BackfillSelect, RetrySelect, Enqueue
  <2>6. QED BY <1>5, <2>2, <2>3, <2>4, <2>5 DEF RequestStep
<1>6. CASE HourPasses
  <2>1. rows[q] \in RowType /\ rows'[q].status = rows[q].status
    BY <1>1, <1>6 DEF HourPasses, RowType
  <2>2. QED BY <2>1 DEF GivenUp, Unsettled
<1>7. CASE MinutePasses \/ Crash \/ UNCHANGED vars
  <2>1. MinutePasses => rows' = rows
    BY DEF MinutePasses
  <2>2. Crash => rows' = rows
    BY DEF Crash
  <2>3. UNCHANGED vars => rows' = rows
    BY DEF vars
  <2>4. QED BY <1>2, <1>7, <2>1, <2>2, <2>3
<1>8. ASSUME NEW j \in Job, RiverStep(j) PROVE FALSE
  BY <1>2, <1>8 DEF RiverStep, Claim, RescueStuckJob, DeleteFinishedJob
<1>9. QED BY <1>5, <1>6, <1>7, <1>8

\* While an attempt runs that may be retried, and no last attempt does, neither
\* the cleanup nor the error handler nor a worker gives the item up.
THEOREM Verdict == Spec => FailureNeedsVerdict
<1>1. TypeOK /\ ArchiveInv /\ [Next]_vars => \A r \in Row : GivenUp(r) => NoRetryRuns(r)
  <2>1. SUFFICES ASSUME TypeOK, ArchiveInv, [Next]_vars, NEW r \in Row, GivenUp(r)
                 PROVE  NoRetryRuns(r)
    OBVIOUS
  <2>2. RunOwnsJob /\ RunRow
    BY <2>1 DEF ArchiveInv
  <2>3. CASE \E j \in Job : RunStep(j)
    BY <2>1, <2>2, <2>3, RunVerdict
  <2>4. CASE CleanupStep
    BY <2>1, <2>4, SweepVerdict
  <2>5. QED BY <2>1, <2>3, <2>4, OthersFailNone DEF Next
<1>2. (\A r \in Row : GivenUp(r) => NoRetryRuns(r)) =>
        [\A r \in Row :
           /\ rows[r].status \in Unsettled /\ rows'[r].status = "failed"
           /\ HasJob(rows[r].slot, {"running"})
           => \E j \in Job : /\ jobs[j].slot = rows[r].slot
                             /\ jobs[j].state = "running" /\ LastAttempt(j)]_vars
  BY DEF GivenUp, NoRetryRuns
<1>3. QED
  BY <1>1, <1>2, TypeCorrect, ArchiveInvariant, PTL DEF Spec, FailureNeedsVerdict
=============================================================================
