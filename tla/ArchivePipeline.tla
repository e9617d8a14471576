--------------------------- MODULE ArchivePipeline ---------------------------
(***************************************************************************)
(* The capture pipeline: archive_items rows, the River jobs that serve     *)
(* them, the workers that run those jobs, the periodic cleanup, the error  *)
(* handler, and the requests that create rows and (re)queue work.          *)
(*                                                                         *)
(* A slot stands for one (short_id, type) pair: it is all that ties a job  *)
(* to its row, because jobs carry no row id.  Nothing in the schema makes  *)
(* the pair unique, so a slot may own several rows.                        *)
(***************************************************************************)
EXTENDS Naturals, FiniteSets

CONSTANTS
    Slot,         \* the (short_id, type) pairs
    LateSlot,     \* pairs whose capture predates the type: only a backfill creates them
    MaxRow,       \* bound: archive_items rows
    Job,          \* river_job ids; a deleted finished job frees its id
    Request,      \* HTTP requests in progress at one time
    Fallback,     \* whether the Bright Data fallback is configured
    Sidecar,      \* artifacts a result may carry besides the primary one
    Workers,      \* MaxWorkers of the default queue
    MaxAttempts,  \* InsertOpts.MaxAttempts
    MaxCrash,     \* bound: process crashes
    Faults        \* whether single database statements and inserts may fail

ASSUME PipelineAssumption ==
    /\ LateSlot \subseteq Slot /\ Slot # {}
    /\ "primary" \notin Sidecar
    /\ MaxRow \in Nat \ {0} /\ Workers \in Nat \ {0}
    /\ MaxAttempts \in Nat \ {0} /\ MaxCrash \in Nat
    /\ Faults \in BOOLEAN /\ Fallback \in BOOLEAN

VARIABLES
    rows,     \* archive_items
    jobs,     \* river_job
    run,      \* per job, the in-memory execution of its current attempt
    req,      \* the requests in progress
    crashes

vars == <<rows, jobs, run, req, crashes>>

Row == 1..MaxRow
Kind == {"primary"} \cup Sidecar
Flow == {"native"} \cup (IF Fallback THEN {"brightdata"} ELSE {})
Active == {"available", "retryable", "running"}
Unsettled == {"pending", "processing"}

-----------------------------------------------------------------------------
(* Rows.  keys: the storage key columns that are set; stored: those whose   *)
(* object exists; source: the column; made: the flow that really produced   *)
(* the stored artifact; stale: updated_at is more than an hour old.         *)

NoRow == [status |-> "absent", slot |-> CHOOSE s \in Slot : TRUE, stale |-> FALSE,
          keys |-> {}, stored |-> {}, source |-> "native", made |-> "native"]

Exists(r) == rows[r].status # "absent"
SlotRows(s) == {r \in Row : Exists(r) /\ rows[r].slot = s}
IsFirst(r, R) == r \in R /\ \A q \in R : r <= q
IsNextId(r) == IsFirst(r, {q \in Row : ~Exists(q)})

WithStatus(r, st) == [rows EXCEPT ![r] = [@ EXCEPT !.status = st, !.stale = FALSE]]

\* A statement whose error the code drops: with faults it may have no effect.
MaybeStatus(r, st) ==
    \/ rows' = WithStatus(r, st)
    \/ Faults /\ UNCHANGED rows

CreateRow(s, r) ==
    /\ IsNextId(r)
    /\ rows' = [rows EXCEPT ![r] = [NoRow EXCEPT !.status = "pending", !.slot = s]]

-----------------------------------------------------------------------------
(* River, as far as this code relies on it.                                 *)

NoJob == [state |-> "none", slot |-> NoRow.slot, attempt |-> 0, recent |-> FALSE]
NoRun == [pc |-> "none", row |-> 1, want |-> {}, wrote |-> {}, made |-> "native"]

HasJob(s, S) == \E j \in Job : jobs[j].slot = s /\ jobs[j].state \in S

\* UniqueOpts{ByArgs, ByPeriod: 1m}: a second insert in the same minute is
\* skipped without an error while a job that is not discarded has the same args.
IsDuplicate(s) ==
    \E j \in Job : /\ jobs[j].slot = s /\ jobs[j].recent
                   /\ jobs[j].state \in Active \cup {"completed"}

Insert(s) ==
    IF IsDuplicate(s) THEN UNCHANGED jobs
    ELSE \/ \E j \in Job :
              /\ jobs[j].state = "none"
              /\ jobs' = [jobs EXCEPT ![j] = [state |-> "available", slot |-> s,
                                              attempt |-> 0, recent |-> TRUE]]
         \/ Faults /\ UNCHANGED jobs

Busy == Cardinality({j \in Job : run[j].pc # "none"})

Claim(j) ==
    /\ jobs[j].state \in {"available", "retryable"}
    /\ Busy < Workers
    /\ jobs' = [jobs EXCEPT ![j] = [@ EXCEPT !.state = "running",
                                          !.attempt = jobs[j].attempt + 1]]
    /\ run' = [run EXCEPT ![j] = [NoRun EXCEPT !.pc = "claimed"]]
    /\ UNCHANGED <<rows, req, crashes>>

LastAttempt_offByOne(j) == jobs[j].attempt > MaxAttempts

LastAttempt(j) == jobs[j].attempt >= MaxAttempts

AfterFailure(j) == IF LastAttempt(j) THEN "discarded" ELSE "retryable"

\* River records the outcome once Work and the error handler have returned.
Report(j) ==
    /\ run[j].pc \in {"succeeded", "handled"}
    /\ jobs' = [jobs EXCEPT ![j].state =
                    IF run[j].pc = "succeeded" THEN "completed" ELSE AfterFailure(j)]
    /\ run' = [run EXCEPT ![j] = NoRun]
    /\ UNCHANGED <<rows, req, crashes>>

\* RescueStuckJobsAfter exceeds JobTimeout, so only a run that a crash ended is
\* rescued; the rescuer does not call the error handler.
RescueStuckJob(j) ==
    /\ jobs[j].state = "running" /\ run[j].pc = "none"
    /\ jobs' = [jobs EXCEPT ![j].state = AfterFailure(j)]
    /\ UNCHANGED <<rows, run, req, crashes>>

\* River's job cleaner deletes finished jobs (a day or a week after).
DeleteFinishedJob(j) ==
    /\ jobs[j].state \in {"completed", "discarded"} /\ ~jobs[j].recent
    /\ jobs' = [jobs EXCEPT ![j] = NoJob]
    /\ UNCHANGED <<rows, run, req, crashes>>

-----------------------------------------------------------------------------
(* ArchiveWorker.Work, one action per statement that others can see between.*)

Step(j, pc) == run' = [run EXCEPT ![j].pc = pc]

\* The lookup takes the first row of the slot; the status update is
\* unconditional and its error is dropped.
Work(j) ==
    /\ run[j].pc = "claimed"
    /\ \/ \E r \in Row :
            /\ IsFirst(r, SlotRows(jobs[j].slot))
            /\ MaybeStatus(r, "processing")
            /\ run' = [run EXCEPT ![j].pc = "archiving", ![j].row = r]
       \/ Faults /\ Step(j, "erred") /\ UNCHANGED rows
    /\ UNCHANGED <<jobs, req, crashes>>

\* Archive returns a result, an error, or panics past Work's own error path.
Archive(j) ==
    /\ run[j].pc = "archiving"
    /\ \/ \E W \in SUBSET Sidecar, f \in Flow :
            run' = [run EXCEPT ![j] = [@ EXCEPT !.pc = "storing", !.made = f,
                                                !.want = W \cup {"primary"}]]
       \/ Step(j, "failing")
       \/ Step(j, "erred")
    /\ UNCHANGED <<rows, jobs, req, crashes>>

\* Every upload writes a fresh key (uploadNonce), so objects are only added.
StoreArtifact(j) ==
    /\ run[j].pc = "storing" /\ run[j].wrote # run[j].want
    /\ \/ \E k \in run[j].want \ run[j].wrote :
            /\ k = "primary" \/ "primary" \in run[j].wrote
            /\ run' = [run EXCEPT ![j].wrote = @ \cup {k}]
       \/ Step(j, "failing")
    /\ UNCHANGED <<rows, jobs, req, crashes>>

Published(j) ==
    [rows[run[j].row] EXCEPT
        !.status = "completed", !.stale = FALSE,
        !.keys = run[j].want, !.stored = run[j].wrote, !.made = run[j].made,
        !.source = IF run[j].made = "brightdata" THEN "brightdata" ELSE @]

Publish_beforeSidecars(j) ==   \* mutant: completed before the sidecars are stored
    /\ run[j].pc = "storing" /\ "primary" \in run[j].wrote
    /\ rows' = [rows EXCEPT ![run[j].row] = Published(j)]
    /\ Step(j, "succeeded")
    /\ UNCHANGED <<jobs, req, crashes>>

Publish_errorDropped(j) ==   \* mutant: a failed update is reported as success
    /\ run[j].pc = "storing" /\ run[j].wrote = run[j].want
    /\ (rows' = [rows EXCEPT ![run[j].row] = Published(j)]) \/ (Faults /\ UNCHANGED rows)
    /\ Step(j, "succeeded")
    /\ UNCHANGED <<jobs, req, crashes>>

\* saveArchiveResult's single update, once every artifact is stored.
Publish(j) ==
    /\ run[j].pc = "storing" /\ run[j].wrote = run[j].want
    /\ \/ /\ rows' = [rows EXCEPT ![run[j].row] = Published(j)]
          /\ Step(j, "succeeded")
       \/ Faults /\ Step(j, "failing") /\ UNCHANGED rows
    /\ UNCHANGED <<jobs, req, crashes>>

\* Work's own error path fails the row on the last attempt, whatever its status.
GiveUp(j) ==
    /\ run[j].pc = "failing"
    /\ IF LastAttempt(j) THEN MaybeStatus(run[j].row, "failed") ELSE UNCHANGED rows
    /\ Step(j, "erred")
    /\ UNCHANGED <<jobs, req, crashes>>

\* CustomErrorHandler: on the last attempt, the first unsettled row of the slot.
HandleError(j) ==
    /\ run[j].pc = "erred"
    /\ LET R == {r \in SlotRows(jobs[j].slot) : rows[r].status \in Unsettled}
       IN  IF LastAttempt(j) /\ R # {}
           THEN \E r \in Row : IsFirst(r, R) /\ MaybeStatus(r, "failed")
           ELSE UNCHANGED rows
    /\ Step(j, "handled")
    /\ UNCHANGED <<jobs, req, crashes>>

-----------------------------------------------------------------------------
(* RunCleanup: three statements, each its own transaction.  The startup      *)
(* pass, the ticker and other instances interleave them freely, and a failed *)
(* statement is only logged, so each is an action of its own.                *)

Sweep(R) ==
    /\ R # {}
    /\ rows' = [r \in Row |->
                  IF r \in R THEN [rows[r] EXCEPT !.status = "failed", !.stale = FALSE]
                             ELSE rows[r]]
    /\ UNCHANGED <<jobs, run, req, crashes>>

SweepPending_anyJob ==   \* mutant: a finished job counts as a corresponding job
    Sweep({r \in Row : /\ rows[r].status = "pending" /\ rows[r].stale
                       /\ ~HasJob(rows[r].slot, Active \cup {"completed"})})

SweepPending ==
    Sweep({r \in Row : /\ rows[r].status = "pending" /\ rows[r].stale
                       /\ ~HasJob(rows[r].slot, Active)})

SweepProcessing_ofRunning ==   \* mutant: does not look for the running job
    Sweep({r \in Row : rows[r].status = "processing" /\ rows[r].stale})

SweepProcessing ==
    Sweep({r \in Row : /\ rows[r].status = "processing" /\ rows[r].stale
                       /\ ~HasJob(rows[r].slot, {"running"})})

SweepDiscarded ==
    Sweep({r \in Row : /\ rows[r].status \in Unsettled
                       /\ HasJob(rows[r].slot, {"discarded"})
                       /\ ~HasJob(rows[r].slot, Active)})

-----------------------------------------------------------------------------
(* Requests.  todo: the rows a retry still has to reset.                     *)

NoReq == [pc |-> "idle", slot |-> NoRow.slot, todo |-> {}]

\* A new capture: its rows are committed before any job is inserted.
Submit(p, s) ==
    /\ req[p].pc = "idle" /\ s \notin LateSlot /\ SlotRows(s) = {}
    /\ \E r \in Row : CreateRow(s, r)
    /\ req' = [req EXCEPT ![p] = [NoReq EXCEPT !.pc = "insert", !.slot = s]]
    /\ UNCHANGED <<jobs, run, crashes>>

\* BackfillMissingMediaItems: the NOT EXISTS query, then one create per capture.
BackfillSelect(p, s) ==
    /\ req[p].pc = "idle" /\ s \in LateSlot /\ SlotRows(s) = {}
    /\ req' = [req EXCEPT ![p] = [NoReq EXCEPT !.pc = "create", !.slot = s]]
    /\ UNCHANGED <<rows, jobs, run, crashes>>

BackfillCreate(p) ==
    /\ req[p].pc = "create"
    /\ \E r \in Row : CreateRow(req[p].slot, r)
    /\ req' = [req EXCEPT ![p].pc = "insert"]
    /\ UNCHANGED <<jobs, run, crashes>>

\* RetryAllFailedJobs: the failed rows (?type= narrows them), then one by one
\* an unconditional reset to pending and an insert.
RetrySelect(p, R) ==
    /\ req[p].pc = "idle" /\ R # {}
    /\ \A r \in R : rows[r].status = "failed"
    /\ req' = [req EXCEPT ![p] = [NoReq EXCEPT !.pc = "reset", !.todo = R]]
    /\ UNCHANGED <<rows, jobs, run, crashes>>

RetryReset(p, r) ==
    /\ req[p].pc = "reset" /\ r \in req[p].todo
    /\ rows' = WithStatus(r, "pending")
    /\ req' = [req EXCEPT ![p] = [pc |-> "insert", slot |-> rows[r].slot,
                                  todo |-> @.todo \ {r}]]
    /\ UNCHANGED <<jobs, run, crashes>>

\* The insert that ends each of the three; the client may also be gone.
Enqueue(p) ==
    /\ req[p].pc = "insert"
    /\ Insert(req[p].slot)
    /\ req' = [req EXCEPT ![p] = IF @.todo = {} THEN NoReq ELSE [@ EXCEPT !.pc = "reset"]]
    /\ UNCHANGED <<rows, run, crashes>>

-----------------------------------------------------------------------------
(* Time and crashes.                                                         *)

MinutePasses ==
    /\ \E j \in Job : jobs[j].recent
    /\ jobs' = [j \in Job |-> [jobs[j] EXCEPT !.recent = FALSE]]
    /\ UNCHANGED <<rows, run, req, crashes>>

HourPasses ==
    /\ \E r \in Row : rows[r].status \in Unsettled /\ ~rows[r].stale
    /\ rows' = [r \in Row |-> [rows[r] EXCEPT !.stale = rows[r].status \in Unsettled]]
    /\ jobs' = [j \in Job |-> [jobs[j] EXCEPT !.recent = FALSE]]
    /\ UNCHANGED <<run, req, crashes>>

\* Everything in memory is gone; the tables stay as they are.
Crash ==
    /\ crashes < MaxCrash
    /\ crashes' = crashes + 1
    /\ run' = [j \in Job |-> NoRun]
    /\ req' = [p \in Request |-> NoReq]
    /\ UNCHANGED <<rows, jobs>>

-----------------------------------------------------------------------------
Init ==
    /\ rows = [r \in Row |-> NoRow]
    /\ jobs = [j \in Job |-> NoJob]
    /\ run = [j \in Job |-> NoRun]
    /\ req = [p \in Request |-> NoReq]
    /\ crashes = 0

RunStep(j) ==
    \/ Work(j) \/ Archive(j) \/ StoreArtifact(j) \/ Publish(j)
    \/ GiveUp(j) \/ HandleError(j) \/ Report(j)

RiverStep(j) == Claim(j) \/ RescueStuckJob(j) \/ DeleteFinishedJob(j)

CleanupStep == SweepPending \/ SweepProcessing \/ SweepDiscarded

RequestStep(p) ==
    \/ \E s \in Slot : Submit(p, s) \/ BackfillSelect(p, s)
    \/ \E R \in SUBSET Row : RetrySelect(p, R)
    \/ \E r \in Row : RetryReset(p, r)
    \/ BackfillCreate(p) \/ Enqueue(p)

Next ==
    \/ \E j \in Job : RunStep(j) \/ RiverStep(j)
    \/ CleanupStep
    \/ \E p \in Request : RequestStep(p)
    \/ MinutePasses \/ HourPasses \/ Crash

Spec == Init /\ [][Next]_vars

\* Workers take time but return (every archive runs under a timeout); River
\* hands out jobs in order, so a queued job is not passed over forever; the
\* rescuer and the cleanup ticker run for as long as the process does.
Fairness ==
    /\ \A j \in Job : WF_vars(RunStep(j)) /\ SF_vars(Claim(j)) /\ WF_vars(RescueStuckJob(j))
    /\ WF_vars(SweepPending) /\ WF_vars(SweepProcessing) /\ WF_vars(SweepDiscarded)
    /\ WF_vars(HourPasses)

FairSpec == Spec /\ Fairness

-----------------------------------------------------------------------------
RowType == [status : Unsettled \cup {"absent", "completed", "failed"},
            slot : Slot, stale : BOOLEAN, keys : SUBSET Kind,
            stored : SUBSET Kind, source : Flow, made : Flow]

JobType == [state : Active \cup {"none", "completed", "discarded"},
            slot : Slot, attempt : 0..MaxAttempts, recent : BOOLEAN]

RunType == [pc : {"none", "claimed", "archiving", "storing", "failing",
                  "erred", "handled", "succeeded"},
            row : Row, want : SUBSET Kind, wrote : SUBSET Kind, made : Flow]

ReqType == [pc : {"idle", "create", "insert", "reset"}, slot : Slot, todo : SUBSET Row]

\* Every row, job, run and request is well formed; in particular no job is run
\* more than MaxAttempts times, whatever crashes and rescues happen.
TypeOK ==
    /\ rows \in [Row -> RowType]
    /\ jobs \in [Job -> JobType]
    /\ run \in [Job -> RunType]
    /\ req \in [Request -> ReqType]
    /\ crashes \in 0..MaxCrash

\* A completed item names a primary object and every key it carries leads to a
\* stored object: "it can never publish a completed item whose required
\* metadata is only partly stored" (saveArchiveResult).  It holds of every row
\* that was ever published, whatever its status now.
CompletedIsStored ==
    \A r \in Row : /\ rows[r].status = "completed" => "primary" \in rows[r].keys
                   /\ rows[r].keys \subseteq rows[r].stored

\* A job River holds as completed has left its archive behind: its slot has a
\* published row, even if that row was reset or failed since.
CompletedJobPublished ==
    \A j \in Job : jobs[j].state = "completed" =>
        \E r \in SlotRows(jobs[j].slot) : "primary" \in rows[r].keys

\* No step fails a row while a job of its slot runs, unless one of the running
\* jobs is on its last attempt: neither the cleanup nor the error handler gives
\* an item up while an attempt that may be retried is working on it.
FailureNeedsVerdict ==
    [][\A r \in Row :
         /\ rows[r].status \in Unsettled /\ rows'[r].status = "failed"
         /\ HasJob(rows[r].slot, {"running"})
         => \E j \in Job : /\ jobs[j].slot = rows[r].slot
                           /\ jobs[j].state = "running" /\ LastAttempt(j)]_vars

\* Whatever is lost (an insert, a worker, a status update, a job), an item does
\* not stay pending or processing for ever: a worker or the cleanup settles it.
RowSettles ==
    \A r \in Row : rows[r].status \in Unsettled
                    ~> rows[r].status \in {"completed", "failed"}

\* "Only mark archive item as failed on the final attempt to avoid premature
\* failures" (CustomErrorHandler): an item is not failed while a job of its slot
\* has attempts left.
NoPrematureFailure ==
    [][\A r \in Row : rows[r].status \in Unsettled /\ rows'[r].status = "failed" =>
         ~\E j \in Job : /\ jobs[j].slot = rows[r].slot
                         /\ jobs[j].state \in Active /\ ~LastAttempt(j)]_vars

\* "Reset status to pending and enqueue new jobs" (RetryAllFailedJobs): a
\* pending item has a job, or a request that is about to insert one.
PendingIsQueued ==
    \A r \in Row : rows[r].status = "pending" =>
        \/ HasJob(rows[r].slot, Active)
        \/ \E p \in Request : req[p].pc = "insert" /\ req[p].slot = rows[r].slot

\* The pipeline implements the promise made to an item's readers.
Lifecycle == INSTANCE ItemLifecycle WITH
    Item <- Row,
    status <- [r \in Row |-> rows[r].status],
    archived <- [r \in Row |-> /\ "primary" \in rows[r].keys
                              /\ rows[r].keys \subseteq rows[r].stored]

\* Readers never lose an archive and never see "completed" without one.
ImplementsLifecycle == Lifecycle!Spec
=============================================================================
