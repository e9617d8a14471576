-------------------------- MODULE ThumbnailPreview --------------------------
(* The preview of one screenshot item: stored inline by the archive worker,  *)
(* or generated on demand by internal/workers/thumbnail_worker.go when       *)
(* internal/handlers/thumb.go is asked for a preview that is not there.      *)
EXTENDS Naturals

CONSTANTS Runs,        \* archive runs of the item
          JobAttempts, \* MaxAttempts of a thumbnail job: 2
          Transient    \* bound on transient failures of storage and database

ASSUME RunsAssumption == Runs \in Nat \ {0}
ASSUME JobAttemptsAssumption == JobAttempts \in Nat \ {0}
ASSUME TransientAssumption == Transient \in Nat

VARIABLES itemStatus,  \* "processing" or "completed"
          artifact,    \* the archive run storage_key is of, 0 when empty
          decodable,   \* the screenshots of this page decode and are not too large
          inline,      \* the archive worker still holds a thumbnail of its run
          preview,     \* thumbnail_status: "", "ready", "unavailable"
          image,       \* the object under thumbnail_key: "none", "there", "gone"
          previewJob,  \* "none", "available", "running", "finished"
          tries,       \* attempts of the job
          recent,      \* River still refuses a second job
          seen,        \* the artifact the running job has read the row of, 0 when it has not
          shown,       \* what the last request was answered with
          faults

thumbVars == <<itemStatus, artifact, decodable, inline, preview, image, previewJob, tries, recent, seen, shown, faults>>
item == <<itemStatus, artifact, decodable, inline>>
queue == <<previewJob, tries, recent, seen>>

ThumbInit ==
  /\ itemStatus = "processing" /\ artifact = 0 /\ decodable \in BOOLEAN /\ inline = FALSE
  /\ preview = "" /\ image = "none" /\ previewJob = "none" /\ tries = 0 /\ recent = FALSE /\ seen = 0
  /\ shown = "nothing" /\ faults = 0

Fault == faults < Transient /\ faults' = faults + 1

---------------------------------------------------------------------------
(* The archive worker *)

SaveScreenshot ==
  /\ itemStatus = "processing"
  /\ itemStatus' = "completed" /\ artifact' = artifact + 1
  /\ inline' \in {FALSE, decodable}
  /\ UNCHANGED <<decodable, preview, image, queue, shown, faults>>

\* The object first, then the row; an error or a crash loses the thumbnail only.
StoreInline ==
  /\ inline /\ inline' = FALSE
  /\ \/ preview' = "ready" /\ image' = "there" /\ UNCHANGED faults
     \/ Fault /\ UNCHANGED <<preview, image>>
  /\ UNCHANGED <<itemStatus, artifact, decodable, queue, shown>>

\* The job of a completed item runs again after a crash.
RunAgain ==
  /\ itemStatus = "completed" /\ ~inline /\ artifact < Runs
  /\ itemStatus' = "processing"
  /\ UNCHANGED <<artifact, decodable, inline, preview, image, queue, shown, faults>>

---------------------------------------------------------------------------
(* ServeThumbnail *)

\* selectThumbnailItem: a ready item is served and is never a candidate.
Ready == preview = "ready"
Candidate_once ==   \* mutant: an item whose job is over is not offered again
  ~Ready /\ itemStatus = "completed" /\ artifact > 0 /\ preview # "unavailable" /\ previewJob = "none"

Candidate == ~Ready /\ itemStatus = "completed" /\ artifact > 0 /\ preview # "unavailable"

\* EnqueueThumbnail; a job that is a duplicate is not inserted.
ServePlaceholder ==
  /\ shown' = "placeholder"
  /\ IF Candidate /\ ~recent
     THEN previewJob' = "available" /\ tries' = 0 /\ recent' = TRUE /\ seen' = 0
     ELSE UNCHANGED queue

ViewThumbnail ==
  /\ \/ Ready /\ image = "there" /\ shown' = "preview" /\ UNCHANGED <<queue, faults>>
     \/ ~(Ready /\ image = "there") /\ ServePlaceholder /\ UNCHANGED faults
     \/ Fault /\ shown' = "placeholder" /\ UNCHANGED queue   \* the read or the insert fails
  /\ UNCHANGED <<item, preview, image>>

\* One job at a time: a job that is still active when the next five-minute
\* period begins, which may then have a second one beside it, is left out.
WindowPasses ==
  /\ recent /\ previewJob = "finished"
  /\ recent' = FALSE
  /\ UNCHANGED <<item, preview, image, previewJob, tries, seen, shown, faults>>

---------------------------------------------------------------------------
(* ThumbnailWorker.generate *)

Finish == previewJob' = "finished" /\ seen' = 0 /\ UNCHANGED <<tries, recent>>

\* An error is retried by River until the attempts are used up.
Retry ==
  /\ previewJob' = IF tries < JobAttempts THEN "available" ELSE "finished"
  /\ seen' = 0 /\ UNCHANGED <<tries, recent>>

StartPreview ==
  /\ previewJob = "available"
  /\ previewJob' = "running" /\ tries' = tries + 1
  /\ UNCHANGED <<item, preview, image, recent, seen, shown, faults>>

\* A preview that is there, or an archive that is not, ends the job.
ReadItemRow ==
  /\ previewJob = "running" /\ seen = 0
  /\ \/ /\ Ready \/ itemStatus # "completed"
        /\ Finish /\ UNCHANGED faults
     \/ Fault /\ Retry
     \/ ~Ready /\ itemStatus = "completed"
        /\ seen' = artifact /\ UNCHANGED <<previewJob, tries, recent, faults>>
  /\ UNCHANGED <<item, preview, image, shown>>

OpenFails ==
  /\ previewJob = "running" /\ seen > 0
  /\ Fault /\ Retry
  /\ UNCHANGED <<item, preview, image, shown>>

\* FromReader reports a stream that breaks off like bytes it cannot decode.
Undecodable ==
  /\ previewJob = "running" /\ seen > 0
  /\ \/ preview' = "unavailable" /\ Finish /\ IF decodable THEN Fault ELSE UNCHANGED faults
     \/ UNCHANGED preview /\ Retry /\ Fault     \* the update fails
  /\ UNCHANGED <<item, image, shown>>

StorePreview ==
  /\ previewJob = "running" /\ seen > 0 /\ decodable
  /\ \/ preview' = "ready" /\ image' = "there" /\ Finish /\ UNCHANGED faults
     \/ Fault /\ Retry /\ UNCHANGED <<preview, image>>
  /\ UNCHANGED <<item, shown>>

\* The process dies in the middle of an attempt and River rescues the job.
PreviewCrash ==
  /\ previewJob = "running" /\ Fault /\ Retry
  /\ UNCHANGED <<item, preview, image, shown>>

\* Outside the program: an object disappears from the bucket.
ObjectLost ==
  /\ image = "there" /\ Fault /\ image' = "gone"
  /\ UNCHANGED <<item, preview, queue, shown>>

Generate == StartPreview \/ ReadItemRow \/ OpenFails \/ Undecodable \/ StorePreview \/ PreviewCrash

ThumbNext ==
  \/ SaveScreenshot \/ StoreInline \/ RunAgain
  \/ ViewThumbnail \/ WindowPasses \/ Generate \/ ObjectLost

ThumbSpec == ThumbInit /\ [][ThumbNext]_thumbVars

\* Somebody looks at the page again and again, River runs its jobs and the
\* archive worker its own.
ThumbFairness ==
  /\ WF_thumbVars(ViewThumbnail /\ recent' # recent) /\ WF_thumbVars(WindowPasses) /\ WF_thumbVars(Generate)
  /\ WF_thumbVars(SaveScreenshot \/ StoreInline)

---------------------------------------------------------------------------

\* Types of the preview's state.
ThumbTypeOK ==
  /\ itemStatus \in {"processing", "completed"} /\ artifact \in 0..Runs
  /\ decodable \in BOOLEAN /\ inline \in BOOLEAN /\ recent \in BOOLEAN
  /\ preview \in {"", "ready", "unavailable"} /\ image \in {"none", "there", "gone"}
  /\ previewJob \in {"none", "available", "running", "finished"}
  /\ tries \in 0..JobAttempts /\ seen \in 0..artifact
  /\ shown \in {"nothing", "placeholder", "preview"} /\ faults \in 0..Transient

\* A capture that is looked at comes to a verdict on its preview: ready when
\* its screenshot can be decoded, though jobs are refused as duplicates, find
\* the item busy, fail and run out of attempts (thumb.go:75-82,
\* thumbnail_worker.go:53-58).
PreviewSettles == <>[](preview # "")

\* models.go:111-113, thumbnail_worker.go:108-109: "unavailable" is for a
\* source that can never produce a preview; what is transient is retried.
UnavailableIsForGood == preview = "unavailable" => ~decodable
=============================================================================
