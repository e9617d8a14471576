--------------------------- MODULE NativeCapture ---------------------------
(* The free archivers of internal/archivers that run a downloader and hand *)
(* its output to the worker: gallery-dl, yt-dlp, itch-dl and git. A child   *)
(* process fills a temporary directory, a goroutine streams it through a    *)
(* pipe, the worker stores what it reads and closes the reader.            *)
EXTENDS Naturals, FiniteSets

CONSTANTS Assets,   \* files the post has
          Parts     \* pieces the artifact crosses the pipe in

ASSUME AssetsAssumption == Assets \in Nat \ {0}
ASSUME PartsAssumption == Parts \in Nat \ {0}

VARIABLES tool,       \* the archiver of the job
          counted,    \* the extractor says how many files the post has
          ctxDone,    \* the job's context is done
          child,      \* "none", "running", "ok", "error": the downloader or clone
          landed,     \* asset -> "absent", "begun" or "whole", on disk
          archivePc,  \* the Archive call: "checking", "waiting", "returned", "failed"
          dir,        \* the temporary directory exists
          producer,   \* "none", "writing", "over": the goroutine at the pipe
          stream,     \* "open", "eof", "error": what the reader finds after the last part
          sent,       \* parts the worker has read
          closed,     \* the worker has closed the reader
          storing,    \* the worker: "waiting", "copying", "stored", "failed"
          claim       \* completeness of the result

captureVars == <<tool, counted, ctxDone, child, landed, archivePc, dir, producer, stream, sent, closed, storing, claim>>
postFacts == <<tool, counted>>
piping == <<producer, stream, sent, closed, storing>>

Tool == {"gallery-dl", "yt-dlp", "itch", "git"}
Piped == tool # "yt-dlp"   \* yt-dlp returns the file itself
Asset == 1..Assets

CaptureInit ==
  /\ tool \in Tool /\ counted \in (IF tool = "gallery-dl" THEN BOOLEAN ELSE {FALSE})
  /\ ctxDone = FALSE /\ child = "none" /\ landed = [a \in Asset |-> "absent"]
  /\ archivePc = "checking" /\ dir = FALSE
  /\ producer = "none" /\ stream = "open" /\ sent = 0 /\ closed = FALSE
  /\ storing = "waiting" /\ claim = "none"

ContextDone ==
  /\ ~ctxDone /\ ctxDone' = TRUE
  /\ UNCHANGED <<postFacts, child, landed, archivePc, dir, piping, claim>>

---------------------------------------------------------------------------
(* Archive *)

\* Cookies, the probe run, the temporary directory or the start of the child
\* can fail, and an expired context ends the call at once. Only itch-dl's
\* directory has no cleanup on this path.
StartFails ==
  /\ archivePc = "checking"
  /\ archivePc' = "failed"
  /\ dir' \in {FALSE, tool = "itch" /\ ~ctxDone}
  /\ UNCHANGED <<postFacts, ctxDone, child, landed, piping, claim>>

StartChild ==
  /\ archivePc = "checking" /\ ~ctxDone
  /\ archivePc' = "waiting" /\ child' = "running" /\ dir' = TRUE
  /\ UNCHANGED <<postFacts, ctxDone, landed, piping, claim>>

\* The child writes each asset under its final name (--no-part), in order. One
\* it cannot fetch is skipped.
AssetProgress ==
  /\ child = "running"
  /\ \E a \in Asset :
       /\ \A b \in 1..a - 1 : landed[b] # "begun"
       /\ \/ landed[a] = "absent" /\ (\A b \in a + 1..Assets : landed[b] = "absent")
             /\ landed' = [landed EXCEPT ![a] = "begun"]
          \/ landed[a] = "begun" /\ landed' = [landed EXCEPT ![a] = "whole"]
  /\ UNCHANGED <<postFacts, ctxDone, child, archivePc, dir, piping, claim>>

\* A run that stored everything may still exit with an error.
ChildExits ==
  /\ child = "running" /\ \A a \in Asset : landed[a] # "begun"
  /\ \/ child' = "error"
     \/ child' = "ok" /\ (tool = "gallery-dl" \/ \A a \in Asset : landed[a] = "whole")
  /\ UNCHANGED <<postFacts, ctxDone, landed, archivePc, dir, piping, claim>>

\* The watcher goroutine kills the process group; whatever was begun stays.
ChildKilled ==
  /\ child = "running" /\ ctxDone
  /\ child' = "error"
  /\ UNCHANGED <<postFacts, ctxDone, landed, archivePc, dir, piping, claim>>

Media == {a \in Asset : landed[a] # "absent"}

\* An exit code fails every tool but gallery-dl, which fails on an empty
\* directory only; inspecting the output can fail too. itch leaves its directory.
ArchiveFails ==
  /\ archivePc = "waiting" /\ child \in {"ok", "error"}
  /\ archivePc' = "failed"
  /\ dir' = (tool = "itch")
  /\ UNCHANGED <<postFacts, ctxDone, child, landed, piping, claim>>

\* CompletenessFromCounts with galleryExpectedCount; the name of a file is what
\* counts it as stored.
FromCounts(stored, runFailed) ==
  IF counted THEN (IF stored >= Assets THEN "complete" ELSE "partial")
             ELSE (IF runFailed THEN "partial" ELSE "unknown")

ArchiveReturns ==
  /\ archivePc = "waiting"
  /\ child = "ok" \/ (child = "error" /\ tool = "gallery-dl")
  /\ Media # {}
  /\ archivePc' = "returned"
  /\ claim' = IF tool = "gallery-dl" THEN FromCounts(Cardinality(Media), child = "error")
              ELSE IF tool = "yt-dlp" THEN "complete" ELSE "none"
  /\ IF Piped THEN producer' = "writing" /\ UNCHANGED stream
              ELSE stream' = "eof" /\ UNCHANGED producer
  /\ UNCHANGED <<postFacts, ctxDone, child, landed, dir, sent, closed, storing>>

---------------------------------------------------------------------------
(* The goroutine that builds the ZIP or tar *)

\* The deferred calls remove the directory and close the pipe; an error set
\* with CloseWithError stands.
ProducerEnds(found) == producer' = "over" /\ dir' = FALSE /\ stream' = found

ProducerFails ==
  /\ producer = "writing" /\ ~closed
  /\ ProducerEnds("error")
  /\ UNCHANGED <<postFacts, ctxDone, child, landed, archivePc, sent, closed, storing, claim>>

ProducerCancelled_closes ==   \* mutant: closes the pipe without the error
  /\ producer = "writing" /\ tool = "git" /\ ctxDone
  /\ ProducerEnds("eof")
  /\ UNCHANGED <<postFacts, ctxDone, child, landed, archivePc, sent, closed, storing, claim>>

\* Only the git goroutine watches the context.
ProducerCancelled ==
  /\ producer = "writing" /\ tool = "git" /\ ctxDone
  /\ ProducerEnds("error")
  /\ UNCHANGED <<postFacts, ctxDone, child, landed, archivePc, sent, closed, storing, claim>>

ProducerFinishes ==
  /\ producer = "writing" /\ sent = Parts /\ ~closed
  /\ ProducerEnds("eof")
  /\ UNCHANGED <<postFacts, ctxDone, child, landed, archivePc, sent, closed, storing, claim>>

\* A write into a pipe whose reader is gone fails at once.
ProducerAbandoned ==
  /\ producer = "writing" /\ closed
  /\ ProducerEnds("error")
  /\ UNCHANGED <<postFacts, ctxDone, child, landed, archivePc, sent, closed, storing, claim>>

---------------------------------------------------------------------------
(* writeArchiveData *)

\* Closing tempVideoReader deletes the video and its directory.
CloseReader == closed' = TRUE /\ dir' = IF Piped THEN dir ELSE FALSE

OpenWriter_leavesReader ==   \* mutant: does not close the reader when there is no writer
  /\ archivePc = "returned" /\ storing = "waiting"
  /\ \/ storing' = "copying" /\ UNCHANGED <<closed, dir>>
     \/ storing' = "failed" /\ UNCHANGED <<closed, dir>>
  /\ UNCHANGED <<postFacts, ctxDone, child, landed, archivePc, producer, stream, sent, claim>>

OpenWriter ==
  /\ archivePc = "returned" /\ storing = "waiting"
  /\ \/ storing' = "copying" /\ UNCHANGED <<closed, dir>>
     \/ storing' = "failed" /\ CloseReader
  /\ UNCHANGED <<postFacts, ctxDone, child, landed, archivePc, producer, stream, sent, claim>>

CopyPart ==
  /\ storing = "copying" /\ sent < Parts
  /\ producer = "writing" \/ ~Piped
  /\ sent' = sent + 1
  /\ UNCHANGED <<postFacts, ctxDone, child, landed, archivePc, dir, producer, stream, closed, storing, claim>>

\* Reading, writing, closing the reader or closing the writer fails.
CopyFails ==
  /\ storing = "copying"
  /\ storing' = "failed" /\ CloseReader
  /\ UNCHANGED <<postFacts, ctxDone, child, landed, archivePc, producer, stream, sent, claim>>

CopyEnds ==
  /\ storing = "copying" /\ stream = "eof" /\ (Piped \/ sent = Parts)
  /\ storing' = "stored" /\ CloseReader
  /\ UNCHANGED <<postFacts, ctxDone, child, landed, archivePc, producer, stream, sent, claim>>

Capturing ==
  \/ StartFails \/ StartChild \/ ChildKilled \/ ArchiveFails \/ ArchiveReturns
  \/ ProducerFails \/ ProducerCancelled \/ ProducerFinishes \/ ProducerAbandoned
  \/ OpenWriter \/ CopyPart \/ CopyFails \/ CopyEnds

CaptureNext == ContextDone \/ AssetProgress \/ ChildExits \/ Capturing

CaptureSpec == CaptureInit /\ [][CaptureNext]_captureVars

\* River ends every job's context, so a child is killed if it does not exit;
\* the goroutines of the job run.
CaptureFairness == WF_captureVars(ContextDone) /\ WF_captureVars(Capturing)

---------------------------------------------------------------------------

\* Types of a capture's state.
CaptureTypeOK ==
  /\ tool \in Tool /\ counted \in BOOLEAN /\ ctxDone \in BOOLEAN
  /\ child \in {"none", "running", "ok", "error"}
  /\ landed \in [Asset -> {"absent", "begun", "whole"}]
  /\ archivePc \in {"checking", "waiting", "returned", "failed"}
  /\ dir \in BOOLEAN /\ producer \in {"none", "writing", "over"}
  /\ stream \in {"open", "eof", "error"} /\ sent \in 0..Parts /\ closed \in BOOLEAN
  /\ storing \in {"waiting", "copying", "stored", "failed"}
  /\ claim \in {"none", "complete", "partial", "unknown"}

\* What the worker stores is the whole stream: a goroutine that gave up, was
\* cancelled or lost its directory never looks like the end of the file
\* (gallery_dl.go:248-267, itch.go:108-124, git.go:96-141).
StoredStreamIsWhole == storing = "stored" => sent = Parts

\* A capture that claims to be complete lost no file of the post
\* (completeness.go:66-83). A file may be there in part only: gallery-dl killed
\* in the middle of its last file leaves it under its final name.
CompleteLostNothing == claim = "complete" => \A a \in Asset : landed[a] # "absent"

\* The worker stores whole streams, and what they are said to hold was there.
CaptureIsHonest == StoredStreamIsWhole /\ CompleteLostNothing

ItchLeavesDir == tool = "itch" /\ archivePc = "failed"

\* Every job lets go of what it holds: its child ends, its goroutine leaves
\* the pipe and its directory is removed, whatever the worker managed to store
\* (archive_worker.go:397-412). Only a failed itch archive keeps its directory.
CaptureReleases ==
  <>[]( /\ child # "running" /\ producer # "writing"
        /\ archivePc = "failed" \/ closed
        /\ dir => ItchLeavesDir )
=============================================================================
