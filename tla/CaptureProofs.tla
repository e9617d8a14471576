---------------------------- MODULE CaptureProofs ----------------------------
(* Proofs about one capture: NativeCapture, for every number of files of a   *)
(* post and of parts of an artifact, and BrowserBundle.                       *)
EXTENDS NativeCapture, BrowserBundle, FiniteSetTheorems, TLAPS

-----------------------------------------------------------------------------
(* NativeCapture *)

\* A set of files that counts as many as the post has is all of them.
LEMMA AllCounted ==
  ASSUME NEW S \in SUBSET Asset
  PROVE /\ Cardinality(S) \in Nat
        /\ Cardinality(S) >= Assets => S = Asset
<1>1. Assets \in Nat /\ 1 \in Int /\ Assets \in Int
  BY AssetsAssumption
<1>2. IsFiniteSet(Asset) /\ Cardinality(Asset) = Assets
  BY <1>1, FS_Interval DEF Asset
<1>3. IsFiniteSet(S) /\ (Cardinality(S) = Cardinality(Asset) => S = Asset) /\ Cardinality(S) <= Cardinality(Asset)
  BY <1>2, FS_Subset
<1>4. Cardinality(S) \in Nat
  BY <1>3, FS_CardinalityType
<1> QED BY <1>1, <1>2, <1>3, <1>4

\* The pipe: what ends the stream well, and what is stored, is every part.
EndMeansAll ==
  /\ stream = "eof" /\ Piped => sent = Parts
  /\ StoredStreamIsWhole

\* The call: it starts with no child, it claims something only when it returns,
\* and by then the child is over.
ChildBeforeClaim ==
  /\ archivePc = "checking" => child = "none"
  /\ archivePc = "returned" => child \in {"ok", "error"}
  /\ claim # "none" => archivePc = "returned"

\* Every tool but gallery-dl exits well only with everything it was asked for.
WellMeansWhole == child = "ok" => tool = "gallery-dl" \/ \A a \in Asset : landed[a] = "whole"

CaptureInv == CaptureTypeOK /\ EndMeansAll /\ ChildBeforeClaim /\ WellMeansWhole /\ CompleteLostNothing

LEMMA CaptureInvInit == CaptureInit => CaptureInv
<1> SUFFICES ASSUME CaptureInit PROVE CaptureInv
  OBVIOUS
<1>1. counted \in BOOLEAN
  BY DEF CaptureInit
<1>2. 0 \in 0..Parts
  BY PartsAssumption
<1>3. CaptureTypeOK
  BY <1>1, <1>2 DEF CaptureInit, CaptureTypeOK
<1>4. EndMeansAll /\ ChildBeforeClaim /\ WellMeansWhole /\ CompleteLostNothing
  BY DEF CaptureInit, EndMeansAll, StoredStreamIsWhole, ChildBeforeClaim, WellMeansWhole, CompleteLostNothing
<1> QED BY <1>3, <1>4 DEF CaptureInv

\* What the counts claim, from how many files landed.
LEMMA CountsClaim ==
  ASSUME CaptureTypeOK, NEW runFailed \in BOOLEAN
  PROVE LET c == FromCounts(Cardinality(Media), runFailed)
        IN /\ c \in {"complete", "partial", "unknown"}
           /\ c = "complete" => \A a \in Asset : landed[a] # "absent"
<1>1. Media \in SUBSET Asset
  BY DEF Media
<1>2. Cardinality(Media) \in Nat /\ (Cardinality(Media) >= Assets => Media = Asset)
  BY <1>1, AllCounted
<1>3. Media = Asset => \A a \in Asset : landed[a] # "absent"
  BY DEF Media
<1>4. FromCounts(Cardinality(Media), runFailed) = "complete" => Cardinality(Media) >= Assets
  BY DEF FromCounts
<1>5. FromCounts(Cardinality(Media), runFailed) \in {"complete", "partial", "unknown"}
  BY DEF FromCounts
<1> QED BY <1>2, <1>3, <1>4, <1>5

\* The actions of the pipe and of the worker leave the call and the files alone.
calling == <<postFacts, ctxDone, child, landed, archivePc, claim>>

LEMMA CallingUntouched ==
  ASSUME CaptureInv, UNCHANGED calling
  PROVE ChildBeforeClaim' /\ WellMeansWhole' /\ CompleteLostNothing'
BY DEF CaptureInv, calling, postFacts, ChildBeforeClaim, WellMeansWhole, CompleteLostNothing

\* The actions of the call and of the child leave the pipe alone.
LEMMA PipingUntouched ==
  ASSUME CaptureInv, UNCHANGED <<postFacts, piping>>
  PROVE EndMeansAll'
BY DEF CaptureInv, EndMeansAll, StoredStreamIsWhole, postFacts, piping, Piped

LEMMA CaptureInvStep == CaptureInv /\ [CaptureNext]_captureVars => CaptureInv'
<1> SUFFICES ASSUME CaptureInv, [CaptureNext]_captureVars PROVE CaptureInv'
  OBVIOUS
<1>0. CaptureTypeOK /\ EndMeansAll /\ ChildBeforeClaim /\ WellMeansWhole /\ CompleteLostNothing
  BY DEF CaptureInv
<1>1. CASE ContextDone
  <2>1. CaptureTypeOK'
    BY <1>0, <1>1 DEF ContextDone, postFacts, piping, CaptureTypeOK
  <2>2. EndMeansAll'
    BY <1>1, PipingUntouched DEF ContextDone
  <2>3. ChildBeforeClaim' /\ WellMeansWhole' /\ CompleteLostNothing'
    BY <1>0, <1>1 DEF ContextDone, postFacts, ChildBeforeClaim, WellMeansWhole, CompleteLostNothing
  <2> QED BY <2>1, <2>2, <2>3 DEF CaptureInv
<1>2. CASE AssetProgress
  <2>1. CaptureTypeOK'
    BY <1>0, <1>2 DEF AssetProgress, postFacts, piping, CaptureTypeOK
  <2>2. EndMeansAll'
    BY <1>2, PipingUntouched DEF AssetProgress
  <2>3. child = "running" /\ claim = "none" /\ UNCHANGED <<child, archivePc, claim>>
    BY <1>0, <1>2 DEF AssetProgress, ChildBeforeClaim
  <2>4. ChildBeforeClaim' /\ WellMeansWhole' /\ CompleteLostNothing'
    BY <1>0, <2>3 DEF ChildBeforeClaim, WellMeansWhole, CompleteLostNothing
  <2> QED BY <2>1, <2>2, <2>4 DEF CaptureInv
<1>3. CASE ChildExits
  <2>1. CaptureTypeOK'
    BY <1>0, <1>3 DEF ChildExits, postFacts, piping, CaptureTypeOK
  <2>2. EndMeansAll'
    BY <1>3, PipingUntouched DEF ChildExits
  <2>3. claim = "none" /\ archivePc # "checking" /\ UNCHANGED <<archivePc, claim>> /\ child' \in {"ok", "error"}
    BY <1>0, <1>3 DEF ChildExits, ChildBeforeClaim
  <2>4. ChildBeforeClaim' /\ CompleteLostNothing'
    BY <2>3 DEF ChildBeforeClaim, CompleteLostNothing
  <2>5. WellMeansWhole'
    BY <1>3 DEF ChildExits, postFacts, WellMeansWhole
  <2> QED BY <2>1, <2>2, <2>4, <2>5 DEF CaptureInv
<1>4. CASE StartFails
  <2>0. dir' \in BOOLEAN
    BY <1>4 DEF StartFails
  <2>1. CaptureTypeOK'
    BY <1>0, <1>4, <2>0 DEF StartFails, postFacts, piping, CaptureTypeOK
  <2>2. EndMeansAll'
    BY <1>4, PipingUntouched DEF StartFails
  <2>3. ChildBeforeClaim' /\ WellMeansWhole' /\ CompleteLostNothing'
    BY <1>0, <1>4 DEF StartFails, postFacts, ChildBeforeClaim, WellMeansWhole, CompleteLostNothing
  <2> QED BY <2>1, <2>2, <2>3 DEF CaptureInv
<1>5. CASE StartChild
  <2>1. CaptureTypeOK'
    BY <1>0, <1>5 DEF StartChild, postFacts, piping, CaptureTypeOK
  <2>2. EndMeansAll'
    BY <1>5, PipingUntouched DEF StartChild
  <2>3. ChildBeforeClaim' /\ WellMeansWhole' /\ CompleteLostNothing'
    BY <1>0, <1>5 DEF StartChild, postFacts, ChildBeforeClaim, WellMeansWhole, CompleteLostNothing
  <2> QED BY <2>1, <2>2, <2>3 DEF CaptureInv
<1>6. CASE ChildKilled
  <2>1. CaptureTypeOK'
    BY <1>0, <1>6 DEF ChildKilled, postFacts, piping, CaptureTypeOK
  <2>2. EndMeansAll'
    BY <1>6, PipingUntouched DEF ChildKilled
  <2>3. ChildBeforeClaim' /\ WellMeansWhole' /\ CompleteLostNothing'
    BY <1>0, <1>6 DEF ChildKilled, postFacts, ChildBeforeClaim, WellMeansWhole, CompleteLostNothing
  <2> QED BY <2>1, <2>2, <2>3 DEF CaptureInv
<1>7. CASE ArchiveFails
  <2>0. dir' \in BOOLEAN
    BY <1>7 DEF ArchiveFails
  <2>1. CaptureTypeOK'
    BY <1>0, <1>7, <2>0 DEF ArchiveFails, postFacts, piping, CaptureTypeOK
  <2>2. EndMeansAll'
    BY <1>7, PipingUntouched DEF ArchiveFails
  <2>3. ChildBeforeClaim' /\ WellMeansWhole' /\ CompleteLostNothing'
    BY <1>0, <1>7 DEF ArchiveFails, postFacts, ChildBeforeClaim, WellMeansWhole, CompleteLostNothing
  <2> QED BY <2>1, <2>2, <2>3 DEF CaptureInv
<1>8. CASE ArchiveReturns
  <2>1. /\ FromCounts(Cardinality(Media), child = "error") \in {"complete", "partial", "unknown"}
        /\ FromCounts(Cardinality(Media), child = "error") = "complete" => \A a \in Asset : landed[a] # "absent"
    BY <1>0, CountsClaim
  <2>2. /\ UNCHANGED <<tool, counted, ctxDone, child, landed, dir, sent, closed, storing>>
        /\ archivePc' = "returned" /\ child \in {"ok", "error"} /\ (tool # "gallery-dl" => child = "ok")
        /\ claim' = IF tool = "gallery-dl" THEN FromCounts(Cardinality(Media), child = "error")
                    ELSE IF tool = "yt-dlp" THEN "complete" ELSE "none"
    BY <1>8 DEF ArchiveReturns, postFacts
  <2>3. producer' \in {producer, "writing"} /\ stream' \in {stream, "eof"} /\ (Piped => stream' = stream)
    BY <1>8 DEF ArchiveReturns
  <2>4. claim' \in {"none", "complete", "partial", "unknown"}
    BY <2>1, <2>2
  <2>5. CaptureTypeOK'
    BY <1>0, <2>2, <2>3, <2>4 DEF CaptureTypeOK
  <2>6. EndMeansAll'
    BY <1>0, <2>2, <2>3 DEF EndMeansAll, StoredStreamIsWhole, Piped
  <2>7. ChildBeforeClaim' /\ WellMeansWhole'
    BY <1>0, <2>2 DEF ChildBeforeClaim, WellMeansWhole
  <2>8. CompleteLostNothing'
    <3> SUFFICES ASSUME claim' = "complete" PROVE \A a \in Asset : landed[a] # "absent"
      BY <2>2 DEF CompleteLostNothing
    <3>1. CASE tool = "gallery-dl"
      BY <2>1, <2>2, <3>1
    <3>2. CASE tool # "gallery-dl"
      BY <1>0, <2>2, <3>2 DEF WellMeansWhole
    <3> QED BY <3>1, <3>2
  <2> QED BY <2>5, <2>6, <2>7, <2>8 DEF CaptureInv
<1>9. CASE ProducerFails \/ ProducerCancelled \/ ProducerFinishes \/ ProducerAbandoned
  <2>1. UNCHANGED calling
    BY <1>9 DEF ProducerFails, ProducerCancelled, ProducerFinishes, ProducerAbandoned, calling
  <2>2. CaptureTypeOK'
    BY <1>0, <1>9 DEF ProducerFails, ProducerCancelled, ProducerFinishes, ProducerAbandoned, ProducerEnds,
                      postFacts, CaptureTypeOK
  <2>3. EndMeansAll'
    BY <1>0, <1>9 DEF ProducerFails, ProducerCancelled, ProducerFinishes, ProducerAbandoned, ProducerEnds,
                      postFacts, EndMeansAll, StoredStreamIsWhole, Piped
  <2> QED BY <2>1, <2>2, <2>3, CallingUntouched DEF CaptureInv
<1>10. CASE OpenWriter \/ CopyFails
  <2>1. UNCHANGED calling
    BY <1>10 DEF OpenWriter, CopyFails, calling
  <2>2. CaptureTypeOK'
    BY <1>0, <1>10 DEF OpenWriter, CopyFails, CloseReader, postFacts, CaptureTypeOK
  <2>3. EndMeansAll'
    BY <1>0, <1>10 DEF OpenWriter, CopyFails, postFacts, EndMeansAll, StoredStreamIsWhole, Piped
  <2> QED BY <2>1, <2>2, <2>3, CallingUntouched DEF CaptureInv
<1>11. CASE CopyPart
  <2>1. UNCHANGED calling
    BY <1>11 DEF CopyPart, calling
  <2>2. sent' \in 0..Parts
    BY <1>0, <1>11, PartsAssumption DEF CopyPart, CaptureTypeOK
  <2>3. CaptureTypeOK'
    BY <1>0, <1>11, <2>2 DEF CopyPart, postFacts, CaptureTypeOK
  <2>4. sent # Parts /\ storing' = "copying" /\ UNCHANGED <<tool, stream>>
    BY <1>11, PartsAssumption DEF CopyPart, postFacts
  <2>5. EndMeansAll'
    BY <1>0, <2>4 DEF EndMeansAll, StoredStreamIsWhole, Piped
  <2> QED BY <2>1, <2>3, <2>5, CallingUntouched DEF CaptureInv
<1>12. CASE CopyEnds
  <2>1. UNCHANGED calling
    BY <1>12 DEF CopyEnds, calling
  <2>2. CaptureTypeOK'
    BY <1>0, <1>12 DEF CopyEnds, CloseReader, postFacts, CaptureTypeOK
  <2>3. EndMeansAll'
    BY <1>0, <1>12 DEF CopyEnds, postFacts, EndMeansAll, StoredStreamIsWhole, Piped
  <2> QED BY <2>1, <2>2, <2>3, CallingUntouched DEF CaptureInv
<1>13. CASE UNCHANGED captureVars
  <2>1. UNCHANGED calling /\ UNCHANGED <<postFacts, piping>>
    BY <1>13 DEF captureVars, calling, postFacts, piping
  <2>2. CaptureTypeOK'
    BY <1>0, <1>13 DEF captureVars, CaptureTypeOK
  <2> QED BY <2>1, <2>2, CallingUntouched, PipingUntouched DEF CaptureInv
<1> QED
  BY <1>1, <1>2, <1>3, <1>4, <1>5, <1>6, <1>7, <1>8, <1>9, <1>10, <1>11, <1>12, <1>13
  DEF CaptureNext, Capturing

\* The invariant holds, the types with it.
THEOREM CaptureInvariant == CaptureSpec => []CaptureInv
BY CaptureInvInit, CaptureInvStep, PTL DEF CaptureSpec

\* What the worker stores is the whole stream, and a capture that claims to be
\* complete lost no file of the post (gallery_dl.go:248-267, completeness.go:66-83).
THEOREM CaptureHonest == CaptureSpec => []CaptureIsHonest
<1>1. CaptureInv => CaptureIsHonest
  BY DEF CaptureInv, EndMeansAll, CaptureIsHonest
<1> QED BY <1>1, CaptureInvariant, PTL

-----------------------------------------------------------------------------
(* BrowserBundle *)

\* Where the job is with its bundle: a teardown runs from the moment a cleanup
\* is asked for, its caller waits in "cleaning" and nowhere else, and a job that
\* is over without a teardown never handed its bundle to the worker.
JobAndTeardown ==
  /\ teardown # "none" => jobPc \in {"cleaning", "over"}
  /\ jobPc = "cleaning" <=> waiter = "waiting"
  /\ waiter = "none" <=> teardown = "none"
  /\ handed => jobPc \in {"returned", "cleaning", "over"}
  /\ jobPc = "over" /\ handed => teardown # "none"

\* What the monitor has counted of the driver and of the browser is where they
\* are: the browser is in the bundle from its creation to its cleanup.
CountsKnow ==
  /\ launches = (IF jobPc = "start" THEN 0 ELSE 1)
  /\ closes = (IF teardown = "done" THEN 1 ELSE 0)
  /\ IF "browser" \in held THEN creates = 1 /\ cleanups = 0 ELSE cleanups = creates
  /\ teardown \in {"driver", "done"} => "browser" \notin held
  /\ jobPc \in {"start", "launch"} => creates = 0 /\ chrome = "none" /\ "browser" \notin held

\* A job loses its processes to a timeout of its cleanup and to the reaper, and
\* to each at most once.
KillsKnow ==
  /\ waiter # "over" /\ chrome # "closed" => kills = 0
  /\ waiter # "over" \/ chrome # "closed" => kills <= 1

BundleInv == BundleTypeOK /\ JobAndTeardown /\ CountsKnow /\ KillsKnow

LEMMA BundleInvInit == BundleInit => BundleInv
<1> SUFFICES ASSUME BundleInit PROVE BundleInv
  OBVIOUS
<1>1. launches \in 0..1 /\ closes \in 0..1 /\ creates \in 0..1 /\ cleanups \in 0..1 /\ kills \in 0..2
  BY DEF BundleInit
<1>2. BundleTypeOK
  BY <1>1 DEF BundleInit, BundleTypeOK
<1>3. JobAndTeardown /\ CountsKnow
  BY DEF BundleInit, JobAndTeardown, CountsKnow
<1>4. KillsKnow
  BY DEF BundleInit, KillsKnow
<1> QED BY <1>2, <1>3, <1>4 DEF BundleInv

LEMMA BundleInvStep == BundleInv /\ [BundleNext]_bundleVars => BundleInv'
<1> SUFFICES ASSUME BundleInv, [BundleNext]_bundleVars PROVE BundleInv'
  OBVIOUS
<1>0. BundleTypeOK /\ JobAndTeardown /\ CountsKnow /\ KillsKnow
  BY DEF BundleInv
<1> USE DEF processes, closing, counters, StartCleanup
<1>1. CASE RunDriver
  <2>0. launches' \in 0..1 /\ closes' \in 0..1 /\ creates' \in 0..1 /\ cleanups' \in 0..1 /\ kills' \in 0..2
    BY <1>0, <1>1 DEF RunDriver, BundleTypeOK, CountsKnow
  <2>1. BundleTypeOK'
    <3>1. held' \subseteq {"pw", "browser", "context"} /\ driver' \in {"none", "up", "stopped"}
          /\ jobPc' \in {"launch", "over"}
      BY <1>0, <1>1 DEF RunDriver, BundleTypeOK
    <3>2. UNCHANGED <<handed, chrome, window, wedged, aged, closing>>
      BY <1>1 DEF RunDriver
    <3> QED BY <1>0, <2>0, <3>1, <3>2 DEF BundleTypeOK
  <2>2. JobAndTeardown'
    BY <1>0, <1>1 DEF RunDriver, BundleTypeOK, JobAndTeardown
  <2>3. CountsKnow'
    BY <1>0, <1>1 DEF RunDriver, BundleTypeOK, JobAndTeardown, CountsKnow
  <2>4. KillsKnow'
    BY <1>0, <1>1 DEF RunDriver, BundleTypeOK, CountsKnow, JobAndTeardown, KillsKnow
  <2> QED BY <2>1, <2>2, <2>3, <2>4 DEF BundleInv
<1>2. CASE LaunchBrowser
  <2>0. launches' \in 0..1 /\ closes' \in 0..1 /\ creates' \in 0..1 /\ cleanups' \in 0..1 /\ kills' \in 0..2
    BY <1>0, <1>2 DEF LaunchBrowser, BundleTypeOK, CountsKnow
  <2>1. BundleTypeOK'
    <3>1. /\ held' \subseteq {"pw", "browser", "context"} /\ chrome' \in {"none", "up", "closed"}
          /\ jobPc' \in {"context", "cleaning"}
          /\ teardown' \in {"none", "context", "browser", "driver", "done"} /\ waiter' \in {"none", "waiting", "over"}
      BY <1>0, <1>2 DEF LaunchBrowser, BundleTypeOK
    <3>2. UNCHANGED <<handed, driver, window, wedged, aged>>
      BY <1>2 DEF LaunchBrowser
    <3> QED BY <1>0, <2>0, <3>1, <3>2 DEF BundleTypeOK
  <2>2. JobAndTeardown'
    BY <1>0, <1>2 DEF LaunchBrowser, BundleTypeOK, JobAndTeardown
  <2>3. CountsKnow'
    BY <1>0, <1>2 DEF LaunchBrowser, BundleTypeOK, JobAndTeardown, CountsKnow
  <2>4. KillsKnow'
    BY <1>0, <1>2 DEF LaunchBrowser, BundleTypeOK, CountsKnow, JobAndTeardown, KillsKnow
  <2> QED BY <2>1, <2>2, <2>3, <2>4 DEF BundleInv
<1>3. CASE CreateContext
  <2>1. BundleTypeOK'
    BY <1>0, <1>3 DEF CreateContext, BundleTypeOK, JobAndTeardown, CountsKnow, KillsKnow
  <2>2. JobAndTeardown'
    BY <1>0, <1>3 DEF CreateContext, BundleTypeOK, JobAndTeardown
  <2>3. CountsKnow'
    BY <1>0, <1>3 DEF CreateContext, BundleTypeOK, JobAndTeardown, CountsKnow
  <2>4. KillsKnow'
    BY <1>0, <1>3 DEF CreateContext, BundleTypeOK, CountsKnow, JobAndTeardown, KillsKnow
  <2> QED BY <2>1, <2>2, <2>3, <2>4 DEF BundleInv
<1>4. CASE CreatePage
  <2>1. BundleTypeOK'
    BY <1>0, <1>4 DEF CreatePage, BundleTypeOK, JobAndTeardown, CountsKnow, KillsKnow
  <2>2. JobAndTeardown'
    BY <1>0, <1>4 DEF CreatePage, BundleTypeOK, JobAndTeardown
  <2>3. CountsKnow'
    BY <1>0, <1>4 DEF CreatePage, BundleTypeOK, JobAndTeardown, CountsKnow
  <2>4. KillsKnow'
    BY <1>0, <1>4 DEF CreatePage, BundleTypeOK, CountsKnow, JobAndTeardown, KillsKnow
  <2> QED BY <2>1, <2>2, <2>3, <2>4 DEF BundleInv
<1>5. CASE ArchiveEnds
  <2>1. BundleTypeOK'
    BY <1>0, <1>5 DEF ArchiveEnds, BundleTypeOK, JobAndTeardown, CountsKnow, KillsKnow
  <2>2. JobAndTeardown'
    BY <1>0, <1>5 DEF ArchiveEnds, BundleTypeOK, JobAndTeardown
  <2>3. CountsKnow'
    BY <1>0, <1>5 DEF ArchiveEnds, BundleTypeOK, JobAndTeardown, CountsKnow
  <2>4. KillsKnow'
    BY <1>0, <1>5 DEF ArchiveEnds, BundleTypeOK, CountsKnow, JobAndTeardown, KillsKnow
  <2> QED BY <2>1, <2>2, <2>3, <2>4 DEF BundleInv
<1>6. CASE ArchivePanics
  <2>1. BundleTypeOK'
    BY <1>0, <1>6 DEF ArchivePanics, BundleTypeOK, JobAndTeardown, CountsKnow, KillsKnow
  <2>2. JobAndTeardown'
    BY <1>0, <1>6 DEF ArchivePanics, BundleTypeOK, JobAndTeardown
  <2>3. CountsKnow'
    BY <1>0, <1>6 DEF ArchivePanics, BundleTypeOK, JobAndTeardown, CountsKnow
  <2>4. KillsKnow'
    BY <1>0, <1>6 DEF ArchivePanics, BundleTypeOK, CountsKnow, JobAndTeardown, KillsKnow
  <2> QED BY <2>1, <2>2, <2>3, <2>4 DEF BundleInv
<1>7. CASE WorkerCleansUp
  <2>1. BundleTypeOK'
    BY <1>0, <1>7 DEF WorkerCleansUp, BundleTypeOK, JobAndTeardown, CountsKnow, KillsKnow
  <2>2. JobAndTeardown'
    BY <1>0, <1>7 DEF WorkerCleansUp, BundleTypeOK, JobAndTeardown
  <2>3. CountsKnow'
    BY <1>0, <1>7 DEF WorkerCleansUp, BundleTypeOK, JobAndTeardown, CountsKnow
  <2>4. KillsKnow'
    BY <1>0, <1>7 DEF WorkerCleansUp, BundleTypeOK, CountsKnow, JobAndTeardown, KillsKnow
  <2> QED BY <2>1, <2>2, <2>3, <2>4 DEF BundleInv
<1>8. CASE CleanupReturns
  <2>1. BundleTypeOK'
    BY <1>0, <1>8 DEF CleanupReturns, BundleTypeOK, JobAndTeardown, CountsKnow, KillsKnow
  <2>2. JobAndTeardown'
    BY <1>0, <1>8 DEF CleanupReturns, BundleTypeOK, JobAndTeardown
  <2>3. CountsKnow'
    BY <1>0, <1>8 DEF CleanupReturns, BundleTypeOK, JobAndTeardown, CountsKnow
  <2>4. KillsKnow'
    BY <1>0, <1>8 DEF CleanupReturns, BundleTypeOK, CountsKnow, JobAndTeardown, KillsKnow
  <2> QED BY <2>1, <2>2, <2>3, <2>4 DEF BundleInv
<1>9. CASE CleanupTimesOut
  <2>1. BundleTypeOK'
    BY <1>0, <1>9 DEF CleanupTimesOut, BundleTypeOK, JobAndTeardown, CountsKnow, KillsKnow
  <2>2. JobAndTeardown'
    BY <1>0, <1>9 DEF CleanupTimesOut, BundleTypeOK, JobAndTeardown
  <2>3. CountsKnow'
    BY <1>0, <1>9 DEF CleanupTimesOut, BundleTypeOK, JobAndTeardown, CountsKnow
  <2>4. KillsKnow'
    BY <1>0, <1>9 DEF CleanupTimesOut, BundleTypeOK, CountsKnow, JobAndTeardown, KillsKnow
  <2> QED BY <2>1, <2>2, <2>3, <2>4 DEF BundleInv
<1>10. CASE CloseContext
  <2>1. BundleTypeOK'
    BY <1>0, <1>10 DEF CloseContext, BundleTypeOK, JobAndTeardown, CountsKnow, KillsKnow
  <2>2. JobAndTeardown'
    BY <1>0, <1>10 DEF CloseContext, BundleTypeOK, JobAndTeardown
  <2>3. CountsKnow'
    BY <1>0, <1>10 DEF CloseContext, BundleTypeOK, JobAndTeardown, CountsKnow
  <2>4. KillsKnow'
    BY <1>0, <1>10 DEF CloseContext, BundleTypeOK, CountsKnow, JobAndTeardown, KillsKnow
  <2> QED BY <2>1, <2>2, <2>3, <2>4 DEF BundleInv
<1>11. CASE CloseBrowser
  <2>1. BundleTypeOK'
    BY <1>0, <1>11 DEF CloseBrowser, BundleTypeOK, JobAndTeardown, CountsKnow, KillsKnow
  <2>2. JobAndTeardown'
    BY <1>0, <1>11 DEF CloseBrowser, BundleTypeOK, JobAndTeardown
  <2>3. CountsKnow'
    BY <1>0, <1>11 DEF CloseBrowser, BundleTypeOK, JobAndTeardown, CountsKnow
  <2>4. KillsKnow'
    BY <1>0, <1>11 DEF CloseBrowser, BundleTypeOK, CountsKnow, JobAndTeardown, KillsKnow
  <2> QED BY <2>1, <2>2, <2>3, <2>4 DEF BundleInv
<1>12. CASE StopDriver
  <2>1. BundleTypeOK'
    BY <1>0, <1>12 DEF StopDriver, BundleTypeOK, JobAndTeardown, CountsKnow, KillsKnow
  <2>2. JobAndTeardown'
    BY <1>0, <1>12 DEF StopDriver, BundleTypeOK, JobAndTeardown
  <2>3. CountsKnow'
    BY <1>0, <1>12 DEF StopDriver, BundleTypeOK, JobAndTeardown, CountsKnow
  <2>4. KillsKnow'
    BY <1>0, <1>12 DEF StopDriver, BundleTypeOK, CountsKnow, JobAndTeardown, KillsKnow
  <2> QED BY <2>1, <2>2, <2>3, <2>4 DEF BundleInv
<1>13. CASE Wedge
  <2>1. BundleTypeOK'
    BY <1>0, <1>13 DEF Wedge, BundleTypeOK, JobAndTeardown, CountsKnow, KillsKnow
  <2>2. JobAndTeardown'
    BY <1>0, <1>13 DEF Wedge, BundleTypeOK, JobAndTeardown
  <2>3. CountsKnow'
    BY <1>0, <1>13 DEF Wedge, BundleTypeOK, JobAndTeardown, CountsKnow
  <2>4. KillsKnow'
    BY <1>0, <1>13 DEF Wedge, BundleTypeOK, CountsKnow, JobAndTeardown, KillsKnow
  <2> QED BY <2>1, <2>2, <2>3, <2>4 DEF BundleInv
<1>14. CASE GrowOld
  <2>1. BundleTypeOK'
    BY <1>0, <1>14 DEF GrowOld, BundleTypeOK, JobAndTeardown, CountsKnow, KillsKnow
  <2>2. JobAndTeardown'
    BY <1>0, <1>14 DEF GrowOld, BundleTypeOK, JobAndTeardown
  <2>3. CountsKnow'
    BY <1>0, <1>14 DEF GrowOld, BundleTypeOK, JobAndTeardown, CountsKnow
  <2>4. KillsKnow'
    BY <1>0, <1>14 DEF GrowOld, BundleTypeOK, CountsKnow, JobAndTeardown, KillsKnow
  <2> QED BY <2>1, <2>2, <2>3, <2>4 DEF BundleInv
<1>15. CASE Reap
  <2>1. BundleTypeOK'
    BY <1>0, <1>15 DEF Reap, BundleTypeOK, JobAndTeardown, CountsKnow, KillsKnow
  <2>2. JobAndTeardown'
    BY <1>0, <1>15 DEF Reap, BundleTypeOK, JobAndTeardown
  <2>3. CountsKnow'
    BY <1>0, <1>15 DEF Reap, BundleTypeOK, JobAndTeardown, CountsKnow
  <2>4. KillsKnow'
    BY <1>0, <1>15 DEF Reap, BundleTypeOK, CountsKnow, JobAndTeardown, KillsKnow
  <2> QED BY <2>1, <2>2, <2>3, <2>4 DEF BundleInv
<1>16. CASE UNCHANGED bundleVars
  <2>1. BundleTypeOK'
    BY <1>0, <1>16 DEF bundleVars, BundleTypeOK, JobAndTeardown, CountsKnow, KillsKnow
  <2>2. JobAndTeardown'
    BY <1>0, <1>16 DEF bundleVars, BundleTypeOK, JobAndTeardown
  <2>3. CountsKnow'
    BY <1>0, <1>16 DEF bundleVars, BundleTypeOK, JobAndTeardown, CountsKnow
  <2>4. KillsKnow'
    BY <1>0, <1>16 DEF bundleVars, BundleTypeOK, CountsKnow, JobAndTeardown, KillsKnow
  <2> QED BY <2>1, <2>2, <2>3, <2>4 DEF BundleInv
<1> QED
  BY <1>1, <1>2, <1>3, <1>4, <1>5, <1>6, <1>7, <1>8, <1>9, <1>10, <1>11, <1>12, <1>13, <1>14, <1>15, <1>16
  DEF BundleNext, Job, Teardown, Reaper

\* The invariant holds, the types with it.
THEOREM BundleInvariant == BundleSpec => []BundleInv
BY BundleInvInit, BundleInvStep, PTL DEF BundleSpec

\* A launch is closed at most once, and when a job is over the imbalance
\* detectLeaks looks at stands for a teardown under way, a bundle lost to a
\* panic or a driver that never started (browser_monitor.go:186-211).
THEOREM CountersAreTrue == BundleSpec => []CountersTell
<1>1. BundleInv => CountersTell
  BY DEF BundleInv, BundleTypeOK, JobAndTeardown, CountsKnow, CountersTell
<1> QED BY <1>1, BundleInvariant, PTL
=============================================================================
