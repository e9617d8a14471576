--------------------------- MODULE ServingProofs ---------------------------
(* Proofs about what is stored and served: ObjectStore, GitCache and        *)
(* ThumbnailPreview, for every length of an artifact, number of failures,    *)
(* number of requests, entries and artifacts of a repository, and number of  *)
(* runs and attempts.                                                        *)
EXTENDS ObjectStore, GitCache, ThumbnailPreview, TLAPS

-----------------------------------------------------------------------------
(* ObjectStore. That a saved object is whole is decided when the writer is  *)
(* closed, by what the writer then knows of the copy.                        *)

\* Before the copy has ended nothing has failed and nothing is saved; a copy
\* that ended without an error took every byte, on a writer nothing spoiled; the
\* next attempt starts from nothing.
WriterKnows ==
  /\ writer \in {"none", "open"} => ~copyErr /\ ~spoiled
  /\ writer = "none" => ~spool /\ taken = 0
  /\ writer = "closing" /\ ~copyErr => taken = Length /\ ~spoiled
  /\ saved => writer = "closed"

StoreInv == StoreTypeOK /\ SavedIsWhole /\ ReadsWhereItIs /\ WriterKnows

LEMMA AbsentIsNoLength ==
  /\ Length \in Nat /\ Absent \in Nat /\ Length < Absent /\ 0 < Length
  /\ 0 \in 0..Length /\ Absent \in 0..Absent /\ 0..Length \subseteq 0..Absent
  /\ 0 \in 0..Failures
BY LengthAssumption, FailuresAssumption DEF Absent

LEMMA StoreInvInit == StoreInit => StoreInv
<1> SUFFICES ASSUME StoreInit PROVE StoreInv
  OBVIOUS
<1>1. StoreTypeOK
  BY AbsentIsNoLength, FailuresAssumption DEF StoreInit, StoreTypeOK
<1>2. SavedIsWhole /\ ReadsWhereItIs /\ WriterKnows
  BY AbsentIsNoLength DEF StoreInit, SavedIsWhole, ReadsWhereItIs, WriterKnows
<1> QED BY <1>1, <1>2 DEF StoreInv

\* A step that leaves the reader alone keeps it where it is.
LEMMA ReaderUntouched ==
  ASSUME StoreInv, UNCHANGED reading PROVE ReadsWhereItIs'
BY DEF StoreInv, ReadsWhereItIs, reading

\* A position a seek clamps is in the object.
LEMMA ClampInRange == ASSUME NEW p \in Nat PROVE Clamp(p) \in 0..Length
BY AbsentIsNoLength DEF Clamp

LEMMA StoreInvStep == StoreInv /\ [StoreNext]_storeVars => StoreInv'
<1> SUFFICES ASSUME StoreInv, [StoreNext]_storeVars PROVE StoreInv'
  OBVIOUS
<1>0. StoreTypeOK /\ SavedIsWhole /\ ReadsWhereItIs /\ WriterKnows
  BY DEF StoreInv
<1> USE AbsentIsNoLength, FailuresAssumption DEF WriterKnows
<1>1. CASE OpenObject
  <2>1. StoreTypeOK' /\ SavedIsWhole'
    BY <1>0, <1>1 DEF OpenObject, reading, StoreTypeOK, SavedIsWhole
  <2>2. WriterKnows' /\ UNCHANGED reading
    BY <1>0, <1>1 DEF OpenObject, reading
  <2> QED BY <2>1, <2>2, ReaderUntouched DEF StoreInv
<1>2. CASE WriteByte
  <2>1. StoreTypeOK' /\ SavedIsWhole'
    BY <1>0, <1>2 DEF WriteByte, reading, StoreTypeOK, SavedIsWhole
  <2>2. WriterKnows' /\ UNCHANGED reading
    BY <1>0, <1>2 DEF WriteByte, reading
  <2> QED BY <2>1, <2>2, ReaderUntouched DEF StoreInv
<1>3. CASE WriteFails
  <2>1. StoreTypeOK' /\ SavedIsWhole'
    BY <1>0, <1>3 DEF WriteFails, reading, StoreTypeOK, SavedIsWhole
  <2>2. WriterKnows' /\ UNCHANGED reading
    BY <1>0, <1>3 DEF WriteFails, reading
  <2> QED BY <2>1, <2>2, ReaderUntouched DEF StoreInv
<1>4. CASE StreamEnds
  <2>1. StoreTypeOK' /\ SavedIsWhole'
    BY <1>0, <1>4 DEF StreamEnds, reading, StoreTypeOK, SavedIsWhole
  <2>2. WriterKnows' /\ UNCHANGED reading
    BY <1>0, <1>4 DEF StreamEnds, reading
  <2> QED BY <2>1, <2>2, ReaderUntouched DEF StoreInv
<1>5. CASE CloseObject
  <2>1. Published \in 0..Absent /\ (~copyErr => Published = Length)
    BY <1>0, <1>5 DEF CloseObject, Published, StoreTypeOK
  <2>2. StoreTypeOK'
    BY <1>0, <1>5, <2>1 DEF CloseObject, reading, StoreTypeOK
  <2>3. SavedIsWhole'
    BY <1>5, <2>1 DEF CloseObject, SavedIsWhole
  <2>4. WriterKnows' /\ UNCHANGED reading
    BY <1>5 DEF CloseObject, reading
  <2> QED BY <2>2, <2>3, <2>4, ReaderUntouched DEF StoreInv
<1>6. CASE StoreCrash
  <2>0. ~saved' /\ ~spoiled' /\ writer' = "none"
    BY <1>0, <1>6 DEF StoreCrash
  <2>1. StoreTypeOK' /\ SavedIsWhole'
    <3>1. StoreTypeOK'
      BY <1>0, <1>6 DEF StoreCrash, reading, StoreTypeOK
    <3>2. SavedIsWhole'
      BY <2>0 DEF SavedIsWhole
    <3> QED BY <3>1, <3>2
  <2>2. WriterKnows' /\ UNCHANGED reading
    BY <1>0, <1>6 DEF StoreCrash, reading
  <2> QED BY <2>1, <2>2, ReaderUntouched DEF StoreInv
<1>7. ASSUME UNCHANGED <<backend, writing>>, StoreTypeOK', ReadsWhereItIs' PROVE StoreInv'
  BY <1>0, <1>7 DEF StoreInv, writing, SavedIsWhole
<1>8. CASE ReadByte
  <2> DEFINE from == IF body = Absent THEN pos ELSE body
  <2>1. from = pos /\ pos \in 0..Length /\ pos < Length
    BY <1>0, <1>8 DEF ReadByte, StoreTypeOK, ReadsWhereItIs
  <2>2. body' = pos + 1 /\ pos' = pos + 1
    BY <1>8, <2>1 DEF ReadByte
  <2>3. StoreTypeOK' /\ ReadsWhereItIs'
    BY <1>0, <1>8, <2>1, <2>2 DEF ReadByte, writing, StoreTypeOK, ReadsWhereItIs
  <2> QED BY <1>7, <1>8, <2>3 DEF ReadByte
<1>9. CASE ReadFails
  <2>1. broken' \in BOOLEAN
    BY <1>0, <1>9 DEF ReadFails, StoreTypeOK
  <2>3. failures' \in 0..Failures
    BY <1>0, <1>9 DEF ReadFails, StoreTypeOK
  <2>4. StoreTypeOK'
    BY <1>0, <1>9, <2>1, <2>3 DEF ReadFails, writing, StoreTypeOK
  <2>2. ReadsWhereItIs'
    BY <1>0, <1>9 DEF ReadFails, ReadsWhereItIs
  <2> QED BY <1>7, <1>9, <2>2, <2>4 DEF ReadFails
<1>10. ASSUME NEW p \in 0..Length + 1, SeekTo(p) PROVE StoreInv'
  <2>1. Clamp(p) \in 0..Length
    BY ClampInRange
  <2>4. /\ body' \in 0..Absent /\ broken' \in BOOLEAN /\ pos' \in 0..Length
        /\ sizeSet' \in BOOLEAN /\ failures' \in 0..Failures
    <3>1. CASE body # Absent /\ p = pos
      BY <1>0, <1>10, <3>1 DEF SeekTo, reading, StoreTypeOK
    <3>2. CASE ~(body # Absent /\ p = pos)
      <4>1. body' \in 0..Absent /\ broken' \in BOOLEAN
        BY <1>10, <3>2 DEF SeekTo
      <4>2. pos' \in 0..Length /\ sizeSet' \in BOOLEAN
        BY <1>0, <1>10, <2>1, <3>2 DEF SeekTo, StoreTypeOK
      <4>3. failures' \in 0..Failures
        BY <1>0, <1>10, <3>2 DEF SeekTo, StoreTypeOK
      <4> QED BY <4>1, <4>2, <4>3
    <3> QED BY <3>1, <3>2
  <2>2. StoreTypeOK'
    BY <1>0, <1>10, <2>4 DEF SeekTo, writing, StoreTypeOK
  <2>3. ReadsWhereItIs'
    BY <1>0, <1>10, <2>1 DEF SeekTo, reading, StoreTypeOK, ReadsWhereItIs
  <2> QED BY <1>7, <1>10, <2>2, <2>3 DEF SeekTo
<1>11. CASE UNCHANGED storeVars
  BY <1>0, <1>11 DEF storeVars, StoreInv, StoreTypeOK, SavedIsWhole, ReadsWhereItIs
<1> QED
  BY <1>1, <1>2, <1>3, <1>4, <1>5, <1>6, <1>8, <1>9, <1>10, <1>11 DEF StoreNext

THEOREM StoreInvariant == StoreSpec => []StoreInv
BY StoreInvInit, StoreInvStep, PTL DEF StoreSpec

\* An artifact the worker takes for stored is there in full, in whichever store
\* and after whichever failures and crashes, and its spool file is gone
\* (s3.go:296-368, archive_worker.go:420-433).
THEOREM ArtifactIsWhole == StoreSpec => []SavedIsWhole
<1>1. StoreInv => SavedIsWhole
  BY DEF StoreInv
<1> QED BY <1>1, StoreInvariant, PTL

\* However reads, seeks and failures follow one another, the open response is at
\* the reader's position (s3.go:392-402).
THEOREM ReaderIsThere == StoreSpec => []ReadsWhereItIs
<1>1. StoreInv => ReadsWhereItIs
  BY DEF StoreInv
<1> QED BY <1>1, StoreInvariant, PTL

-----------------------------------------------------------------------------
(* GitCache. ClonesAreWhole is not inductive: a request passes the gate on  *)
(* what it sees of the directory, so the invariant says what the mutex, or   *)
(* its being free, says about it.                                            *)

\* The directory is of an artifact that was stored; one somebody unpacks is of
\* the artifact that request read; while nobody unpacks, and unless the process
\* once died doing so, it is whole; nobody unpacks while others are served.
GateKnows ==
  /\ cacheDir # NoDir => cacheDir.of \in 1..current
  /\ \A r \in Request : cloning[r] \in {"locking", "unpacking"} => keyRead[r] \in 1..current
  /\ \A r \in Request : cloning[r] = "unpacking" <=> mutex = r
  /\ \A r \in Request : cloning[r] = "serving" => cacheDir # NoDir /\ mutex = Nobody
  /\ mutex # Nobody => cacheDir.of = keyRead[mutex]
  /\ mutex = Nobody /\ cacheDir # NoDir /\ ~died => cacheDir.entries = Entries

GitInv == GitTypeOK /\ GateKnows

LEMMA NoDirIsNone == NoDir \in [of : 0..Versions, entries : 0..Entries] /\ NoDir.of = 0
BY EntriesAssumption, VersionsAssumption DEF NoDir

LEMMA GitInvInit == GitInit => GitInv
<1> SUFFICES ASSUME GitInit PROVE GitInv
  OBVIOUS
<1>1. GitTypeOK
  BY NoDirIsNone, VersionsAssumption DEF GitInit, GitTypeOK
<1>2. GateKnows
  BY NobodyAssumption DEF GitInit, GateKnows
<1> QED BY <1>1, <1>2 DEF GitInv

\* One request's step of the handler.
Clones(r) == ReadRow(r) \/ Gate(r) \/ UnpackEntry(r) \/ UnpackFails(r) \/ Unpacked(r) \/ Served(r)

LEMMA CloneStep ==
  ASSUME GitInv, NEW r \in Request, Clones(r)
  PROVE  GitInv'
<1>0. GitTypeOK /\ GateKnows
  BY DEF GitInv
<1> USE NobodyAssumption
<1>1. CASE ReadRow(r)
  <2>1. current \in 1..current
    BY <1>0, <1>1, VersionsAssumption DEF ReadRow, GitTypeOK
  <2>2. GitTypeOK'
    BY <1>0, <1>1 DEF ReadRow, GitTypeOK
  <2>3. mutex # r
    BY <1>0, <1>1 DEF ReadRow, GateKnows
  <2>4. GateKnows'
    BY <1>0, <1>1, <2>1, <2>3 DEF ReadRow, GitTypeOK, GateKnows
  <2> QED BY <2>2, <2>4 DEF GitInv
<1>2. CASE Gate(r)
  <2>1. cloning[r] = "locking" /\ mutex = Nobody /\ keyRead[r] \in 1..current
    BY <1>0, <1>2 DEF Gate, GateKnows
  <2>2. CASE Exists /\ cloning' = [cloning EXCEPT ![r] = "serving"]
             /\ UNCHANGED <<cacheDir, mutex, current, keyRead, died>>
    <3>1. GitTypeOK'
      BY <1>0, <2>2 DEF GitTypeOK
    <3>2. GateKnows'
      BY <1>0, <2>1, <2>2 DEF GitTypeOK, GateKnows, Exists
    <3> QED BY <3>1, <3>2 DEF GitInv
  <2>3. CASE ~Exists /\ cloning' = [cloning EXCEPT ![r] = "unpacking"]
             /\ cacheDir' = [of |-> keyRead[r], entries |-> 0] /\ mutex' = r
             /\ UNCHANGED <<current, keyRead, died>>
    <3>1. GitTypeOK'
      BY <1>0, <2>3, EntriesAssumption DEF GitTypeOK
    <3>2. \A q \in Request : cloning[q] # "serving" /\ cloning[q] # "unpacking"
      BY <1>0, <2>1, <2>3 DEF GateKnows, Exists
    <3>3. GateKnows'
      BY <1>0, <2>1, <2>3, <3>2 DEF GitTypeOK, GateKnows
    <3> QED BY <3>1, <3>3 DEF GitInv
  <2>4. CASE ~Exists /\ cloning' = [cloning EXCEPT ![r] = "idle"]
             /\ UNCHANGED <<cacheDir, mutex, current, keyRead, died>>
    <3>1. GitTypeOK'
      BY <1>0, <2>4 DEF GitTypeOK
    <3>2. GateKnows'
      BY <1>0, <2>1, <2>4 DEF GitTypeOK, GateKnows
    <3> QED BY <3>1, <3>2 DEF GitInv
  <2> QED BY <1>2, <2>2, <2>3, <2>4 DEF Gate
<1>3. CASE UnpackEntry(r)
  <2>1. mutex = r /\ cacheDir.of = keyRead[r] /\ keyRead[r] \in 1..current
    BY <1>0, <1>3 DEF UnpackEntry, GateKnows
  <2>2. cacheDir' = [of |-> cacheDir.of, entries |-> cacheDir.entries + 1]
        /\ cacheDir.entries + 1 \in 0..Entries
    BY <1>0, <1>3, EntriesAssumption DEF UnpackEntry, GitTypeOK
  <2>3. GitTypeOK'
    BY <1>0, <1>3, <2>2 DEF UnpackEntry, GitTypeOK
  <2>4. GateKnows'
    BY <1>0, <1>3, <2>1, <2>2 DEF UnpackEntry, GateKnows
  <2> QED BY <2>3, <2>4 DEF GitInv
<1>4. CASE UnpackFails(r)
  <2>1. mutex = r /\ \A q \in Request : q # r => cloning[q] # "unpacking" /\ cloning[q] # "serving"
    BY <1>0, <1>4 DEF UnpackFails, GateKnows
  <2>2. GitTypeOK'
    BY <1>0, <1>4, NoDirIsNone DEF UnpackFails, GitTypeOK
  <2>3. GateKnows'
    BY <1>0, <1>4, <2>1 DEF UnpackFails, GitTypeOK, GateKnows
  <2> QED BY <2>2, <2>3 DEF GitInv
<1>5. CASE Unpacked(r)
  <2>1. /\ mutex = r /\ cacheDir.of \in 1..current
        /\ \A q \in Request : q # r => cloning[q] # "unpacking" /\ cloning[q] # "serving"
    BY <1>0, <1>5 DEF Unpacked, GateKnows
  <2>2. cacheDir # NoDir
    BY <2>1, NoDirIsNone
  <2>3. GitTypeOK'
    BY <1>0, <1>5 DEF Unpacked, GitTypeOK
  <2>4. GateKnows'
    BY <1>0, <1>5, <2>1, <2>2 DEF Unpacked, GitTypeOK, GateKnows
  <2> QED BY <2>3, <2>4 DEF GitInv
<1>6. CASE Served(r)
  <2>1. GitTypeOK'
    BY <1>0, <1>6 DEF Served, GitTypeOK
  <2>2. GateKnows'
    BY <1>0, <1>6 DEF Served, GitTypeOK, GateKnows
  <2> QED BY <2>1, <2>2 DEF GitInv
<1> QED BY <1>1, <1>2, <1>3, <1>4, <1>5, <1>6 DEF Clones

LEMMA GitInvStep == GitInv /\ [GitNext]_gitVars => GitInv'
<1> SUFFICES ASSUME GitInv, [GitNext]_gitVars PROVE GitInv'
  OBVIOUS
<1>0. GitTypeOK /\ GateKnows
  BY DEF GitInv
<1>1. CASE Completed
  <2>1. current' = current + 1 /\ current' \in 0..Versions /\ 1..current \subseteq 1..current'
    BY <1>0, <1>1, VersionsAssumption DEF Completed, GitTypeOK
  <2>2. GitTypeOK'
    BY <1>0, <1>1, <2>1 DEF Completed, GitTypeOK
  <2>3. GateKnows'
    BY <1>0, <1>1, <2>1 DEF Completed, GateKnows
  <2> QED BY <2>2, <2>3 DEF GitInv
<1>2. CASE GitCrash
  <2>1. GitTypeOK'
    BY <1>0, <1>2 DEF GitCrash, GitTypeOK
  <2>2. mutex # Nobody => died'
    BY <1>2 DEF GitCrash
  <2>3. GateKnows'
    BY <1>0, <1>2, <2>2, NobodyAssumption DEF GitCrash, GateKnows
  <2> QED BY <2>1, <2>3 DEF GitInv
<1>3. CASE \E r \in Request : Clones(r)
  BY <1>3, CloneStep
<1>4. CASE UNCHANGED gitVars
  BY <1>0, <1>4 DEF gitVars, GitInv, GitTypeOK, GateKnows
<1> QED BY <1>1, <1>2, <1>3, <1>4 DEF GitNext, Clones

THEOREM GitInvariant == GitSpec => []GitInv
BY GitInvInit, GitInvStep, PTL DEF GitSpec

\* Every clone is served a repository that was once stored for the capture,
\* whole unless the process has died while it unpacked one (git.go:53-64, 92-98).
THEOREM ClonesWhole == GitSpec => []ClonesAreWhole
<1>1. GitInv => ClonesAreWhole
  BY DEF GitInv, GateKnows, ClonesAreWhole
<1> QED BY <1>1, GitInvariant, PTL

\* While git http-backend serves a request, nobody touches the directory: not an
\* unpack that fails and removes it, not a new artifact, not a restart.
ServedStaysPut ==
  [][\A r \in Request : cloning[r] = "serving" /\ cloning'[r] = "serving" => UNCHANGED cacheDir]_gitVars

THEOREM NothingMovesUnderAClone == GitSpec => ServedStaysPut
<1>1. ASSUME GitInv, [GitNext]_gitVars, NEW r \in Request,
             cloning[r] = "serving", cloning'[r] = "serving"
      PROVE  UNCHANGED cacheDir
  <2>1. mutex = Nobody /\ Exists
    BY <1>1 DEF GitInv, GateKnows, Exists
  <2>2. \A q \in Request : cloning[q] # "unpacking"
    BY <1>1, <2>1, NobodyAssumption DEF GitInv, GateKnows
  <2> QED
    BY <1>1, <2>1, <2>2
    DEF GitNext, gitVars, Completed, GitCrash, ReadRow, Gate, UnpackEntry, UnpackFails, Unpacked, Served
<1>2. GitInv /\ [GitNext]_gitVars =>
        [\A r \in Request : cloning[r] = "serving" /\ cloning'[r] = "serving" => UNCHANGED cacheDir]_gitVars
  BY <1>1
<1> QED BY <1>2, GitInvariant, PTL DEF GitSpec, ServedStaysPut

-----------------------------------------------------------------------------
(* ThumbnailPreview. A verdict has a cause, and only a failure takes it back. *)

\* A preview that is ready was made of a screenshot that decodes and was stored;
\* one that is unavailable is of a screenshot that does not, or something failed.
\* Both workers that make a preview know what they work on.
VerdictKnows ==
  /\ inline => decodable
  /\ preview = "ready" => decodable /\ image # "none"
  /\ preview = "unavailable" => ~decodable \/ faults > 0

\* A job that waits has an attempt left, a run under way has not been counted.
BoundsKnow ==
  /\ previewJob = "available" => tries < JobAttempts
  /\ itemStatus = "processing" => artifact < Runs

ThumbInv == ThumbTypeOK /\ VerdictKnows /\ BoundsKnow

\* The types of the flags and of the verdict and those of the rest: the SMT solver
\* does the numbers, Zenon the flags and the empty string.
ThumbFlags ==
  /\ decodable \in BOOLEAN /\ inline \in BOOLEAN /\ recent \in BOOLEAN
  /\ preview \in {"", "ready", "unavailable"}

ThumbValues ==
  /\ itemStatus \in {"processing", "completed"} /\ artifact \in 0..Runs
  /\ image \in {"none", "there", "gone"} /\ previewJob \in {"none", "available", "running", "finished"}
  /\ tries \in 0..JobAttempts /\ seen \in 0..artifact
  /\ shown \in {"nothing", "placeholder", "preview"} /\ faults \in 0..Transient

LEMMA ThumbTypesSplit == ThumbTypeOK <=> ThumbFlags /\ ThumbValues
BY Zenon DEF ThumbTypeOK, ThumbFlags, ThumbValues

LEMMA ThumbTypesNext == ThumbTypeOK' <=> ThumbFlags' /\ ThumbValues'
BY Zenon DEF ThumbTypeOK, ThumbFlags, ThumbValues

LEMMA ThumbInvInit == ThumbInit => ThumbInv
<1>1. SUFFICES ASSUME ThumbInit PROVE ThumbInv
  OBVIOUS
<1>2. ThumbFlags
  BY <1>1, Zenon DEF ThumbInit, ThumbFlags
<1>3. 0 \in 0..Runs /\ 0 \in 0..JobAttempts /\ 0 \in 0..Transient /\ 0 \in 0..0 /\ 0 < Runs
  BY RunsAssumption, JobAttemptsAssumption, TransientAssumption
<1>4. ThumbValues
  BY <1>1, <1>3, Zenon DEF ThumbInit, ThumbValues
<1>5. VerdictKnows /\ BoundsKnow
  BY <1>1, <1>3, Zenon DEF ThumbInit, VerdictKnows, BoundsKnow
<1>6. QED BY <1>2, <1>4, <1>5, ThumbTypesSplit DEF ThumbInv

\* What a step does to the job, and to what the verdict rests on.
LEMMA ThumbEffects ==
    ASSUME ThumbNext
    PROVE  /\ \/ UNCHANGED <<itemStatus, artifact>>
              \/ itemStatus = "processing" /\ itemStatus' = "completed" /\ artifact' = artifact + 1
              \/ itemStatus' = "processing" /\ artifact' = artifact /\ artifact < Runs
           /\ \/ UNCHANGED <<previewJob, tries>>
              \/ previewJob' = "available" /\ tries' = 0
              \/ previewJob = "available" /\ previewJob' = "running" /\ tries' = tries + 1
              \/ tries' = tries /\ previewJob' = "finished"
              \/ tries' = tries /\ previewJob' = "available" /\ tries < JobAttempts
           /\ seen' = seen \/ seen' = 0 \/ (seen' = artifact /\ artifact' = artifact)
           /\ faults' = faults \/ (faults' = faults + 1 /\ faults < Transient)
           /\ decodable' = decodable
           /\ \/ inline' = inline \/ inline' = FALSE \/ inline' = decodable
           /\ \/ UNCHANGED <<preview, image>>
              \/ preview' = "ready" /\ image' = "there" /\ (inline \/ decodable)
              \/ preview' = "unavailable" /\ image' = image /\ (~decodable \/ faults' = faults + 1)
              \/ preview' = preview /\ image = "there" /\ image' = "gone"
<1>1. CASE SaveScreenshot \/ StoreInline \/ RunAgain
  BY <1>1 DEF SaveScreenshot, StoreInline, RunAgain, Fault, queue
<1>2. CASE ViewThumbnail \/ WindowPasses \/ ObjectLost
  BY <1>2 DEF ViewThumbnail, ServePlaceholder, WindowPasses, ObjectLost, Fault, queue, item
<1>3. CASE StartPreview \/ ReadItemRow \/ OpenFails
  BY <1>3 DEF StartPreview, ReadItemRow, OpenFails, Finish, Retry, Fault, item
<1>4. CASE Undecodable \/ StorePreview \/ PreviewCrash
  BY <1>4 DEF Undecodable, StorePreview, PreviewCrash, Finish, Retry, Fault, item
<1>5. QED BY <1>1, <1>2, <1>3, <1>4 DEF ThumbNext, Generate

LEMMA ThumbInvStep == ThumbInv /\ [ThumbNext]_thumbVars => ThumbInv'
<1>1. SUFFICES ASSUME ThumbInv, [ThumbNext]_thumbVars PROVE ThumbInv'
  OBVIOUS
<1>2. ThumbFlags /\ ThumbValues /\ VerdictKnows /\ BoundsKnow
  BY <1>1, ThumbTypesSplit DEF ThumbInv
<1>3. CASE UNCHANGED thumbVars
  <2>0. UNCHANGED <<itemStatus, artifact, decodable, inline, preview, image, previewJob, tries, recent, seen, shown, faults>>
    BY <1>3 DEF thumbVars
  <2>1. ThumbFlags' /\ ThumbValues'
    <3>1. ThumbFlags'
      BY <1>2, <2>0 DEF ThumbFlags
    <3>2. ThumbValues'
      BY <1>2, <2>0 DEF ThumbValues
    <3>3. QED BY <3>1, <3>2
  <2>2. VerdictKnows' /\ BoundsKnow'
    BY <1>2, <1>3 DEF VerdictKnows, BoundsKnow, thumbVars
  <2>3. QED BY <2>1, <2>2, ThumbTypesNext DEF ThumbInv
<1>4. CASE ThumbNext
  <2>1. ThumbFlags'
    BY <1>2, <1>4, Zenon
    DEF ThumbFlags, ThumbNext, SaveScreenshot, StoreInline, RunAgain, ViewThumbnail, ServePlaceholder,
        WindowPasses, Generate, StartPreview, ReadItemRow, OpenFails, Undecodable, StorePreview, PreviewCrash,
        ObjectLost, Finish, Retry, item, queue
  <2>2. itemStatus' \in {"processing", "completed"} /\ artifact' \in 0..Runs /\ artifact <= artifact'
        /\ (itemStatus' = "processing" => artifact' < Runs)
    BY <1>2, <1>4, ThumbEffects, RunsAssumption DEF ThumbValues, BoundsKnow
  <2>3. previewJob' \in {"none", "available", "running", "finished"} /\ tries' \in 0..JobAttempts
        /\ (previewJob' = "available" => tries' < JobAttempts)
    BY <1>2, <1>4, ThumbEffects, JobAttemptsAssumption DEF ThumbValues, BoundsKnow
  <2>4. seen' \in 0..artifact'
    BY <1>2, <1>4, <2>2, ThumbEffects, RunsAssumption DEF ThumbValues
  <2>5. faults' \in 0..Transient /\ faults' >= faults /\ faults >= 0
    BY <1>2, <1>4, ThumbEffects, TransientAssumption DEF ThumbValues
  <2>6. image' \in {"none", "there", "gone"}
    BY <1>2, <1>4, ThumbEffects DEF ThumbValues
  <2>7. shown' \in {"nothing", "placeholder", "preview"}
    BY <1>2, <1>4
    DEF ThumbValues, ThumbNext, SaveScreenshot, StoreInline, RunAgain, ViewThumbnail, ServePlaceholder,
        WindowPasses, Generate, StartPreview, ReadItemRow, OpenFails, Undecodable, StorePreview, PreviewCrash,
        ObjectLost
  <2>8. (inline' => decodable') /\ (preview' = "ready" => decodable' /\ image' # "none")
    <3>1. inline' => decodable'
      BY <1>2, <1>4, ThumbEffects, Zenon DEF VerdictKnows
    <3>2. preview' = "ready" => decodable'
      BY <1>2, <1>4, ThumbEffects, Zenon DEF VerdictKnows
    <3>3. preview' = "ready" => image' # "none"
      BY <1>2, <1>4, ThumbEffects DEF VerdictKnows
    <3>4. QED BY <3>1, <3>2, <3>3
  <2>9. preview' = "unavailable" => ~decodable' \/ faults' > 0
    <3>1. faults \in Nat
      BY <1>2, TransientAssumption DEF ThumbValues
    <3>2. QED BY <1>2, <1>4, <2>5, <3>1, ThumbEffects DEF VerdictKnows
  <2>10. ThumbTypeOK'
    BY <2>1, <2>2, <2>3, <2>4, <2>5, <2>6, <2>7, Zenon DEF ThumbTypeOK, ThumbFlags
  <2>11. QED BY <2>2, <2>3, <2>8, <2>9, <2>10 DEF ThumbInv, VerdictKnows, BoundsKnow
<1>5. QED BY <1>1, <1>3, <1>4

\* The inductive invariant of the preview.
THEOREM ThumbInvariant == ThumbSpec => []ThumbInv
BY ThumbInvInit, ThumbInvStep, PTL DEF ThumbSpec

\* What is left of the comment on "unavailable" (models.go:111-113): a screenshot
\* that could be decoded is given up only after a failure.
UnavailableHasCause == preview = "unavailable" => ~decodable \/ faults > 0

THEOREM VerdictHasCause == ThumbSpec => []UnavailableHasCause
<1>1. ThumbInv => UnavailableHasCause
  BY DEF ThumbInv, VerdictKnows, UnavailableHasCause
<1> QED BY <1>1, ThumbInvariant, PTL

\* A preview that is ready stays ready: neither a job that started before the
\* archive worker stored its own nor a later run takes it back, unless something
\* fails in that very step (thumbnail_worker.go:53-58, 100-113).
ReadyStays == [][preview = "ready" /\ preview' # "ready" => faults' > faults]_thumbVars

THEOREM ReadyIsKept == ThumbSpec => ReadyStays
<1>1. ThumbInv /\ [ThumbNext]_thumbVars => (preview = "ready" /\ preview' # "ready" => faults' > faults)
  <2>1. SUFFICES ASSUME ThumbInv, [ThumbNext]_thumbVars, preview = "ready", preview' # "ready"
                 PROVE  faults' > faults
    OBVIOUS
  <2>2. faults \in Nat /\ decodable
    BY <2>1, TransientAssumption, ThumbTypesSplit DEF ThumbInv, ThumbValues, VerdictKnows
  <2>3. ThumbNext
    BY <2>1 DEF thumbVars
  <2>4. preview' = "unavailable" /\ (~decodable \/ faults' = faults + 1)
    BY <2>1, <2>3, ThumbEffects
  <2>5. QED BY <2>2, <2>4
<1>2. QED BY <1>1, ThumbInvariant, PTL DEF ThumbSpec, ReadyStays
=============================================================================
