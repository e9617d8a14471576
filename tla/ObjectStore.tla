---------------------------- MODULE ObjectStore ----------------------------
(* internal/storage behind writeArchiveData and the readers: one artifact    *)
(* written under a key of its own, in the S3, the file-system or the memory  *)
(* store, and a seekable reader over it once a row refers to it.             *)
EXTENDS Naturals

CONSTANTS Length,       \* length of the artifact
          Failures    \* bound on answers of the object store that fail

ASSUME LengthAssumption == Length \in Nat \ {0}
ASSUME FailuresAssumption == Failures \in Nat

VARIABLES backend,    \* "s3", "fs" or "memory"
          writer,     \* "none", "open", "closing", "closed"
          spool,      \* the temporary file of an s3Writer exists
          spoiled,    \* a write into it failed, which closed and removed it
          taken,      \* bytes the writer accepted
          copyErr,    \* reading or writing failed
          object,     \* bytes under the key, 0 for an empty file, Absent
          saved,      \* writeArchiveData returned without an error
          body,       \* the reader's open response: the position it is at, or Absent
          broken,     \* that response has failed
          pos,        \* s3SeekableReader.pos
          sizeSet,    \* the size is known
          failures

storeVars == <<backend, writer, spool, spoiled, taken, copyErr, object, saved, body, broken, pos, sizeSet, failures>>
writing == <<writer, spool, spoiled, taken, copyErr, object, saved>>
reading == <<body, broken, pos, sizeSet>>

Absent == Length + 1

StoreInit ==
  /\ backend \in {"s3", "fs", "memory"}
  /\ writer = "none" /\ spool = FALSE /\ spoiled = FALSE /\ taken = 0 /\ copyErr = FALSE
  /\ object = Absent /\ saved = FALSE
  /\ body = Absent /\ broken = FALSE /\ pos = 0 /\ sizeSet = FALSE /\ failures = 0

---------------------------------------------------------------------------
(* writeArchiveData: Writer, io.Copy, Close. A key carries a nonce, so no     *)
(* other writer ever uses it. *)

OpenObject ==
  /\ writer = "none"
  /\ writer' = "open"
  /\ spool' = (backend = "s3")
  /\ object' = IF backend = "fs" THEN 0 ELSE object
  /\ UNCHANGED <<backend, spoiled, taken, copyErr, saved, reading, failures>>

WriteByte ==
  /\ writer = "open" /\ taken < Length
  /\ taken' = taken + 1
  /\ object' = IF backend = "fs" THEN taken' ELSE object
  /\ UNCHANGED <<backend, writer, spool, spoiled, copyErr, saved, reading, failures>>

\* A full disk: the S3 writer closes and removes its file at once.
WriteFails ==
  /\ writer = "open" /\ backend # "memory"
  /\ spoiled' = (backend = "s3") /\ spool' = FALSE
  /\ copyErr' = TRUE /\ writer' = "closing"
  /\ UNCHANGED <<backend, taken, object, saved, reading, failures>>

\* The archiver's stream ends, with its last byte or with an error of the
\* stream or of closing it. The writer is closed in either case.
StreamEnds ==
  /\ writer = "open"
  /\ \/ taken = Length /\ UNCHANGED copyErr
     \/ copyErr' = TRUE
  /\ writer' = "closing"
  /\ UNCHANGED <<backend, spool, spoiled, taken, object, saved, reading, failures>>

\* Closing a spoiled temporary file fails before anything is uploaded; without
\* that, what was accepted is uploaded even when the copy failed.
Published == IF backend = "s3" /\ spoiled THEN object ELSE taken

CloseObject_ignoresCopy ==   \* mutant: the error of the copy is lost
  /\ writer = "closing"
  /\ writer' = "closed" /\ spool' = FALSE
  /\ \/ object' = Published /\ saved' = TRUE
     \/ /\ backend # "memory" /\ saved' = FALSE   \* the upload or the close fails
        /\ object' \in {object, Published}
  /\ UNCHANGED <<backend, spoiled, taken, copyErr, reading, failures>>

CloseObject ==
  /\ writer = "closing"
  /\ writer' = "closed" /\ spool' = FALSE
  /\ \/ object' = Published /\ saved' = ~copyErr
     \/ /\ backend # "memory" /\ saved' = FALSE   \* the upload or the close fails
        /\ object' \in {object, Published}
  /\ UNCHANGED <<backend, spoiled, taken, copyErr, reading, failures>>

\* The process dies; what it spooled stays in the temporary directory.
StoreCrash ==
  /\ writer \in {"open", "closing"}
  /\ writer' = "none" /\ taken' = 0 /\ copyErr' = FALSE /\ spoiled' = FALSE
  /\ spool' = FALSE /\ object' = Absent   \* the next attempt has a key and a file of its own
  /\ UNCHANGED <<backend, saved, reading, failures>>

---------------------------------------------------------------------------
(* s3SeekableReader over a saved artifact *)

Reads == saved /\ backend = "s3"

\* Read opens a response at pos when there is none, and gives the byte the
\* response is at; the end of a response is not a byte.
ReadByte ==
  /\ Reads /\ ~(body # Absent /\ broken)
  /\ LET from == IF body = Absent THEN pos ELSE body IN
       /\ from < Length
       /\ body' = from + 1 /\ pos' = pos + 1
  /\ UNCHANGED <<backend, writing, broken, sizeSet, failures>>

\* A request fails, or the response breaks off and stays broken.
ReadFails ==
  /\ Reads /\ failures < Failures
  /\ failures' = failures + 1
  /\ IF body = Absent THEN UNCHANGED broken ELSE broken' = TRUE
  /\ UNCHANGED <<backend, writing, body, pos, sizeSet>>

Clamp(p) == IF p > Length THEN Length ELSE p

SeekTo_keepsBody(p) ==   \* mutant: keeps the open response wherever it is
  /\ Reads
  /\ IF body # Absent
     THEN pos' = Clamp(p) /\ UNCHANGED <<body, broken, sizeSet, failures>>
     ELSE /\ body' = Absent /\ broken' = FALSE
          /\ \/ sizeSet' = TRUE /\ pos' = Clamp(p) /\ UNCHANGED failures
             \/ ~sizeSet /\ failures < Failures /\ failures' = failures + 1 /\ UNCHANGED <<pos, sizeSet>>
  /\ UNCHANGED <<backend, writing>>

\* Seeking to where the open response is keeps it; any other seek drops it,
\* asks for the size once and clamps the position. (The size is asked for under
\* the right key as long as a configured prefix ends in a slash.)
SeekTo(p) ==
  /\ Reads
  /\ IF body # Absent /\ p = pos
     THEN UNCHANGED <<reading, failures>>
     ELSE /\ body' = Absent /\ broken' = FALSE
          /\ \/ sizeSet' = TRUE /\ pos' = Clamp(p) /\ UNCHANGED failures
             \/ ~sizeSet /\ failures < Failures /\ failures' = failures + 1 /\ UNCHANGED <<pos, sizeSet>>
  /\ UNCHANGED <<backend, writing>>

StoreNext ==
  \/ OpenObject \/ WriteByte \/ WriteFails \/ StreamEnds \/ CloseObject \/ StoreCrash
  \/ ReadByte \/ ReadFails \/ \E p \in 0..Length + 1 : SeekTo(p)

StoreSpec == StoreInit /\ [][StoreNext]_storeVars

---------------------------------------------------------------------------

\* Types of the store's state.
StoreTypeOK ==
  /\ backend \in {"s3", "fs", "memory"} /\ writer \in {"none", "open", "closing", "closed"}
  /\ spool \in BOOLEAN /\ spoiled \in BOOLEAN /\ copyErr \in BOOLEAN /\ saved \in BOOLEAN
  /\ taken \in 0..Length /\ object \in 0..Absent /\ body \in 0..Absent /\ broken \in BOOLEAN
  /\ pos \in 0..Length /\ sizeSet \in BOOLEAN /\ failures \in 0..Failures

\* An artifact the worker takes for stored is there in full, whichever store
\* it went to and whichever step of copying, closing or uploading failed; and
\* once the writer is closed or has failed a write, its temporary file is gone
\* (s3.go:296-368, archive_worker.go:420-433).
SavedIsWhole ==
  /\ saved => object = Length
  /\ writer = "closed" \/ spoiled => ~spool

\* Reading, seeking and failing in any order, the open response is always at
\* the reader's position, so that a seek that keeps it does not shift what is
\* read (s3.go:392-402).
ReadsWhereItIs == (body # Absent => body = pos) /\ (pos <= Length)
=============================================================================
