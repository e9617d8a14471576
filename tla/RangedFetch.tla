---------------------------- MODULE RangedFetch ----------------------------
(* fetchURLThroughPage of internal/brightdata/browser_fetch.go: a file is  *)
(* pulled through a remote page in ranged chunks whose end the loop has to *)
(* recognise, because the CDN does not always disclose the length.         *)
EXTENDS Naturals

CONSTANTS Chunk,      \* mediaChunkBytes, in the unit sizes are counted in
          FileSize,   \* the sizes a media file may have
          MaxTries    \* requests made for one chunk: 3

ASSUME ChunkAssumption == Chunk \in Nat \ {0}
ASSUME SizeAssumption == FileSize \subseteq Nat
ASSUME TriesAssumption == MaxTries \in Nat \ {0}

VARIABLES size,        \* length of the file behind the URL
          total,       \* what the loop believes the length to be, 0 when unknown
          offset,      \* bytes written to the temporary file
          try,         \* failed requests for the current chunk
          temp,        \* the temporary file exists
          fetchPc,     \* "fetching", "stored" or "failed"
          lapses       \* what the server did that the loop cannot tell from the end of the file

fetchVars == <<size, total, offset, try, temp, fetchPc, lapses>>

\* "short": fewer bytes than asked for, or none, ahead of the end of the file.
\* "restart": a 200, and so the file from its beginning, when bytes were there already.
Lapse == {"short", "restart"}

\* totalHint, for YouTube only, is what another service says the length is.
FetchInit ==
  /\ size \in FileSize
  /\ total \in {0} \cup FileSize
  /\ offset = 0 /\ try = 0
  /\ temp = TRUE /\ fetchPc = "fetching" /\ lapses = {}

Requested == IF total > 0 /\ total - offset < Chunk THEN total - offset ELSE Chunk

\* The lengths a 206 may have: a server need not send all that was asked for.
Sendable == {n \in 0..Requested : offset + n <= size}

GiveUp ==
  /\ fetchPc' = "failed" /\ temp' = FALSE
  /\ UNCHANGED <<size, total, offset, try, lapses>>

\* The checks after the loop: nothing fetched, or less than the known length.
Verdict(bytes, length) ==
  IF bytes = 0 \/ (length > 0 /\ bytes < length) THEN "failed" ELSE "stored"

LastChunk_full(n, bytes, length) ==   \* mutant: a chunk as long as requested ends the loop
  n <= Requested \/ (length > 0 /\ bytes >= length)

\* A short chunk or the known length ends the loop.
LastChunk(n, bytes, length) == n < Requested \/ (length > 0 /\ bytes >= length)

\* A 206. Its Content-Range is readable in the page or not, from one response
\* to the next.
ChunkArrives ==
  /\ fetchPc = "fetching"
  /\ \E n \in Sendable :
       /\ offset' = offset + n
       /\ total' \in {total, IF total = 0 THEN size ELSE total}
       /\ fetchPc' = IF LastChunk(n, offset', total') THEN Verdict(offset', total') ELSE "fetching"
       /\ lapses' = lapses \cup (IF n < Requested /\ offset' < size THEN {"short"} ELSE {})
  /\ try' = 0 /\ temp' = (fetchPc' # "failed")
  /\ UNCHANGED size

\* A 200: the server ignores Range, for this request at least, and sends all.
FileArrives ==
  /\ fetchPc = "fetching"
  /\ offset' = offset + size
  /\ fetchPc' = Verdict(offset', total) /\ temp' = (fetchPc' # "failed")
  /\ lapses' = lapses \cup (IF offset > 0 THEN {"restart"} ELSE {})
  /\ try' = 0
  /\ UNCHANGED <<size, total>>

\* 416 after bytes have flowed is the end of a file of unknown length.
RangeEnds ==
  /\ fetchPc = "fetching" /\ offset >= size
  /\ \/ /\ offset > 0
        /\ fetchPc' = Verdict(offset, total) /\ temp' = (fetchPc' # "failed")
        /\ UNCHANGED <<size, total, offset, try, lapses>>
     \/ /\ offset = 0
        /\ GiveUp

\* A transient failure is retried; the third fails the fetch.
ChunkFails ==
  /\ fetchPc = "fetching"
  /\ \/ /\ try + 1 < MaxTries
        /\ try' = try + 1
        /\ UNCHANGED <<size, total, offset, temp, fetchPc, lapses>>
     \/ /\ try + 1 >= MaxTries
        /\ GiveUp

\* A refusal (401, 403, 404, 410), a failed write or an expired context.
FetchAborts == fetchPc = "fetching" /\ GiveUp

FetchNext == ChunkArrives \/ FileArrives \/ RangeEnds \/ ChunkFails \/ FetchAborts

FetchSpec == FetchInit /\ [][FetchNext]_fetchVars

---------------------------------------------------------------------------

\* Types of the loop's state.
FetchTypeOK ==
  /\ size \in FileSize /\ total \in {0} \cup FileSize /\ offset \in Nat
  /\ try \in 0..MaxTries - 1
  /\ temp \in BOOLEAN /\ fetchPc \in {"fetching", "stored", "failed"} /\ lapses \subseteq Lapse

\* The loop has the right length, or has none and met no short answer. A length
\* that was hinted wrong is believed.
Informed == total = size \/ (total = 0 /\ "short" \notin lapses)

\* A fetch that fails leaves no file, and one that succeeds has some bytes and
\* as many as the loop knows of: a short answer is noticed wherever the length
\* is known, at any chunk. Where it is not, it is taken for the end of the file
\* and the beginning is stored as the file. A 200 is right only as the first
\* answer: nothing notices one that comes later (browser_fetch.go:376-438).
StoredIsWhole ==
  /\ fetchPc = "failed" => ~temp
  /\ fetchPc = "stored" => temp /\ offset > 0 /\ offset >= total
  /\ fetchPc = "stored" /\ "restart" \notin lapses /\ Informed => offset = size

\* The loop never asks for an empty or backwards range and never runs past
\* the end of the file.
AsksForward == fetchPc = "fetching" => Requested > 0 /\ offset <= size
=============================================================================
