----------------------------- MODULE LogWriter -----------------------------
(* DBLogWriter of internal/utils/db_log_writer.go: the output of one job is *)
(* cut into chunks of at most Limit bytes, at line ends and between runes,  *)
(* and inserted as rows; a chunk leaves the buffer when its insert returned.*)
EXTENDS Naturals, Sequences, SequencesExt

CONSTANTS Limit,    \* MaxArchiveLogChunkBytes
          Output,   \* what one Write may carry: sequences of bytes
          Written   \* bound on the bytes of a job

ASSUME LimitAssumption == Limit \in Nat /\ Limit >= 3   \* the widest rune fits
ASSUME WrittenAssumption == Written \in Nat

\* Bytes are ASCII, a newline, or the two halves of a rune; "bad" is U+FFFD.
Byte == {"x", "nl", "lead", "cont"}
Rune == {"x", "nl", "rune", "bad"}
Width(r) == IF r = "bad" THEN 3 ELSE IF r = "rune" THEN 2 ELSE 1

ASSUME OutputAssumption == Output \subseteq Seq(Byte)

VARIABLES said,      \* every byte written
          buffer,    \* the bytes not inserted yet
          chunks,    \* the rows of the item, in insertion order
          logPc,     \* "idle", "writing", "flushing", "done"
          stuck,     \* the last insert failed
          unsure     \* an insert was committed but reported as failed

logVars == <<said, buffer, chunks, logPc, stuck, unsure>>

---------------------------------------------------------------------------
(* strings.ToValidUTF8: a run of invalid bytes becomes one U+FFFD *)

Emit(d, r) == [text |-> IF r = "bad" /\ d.bad THEN d.text ELSE Append(d.text, r), half |-> FALSE, bad |-> r = "bad"]
Begin(d, b) ==
  IF b = "lead" THEN [text |-> d.text, half |-> TRUE, bad |-> d.bad] ELSE Emit(d, IF b = "cont" THEN "bad" ELSE b)
Decode(d, b) ==
  IF ~d.half THEN Begin(d, b) ELSE IF b = "cont" THEN Emit(d, "rune") ELSE Begin(Emit(d, "bad"), b)

NoText == [text |-> <<>>, half |-> FALSE, bad |-> FALSE]
Decoded(bytes) ==
  LET d[n \in 0..Len(bytes)] == IF n = 0 THEN NoText ELSE Decode(d[n - 1], bytes[n]) IN d[Len(bytes)]

Text(bytes) == LET d == Decoded(bytes) IN IF d.half THEN Emit(d, "bad").text ELSE d.text
ValidUTF8(bytes) == ~Contains(Text(bytes), "bad")

Weight(chunk) ==
  LET w[n \in 0..Len(chunk)] == IF n = 0 THEN 0 ELSE w[n - 1] + Width(chunk[n]) IN w[Len(chunk)]

\* SplitArchiveLogChunks: whole runes, packed greedily.
Pack(packed, r) ==
  IF packed = <<>> \/ Weight(Last(packed)) + Width(r) > Limit
  THEN Append(packed, <<r>>)
  ELSE Append(Front(packed), Append(Last(packed), r))
SplitArchiveLogChunks(text) ==
  LET packed[n \in 0..Len(text)] == IF n = 0 THEN <<>> ELSE Pack(packed[n - 1], text[n]) IN packed[Len(text)]

---------------------------------------------------------------------------
(* nextFlushLenLocked *)

Shorter(m, n) == IF m < n THEN m ELSE n

validUTF8PrefixLen(b, maxLen, force) ==
  LET whole == {n \in 1..maxLen : ValidUTF8(SubSeq(b, 1, n))}
  IN IF whole # {} THEN CHOOSE n \in whole : \A m \in whole : m <= n
     ELSE IF force \/ Len(b) >= Limit THEN maxLen ELSE 0

nextFlushLen(b, force) ==
  LET newline == SelectInSeq(b, LAMBDA c : c = "nl")
  IN IF newline \in 1..Limit THEN newline
     ELSE IF b = <<>> \/ (Len(b) < Limit /\ ~force) THEN 0
     ELSE validUTF8PrefixLen(b, Shorter(Len(b), Limit), force)

Due == nextFlushLen(buffer, logPc = "flushing")

---------------------------------------------------------------------------

LogInit ==
  /\ said = <<>> /\ buffer = <<>> /\ chunks = <<>>
  /\ logPc = "idle" /\ stuck = FALSE /\ unsure = FALSE

WriteLog(p) ==
  /\ logPc = "idle" /\ Len(said) + Len(p) <= Written
  /\ said' = said \o p /\ buffer' = buffer \o p
  /\ logPc' = "writing" /\ stuck' = FALSE
  /\ UNCHANGED <<chunks, unsure>>

\* processArchiveJob flushes once, when the attempt is over.
FlushLog ==
  /\ logPc = "idle"
  /\ logPc' = "flushing" /\ stuck' = FALSE
  /\ UNCHANGED <<said, buffer, chunks, unsure>>

\* One insert, or a transaction of several when replacement characters made
\* the prefix too long for one row.
InsertPrefix ==
  /\ logPc \in {"writing", "flushing"} /\ Due > 0
  /\ chunks' = chunks \o SplitArchiveLogChunks(Text(SubSeq(buffer, 1, Due)))
  /\ buffer' = SubSeq(buffer, Due + 1, Len(buffer))
  /\ UNCHANGED <<said, logPc, stuck, unsure>>

InsertFails_drops ==   \* mutant: trims the buffer although the insert failed
  /\ logPc \in {"writing", "flushing"} /\ Due > 0
  /\ \/ UNCHANGED <<chunks, unsure>>
     \/ /\ chunks' = chunks \o SplitArchiveLogChunks(Text(SubSeq(buffer, 1, Due)))
        /\ unsure' = TRUE
  /\ logPc' = IF logPc = "writing" THEN "idle" ELSE "done"
  /\ stuck' = TRUE
  /\ buffer' = SubSeq(buffer, Due + 1, Len(buffer))
  /\ UNCHANGED said

\* The first error ends the loop and keeps the prefix for the next call; the
\* rows may be there although the acknowledgement was lost.
InsertFails ==
  /\ logPc \in {"writing", "flushing"} /\ Due > 0
  /\ \/ UNCHANGED <<chunks, unsure>>
     \/ /\ chunks' = chunks \o SplitArchiveLogChunks(Text(SubSeq(buffer, 1, Due)))
        /\ unsure' = TRUE
  /\ logPc' = IF logPc = "writing" THEN "idle" ELSE "done"
  /\ stuck' = TRUE
  /\ UNCHANGED <<said, buffer>>

LoopEnds ==
  /\ logPc \in {"writing", "flushing"} /\ Due = 0
  /\ logPc' = IF logPc = "writing" THEN "idle" ELSE "done"
  /\ UNCHANGED <<said, buffer, chunks, stuck, unsure>>

LogNext == (\E p \in Output : WriteLog(p)) \/ FlushLog \/ InsertPrefix \/ InsertFails \/ LoopEnds

LogSpec == LogInit /\ [][LogNext]_logVars

---------------------------------------------------------------------------

\* Types of the writer's state.
LogTypeOK ==
  /\ said \in Seq(Byte) /\ Len(said) <= Written /\ buffer \in Seq(Byte)
  /\ \A k \in DOMAIN chunks : chunks[k] \in Seq(Rune) \ {<<>>}
  /\ logPc \in {"idle", "writing", "flushing", "done"} /\ stuck \in BOOLEAN /\ unsure \in BOOLEAN

\* However the output was split into writes, and whatever inserts failed and
\* were repeated, the rows followed by the buffer are the output: no byte is
\* lost, doubled or torn from its rune (db_log_writer.go:40-60, 108-112). Only
\* an insert whose acknowledgement was lost may repeat its chunk.
LogIsExact ==
  ~unsure =>
    \E n \in 0..Len(said) :
      /\ buffer = SubSeq(said, n + 1, Len(said))
      /\ ValidUTF8(SubSeq(said, 1, n)) => FlattenSeq(chunks) = Text(SubSeq(said, 1, n))

\* No row exceeds the check constraint of archive_item_logs, even when one
\* invalid byte grows into three (archive_item_logs_migration.go:26-28).
ChunksFit == \A k \in DOMAIN chunks : Weight(chunks[k]) <= Limit

\* A line is in the table as soon as it is complete, an endless line a chunk
\* at a time, and the last flush leaves nothing, unless an insert failed.
LogIsLive ==
  /\ logPc = "idle" /\ ~stuck => Len(buffer) < Limit /\ ~Contains(buffer, "nl")
  /\ logPc = "done" /\ ~stuck => buffer = <<>>

\* The table holds the job's output: exact, in rows that fit, without delay.
LogIsKept == LogIsExact /\ ChunksFit /\ LogIsLive
=============================================================================
