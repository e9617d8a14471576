---------------------------- MODULE LogMigration ----------------------------
(* The move of archive logs from the logs column to archive_item_logs       *)
(* (internal/utils/archive_item_logs_migration.go), run by every instance   *)
(* at start while other instances serve, work and start themselves, and the *)
(* merged view the handlers show (ArchiveItemLogString).                    *)
EXTENDS Naturals, Sequences, SequencesExt

CONSTANTS Starter,    \* instances that start
          Items,      \* number of items with a legacy log
          NewLine,    \* lines a later attempt may write
          Starts,     \* bound on restarts
          Appends     \* bound on lines a later attempt writes to one item

ASSUME ItemsAssumption == Items \in Nat
ASSUME StarterAssumption == Starter \cap {"committed", "nobody", "reader", "writer"} = {}
ASSUME BoundsAssumption == Starts \in Nat /\ Appends \in Nat

Row == 1..Items
Legacy == <<"first", "second">>     \* the log an older version left behind

VARIABLES column,     \* item -> archive_items.logs
          stored,     \* item -> rows of archive_item_logs by id: line and writer
          fresh,      \* item -> lines later attempts have written
          moves,      \* item -> commits that inserted the legacy log
          late,       \* item -> a move was verified while a line was still being committed
          mig,        \* instance -> where its backfill is
          at,         \* instance -> the item its transaction is about, and the column it read
          starts,     \* starts so far
          view        \* a request for one item's log

migVars == <<column, stored, fresh, moves, late, mig, at, starts, view>>

NoView == [item |-> 0, legacy |-> <<>>, logs |-> <<>>, shown |-> FALSE]

MigInit ==
  /\ column = [i \in Row |-> Legacy] /\ stored = [i \in Row |-> <<>>] /\ fresh = [i \in Row |-> <<>>]
  /\ moves = [i \in Row |-> 0] /\ late = [i \in Row |-> FALSE]
  /\ mig = [s \in Starter |-> "down"] /\ at = [s \in Starter |-> [item |-> 0, log |-> <<>>]]
  /\ starts = 0 /\ view = NoView

\* Rows are ordered by id. Those of a transaction that was rolled back are dead:
\* they keep their ids, and nobody reads them.
Shown(rows, who) ==
  LET seen[n \in 0..Len(rows)] ==
        IF n = 0 THEN <<>> ELSE IF rows[n].by \in who THEN Append(seen[n - 1], rows[n].line) ELSE seen[n - 1]
  IN seen[Len(rows)]

\* A transaction sees what is committed and its own.
Lines(i, who) == Shown(stored[i], {"committed", who})

Ended(i, who, outcome) ==
  [k \in DOMAIN stored[i] |-> [stored[i][k] EXCEPT !.by = IF @ = who THEN outcome ELSE @]]
Committed(i, who) == Ended(i, who, "committed")
RolledBack(i, who) == Ended(i, who, "nobody")

mergeLegacyAndChunkLogs(legacy, logs) ==
  IF logs = <<>> \/ (legacy # logs /\ IsPrefix(logs, legacy)) THEN legacy
  ELSE IF IsPrefix(legacy, logs) THEN logs
  ELSE legacy \o logs

---------------------------------------------------------------------------
(* BackfillLegacyArchiveItemLogs *)

Start(s) ==
  /\ mig[s] = "down" /\ starts < Starts
  /\ starts' = starts + 1 /\ mig' = [mig EXCEPT ![s] = "selecting"]
  /\ UNCHANGED <<column, stored, fresh, moves, late, at, view>>

\* The items of a batch come without an order; the column may change before
\* the item's transaction begins.
Select(s) ==
  /\ mig[s] = "selecting"
  /\ \/ /\ \E i \in Row : column[i] # <<>> /\ at' = [at EXCEPT ![s] = [item |-> i, log |-> column[i]]]
        /\ mig' = [mig EXCEPT ![s] = "counting"]
     \/ /\ \A i \in Row : column[i] = <<>>
        /\ mig' = [mig EXCEPT ![s] = "up"] /\ UNCHANGED at
  /\ UNCHANGED <<column, stored, fresh, moves, late, starts, view>>

\* Rows that are there already must be the log itself.
CountRows(s) ==
  LET there == Lines(at[s].item, s)
  IN /\ mig[s] = "counting"
     /\ there = <<>> \/ there = at[s].log
     /\ mig' = [mig EXCEPT ![s] = IF there = <<>> THEN "inserting" ELSE "verifying"]
     /\ UNCHANGED <<column, stored, fresh, moves, late, at, starts, view>>

\* One insert per chunk and no lock: the ids of two instances interleave.
InsertRow(s) ==
  LET i == at[s].item
      done == Len(Shown(stored[i], {s}))
  IN /\ mig[s] = "inserting"
     /\ stored' = [stored EXCEPT ![i] = Append(@, [line |-> at[s].log[done + 1], by |-> s])]
     /\ mig' = [mig EXCEPT ![s] = IF done + 1 = Len(at[s].log) THEN "verifying" ELSE @]
     /\ UNCHANGED <<column, fresh, moves, late, at, starts, view>>

\* A line whose insert has taken its id and is not committed yet.
InFlight(i) == \E k \in DOMAIN stored[i] : stored[i][k].by = "writer"

VerifyRows_counted(s) ==   \* mutant: does not compare the rows with the log
  /\ mig[s] = "verifying"
  /\ late' = [late EXCEPT ![at[s].item] = @ \/ InFlight(at[s].item)]
  /\ mig' = [mig EXCEPT ![s] = "clearing"]
  /\ UNCHANGED <<column, stored, fresh, moves, at, starts, view>>

VerifyRows(s) ==
  /\ mig[s] = "verifying" /\ Lines(at[s].item, s) = at[s].log
  /\ late' = [late EXCEPT ![at[s].item] = @ \/ InFlight(at[s].item)]
  /\ mig' = [mig EXCEPT ![s] = "clearing"]
  /\ UNCHANGED <<column, stored, fresh, moves, at, starts, view>>

\* The update and the commit. The item's row is locked by the first of two
\* transactions; the second clears a column that is empty by then.
ClearAndCommit(s) ==
  /\ mig[s] = "clearing"
  /\ LET i == at[s].item IN
       /\ column' = [column EXCEPT ![i] = <<>>]
       /\ stored' = [stored EXCEPT ![i] = Committed(i, s)]
       /\ moves' = [moves EXCEPT ![i] = @ + (IF stored'[i] = stored[i] THEN 0 ELSE 1)]
  /\ mig' = [mig EXCEPT ![s] = "selecting"]
  /\ UNCHANGED <<fresh, late, at, starts, view>>

\* A row that does not match, a failing statement: the transaction is rolled
\* back, the backfill is over and the instance starts without it.
BackfillFails(s) ==
  /\ mig[s] \in {"selecting", "counting", "inserting", "verifying", "clearing"}
  /\ stored' = IF mig[s] = "selecting" THEN stored ELSE [stored EXCEPT ![at[s].item] = RolledBack(at[s].item, s)]
  /\ mig' = [mig EXCEPT ![s] = "up"]
  /\ UNCHANGED <<column, fresh, moves, late, at, starts, view>>

\* A stop at any point; the database rolls the open transaction back.
Stop(s) ==
  /\ mig[s] # "down"
  /\ stored' = [i \in Row |-> RolledBack(i, s)]
  /\ mig' = [mig EXCEPT ![s] = "down"]
  /\ UNCHANGED <<column, fresh, moves, late, at, starts, view>>

---------------------------------------------------------------------------
(* Workers and handlers *)

\* A later attempt or the error handler of a running instance adds a line: a
\* statement of its own, which takes the row's id ...
AppendLine(i, line) ==
  /\ ~InFlight(i) /\ Len(fresh[i]) < Appends
  /\ stored' = [stored EXCEPT ![i] = Append(@, [line |-> line, by |-> "writer"])]
  /\ fresh' = [fresh EXCEPT ![i] = Append(@, line)]
  /\ UNCHANGED <<column, moves, late, mig, at, starts, view>>

\* ... before anybody else sees it.
CommitLine(i) ==
  /\ InFlight(i)
  /\ stored' = [stored EXCEPT ![i] = Committed(i, "writer")]
  /\ UNCHANGED <<column, fresh, moves, late, mig, at, starts, view>>

\* GetItemLog, GetLogs and the display pages read the item first, ...
ReadItem(i) ==
  /\ view.item = 0
  /\ view' = [NoView EXCEPT !.item = i, !.legacy = column[i]]
  /\ UNCHANGED <<column, stored, fresh, moves, late, mig, at, starts>>

\* ... then its rows, and merge the two.
ReadRows ==
  /\ view.item # 0 /\ ~view.shown
  /\ view' = [view EXCEPT !.logs = mergeLegacyAndChunkLogs(view.legacy, Lines(view.item, "reader")), !.shown = TRUE]
  /\ UNCHANGED <<column, stored, fresh, moves, late, mig, at, starts>>

Respond == view.shown /\ view' = NoView /\ UNCHANGED <<column, stored, fresh, moves, late, mig, at, starts>>

MigNext ==
  \/ \E s \in Starter : Start(s) \/ Select(s) \/ CountRows(s) \/ InsertRow(s) \/ VerifyRows(s)
                          \/ ClearAndCommit(s) \/ BackfillFails(s) \/ Stop(s)
  \/ \E i \in Row : ReadItem(i) \/ CommitLine(i) \/ \E line \in NewLine : AppendLine(i, line)
  \/ ReadRows \/ Respond

MigSpec == MigInit /\ [][MigNext]_migVars

---------------------------------------------------------------------------

\* Every line of a log is among others, in its order.
Within(log, lines) ==
  \E where \in [DOMAIN log -> DOMAIN lines] :
    /\ \A j, k \in DOMAIN log : j < k => where[j] < where[k]
    /\ \A k \in DOMAIN log : lines[where[k]] = log[k]

\* The column is emptied only when the rows hold every line of the old log in
\* its order, wherever an instance stopped or failed and whoever moves or
\* writes meanwhile (archive_item_logs_migration.go:57-108).
ClearedIsMoved == \A i \in Row : column[i] = <<>> => Within(Legacy, Lines(i, "reader"))

\* A later attempt repeats the beginning of the old log, or all of it: the
\* merge then takes its rows for a moved log and shows less than was written.
Echoed(i) == fresh[i] # <<>> /\ (IsPrefix(fresh[i], Legacy) \/ IsPrefix(Legacy, fresh[i]))

\* A reader is shown the old log once and every later line after it, whether
\* the log moves between its two statements or not (db_log_writer.go:230-243).
\* Two instances that move one item at the same moment store its log twice,
\* their rows mixed; a line that has its id before a move and is committed
\* after the move was verified is shown before the old log.
ViewIsHistory ==
  view.shown /\ ~Echoed(view.item) /\ moves[view.item] <= 1 /\ ~late[view.item]
    => \E n \in 0..Len(fresh[view.item]) : view.logs = Legacy \o SubSeq(fresh[view.item], 1, n)

\* Even then no line of the old log is missing from what a reader is shown, nor
\* out of its order.
OldLogShown == view.shown => Within(Legacy, view.logs)

\* An item's log survives its move, in the tables and to its readers.
HistoryIsKept == ClearedIsMoved /\ ViewIsHistory /\ OldLogShown
=============================================================================
