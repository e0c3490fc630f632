------------------------------- MODULE Backfill -------------------------------
(***************************************************************************)
(* GreeksBackfillProcessor (greeks_service/batch/backfill.py): a batch job *)
(* that handles every archived mark update of an asset_group and a date    *)
(* again and writes it to the PricingLedger through the live handler.      *)
(*                                                                         *)
(* The job keeps nothing: one that ends is run again from the start.  The  *)
(* order of shards is the listing's and that of rows the file's; any order *)
(* is allowed here.                                                        *)
(***************************************************************************)
EXTENDS PricingLedger, FiniteSets

CONSTANTS
  Shards,         \* parquet files under the date's prefix
  RowsOf,         \* the archived updates in each shard
  Malformed,      \* rows _row_to_message returns None for
  BatchGroupOf,   \* the asset_group each row names
  BatchEventIds,  \* the event ids handling a row may give
  MaxRuns,        \* bound: times the job is started
  MaxBatchFaults  \* bound: crashes and failed storage calls

VARIABLES
  stage,          \* where process_date is
  shardsLeft,     \* shards the listing has yet to yield
  rowsLeft,       \* rows of the current shard yet to be handled
  current,        \* the row in handle() and the ledger row made of it
  dispatched,     \* dispatched_count
  skipped,        \* skip_count
  batchWritten,   \* history: archived rows this run has uploaded
  excused,        \* history: archived rows that failures of this run account for
  batchEvents,    \* history: event ids uploaded for each archived row, by any run
  runs,           \* times the job was started
  batchFaults     \* faults so far

Archived == UNION {RowsOf[s] : s \in Shards}
WellFormed == Archived \ Malformed
BatchRow == [event : UNION {BatchEventIds[r] : r \in WellFormed}, priced : BOOLEAN]
Idle == [archived |-> Shards]

ASSUME BackfillAssumption ==
  /\ MaxRuns \in Nat /\ MaxBatchFaults \in Nat
  /\ RowsOf \in [Shards -> SUBSET Archived]
  /\ BatchGroupOf \in [Archived -> AssetGroups]
  /\ IsFiniteSet(Archived)
  /\ \A s, t \in Shards : s # t => RowsOf[s] \cap RowsOf[t] = {}

batchVars == <<stage, shardsLeft, rowsLeft, current, dispatched, skipped,
               batchWritten, excused, batchEvents, runs, batchFaults>>

BatchInit ==
  /\ stage = "ended"
  /\ shardsLeft = {} /\ rowsLeft = {} /\ current = Idle
  /\ dispatched = 0 /\ skipped = 0
  /\ batchWritten = {} /\ excused = {}
  /\ batchEvents = [r \in Archived |-> {}]
  /\ runs = 0 /\ batchFaults = 0

BatchFault == batchFaults < MaxBatchFaults /\ batchFaults' = batchFaults + 1

\* run_backfill is called, by whoever orders the job.
Start ==
  /\ stage \in {"ended", "returned"} /\ runs < MaxRuns
  /\ stage' = "list"
  /\ shardsLeft' = Shards
  /\ dispatched' = 0 /\ skipped' = 0
  /\ batchWritten' = {} /\ excused' = {}
  /\ runs' = runs + 1
  /\ UNCHANGED <<ledger, today, rowsLeft, current, batchEvents, batchFaults>>

\* _iter_parquet_paths yields s, and it is read.
ReadShard(s) ==
  /\ stage = "list" /\ s \in shardsLeft
  /\ shardsLeft' = shardsLeft \ {s}
  /\ rowsLeft' = RowsOf[s]
  /\ stage' = "rows"
  /\ UNCHANGED <<ledger, today, current, dispatched, skipped,
                 batchWritten, excused, batchEvents, runs, batchFaults>>

\* Reading s raises: logged, and the shard is left out.
ShardUnreadable(s) ==
  /\ BatchFault
  /\ stage = "list" /\ s \in shardsLeft
  /\ shardsLeft' = shardsLeft \ {s}
  /\ excused' = excused \cup RowsOf[s]
  /\ UNCHANGED <<ledger, today, stage, rowsLeft, current, dispatched, skipped,
                 batchWritten, batchEvents, runs>>

\* process_date returns dispatched_count.
Returns ==
  /\ stage' = "returned"
  /\ UNCHANGED <<ledger, today, rowsLeft, current, dispatched, skipped,
                 batchWritten, batchEvents, runs>>

\* The listing ends.
ListingEnds == /\ stage = "list" /\ shardsLeft = {}
               /\ Returns
               /\ UNCHANGED <<shardsLeft, excused, batchFaults>>

\* The listing raises, at first or between two objects: the generator logs it and
\* ends, as if there were no more shards.
ListingRaises == /\ BatchFault
                 /\ stage = "list"
                 /\ Returns
                 /\ shardsLeft' = {}
                 /\ excused' = excused \cup UNION {RowsOf[s] : s \in shardsLeft}

\* Fault seeded in SkipRow: `break` for `continue`.
SkipRowBreaks(r) ==
  /\ stage = "rows" /\ r \in rowsLeft \cap Malformed
  /\ rowsLeft' = {}
  /\ skipped' = skipped + 1
  /\ UNCHANGED <<ledger, today, stage, shardsLeft, current, dispatched,
                 batchWritten, excused, batchEvents, runs, batchFaults>>

\* _row_to_message returned None.
SkipRow(r) ==
  /\ stage = "rows" /\ r \in rowsLeft \cap Malformed
  /\ rowsLeft' = rowsLeft \ {r}
  /\ skipped' = skipped + 1
  /\ UNCHANGED <<ledger, today, stage, shardsLeft, current, dispatched,
                 batchWritten, excused, batchEvents, runs, batchFaults>>

\* handle(msg) up to the call of the writer
HandleRow(r) ==
  /\ stage = "rows" /\ r \in rowsLeft \ Malformed
  /\ rowsLeft' = rowsLeft \ {r}
  /\ \E row \in [event : BatchEventIds[r], priced : BOOLEAN] :
       current' = [archived |-> r, row |-> row]
  /\ stage' = "upload"
  /\ UNCHANGED <<ledger, today, shardsLeft, dispatched, skipped,
                 batchWritten, excused, batchEvents, runs, batchFaults>>

\* Fault seeded in BatchPath: every row goes to one default asset_group.
BatchPathDefaultGroup(r) == PathFor(CHOOSE g \in AssetGroups : TRUE, NoDate, NoSuffix)

\* The live handler names neither a date nor a suffix, for the backfill either.
BatchPath(r) == PathFor(BatchGroupOf[r], NoDate, NoSuffix)

RecordBatch(r, row) ==
  /\ batchWritten' = batchWritten \cup {r}
  /\ batchEvents' = [batchEvents EXCEPT ![r] = @ \cup {row.event}]

\* handle(msg) returns.
BatchUploadReturns ==
  /\ stage = "upload"
  /\ Write({current.row}, BatchPath(current.archived))
  /\ RecordBatch(current.archived, current.row)
  /\ dispatched' = dispatched + 1
  /\ current' = Idle
  /\ stage' = "rows"
  /\ UNCHANGED <<today, shardsLeft, rowsLeft, skipped, excused, runs, batchFaults>>

\* Fault seeded in BatchUploadRaises: dispatched_count goes up in a finally.
BatchUploadRaisesCounted ==
  /\ BatchFault
  /\ stage = "upload"
  /\ dispatched' = dispatched + 1
  /\ current' = Idle
  /\ stage' = "rows"
  /\ UNCHANGED <<ledger, today, shardsLeft, rowsLeft, skipped,
                 batchWritten, excused, batchEvents, runs>>

\* Fault seeded in BatchUploadRaises: the row is put back, and counted as skipped.
BatchUploadRaisesRetried ==
  /\ BatchFault
  /\ stage = "upload"
  /\ rowsLeft' = rowsLeft \cup {current.archived}
  /\ skipped' = skipped + 1
  /\ current' = Idle
  /\ stage' = "rows"
  /\ UNCHANGED <<ledger, today, shardsLeft, dispatched,
                 batchWritten, excused, batchEvents, runs>>

\* handle(msg) raises from the writer: the row counts as skipped, written or not.
BatchUploadRaises ==
  /\ BatchFault
  /\ stage = "upload"
  /\ \E applied \in BOOLEAN :
       /\ WriteRaises({current.row}, BatchPath(current.archived), applied)
       /\ IF applied
          THEN RecordBatch(current.archived, current.row) /\ UNCHANGED excused
          ELSE /\ excused' = excused \cup {current.archived}
               /\ UNCHANGED <<batchWritten, batchEvents>>
  /\ skipped' = skipped + 1
  /\ current' = Idle
  /\ stage' = "rows"
  /\ UNCHANGED <<today, shardsLeft, rowsLeft, dispatched, runs>>

ShardDone ==
  /\ stage = "rows" /\ rowsLeft = {}
  /\ stage' = "list"
  /\ UNCHANGED <<ledger, today, shardsLeft, rowsLeft, current, dispatched, skipped,
                 batchWritten, excused, batchEvents, runs, batchFaults>>

\* The VM goes: nothing returns, and nothing is left of the run but its uploads.
BatchCrash ==
  /\ BatchFault
  /\ stage \in {"list", "rows", "upload"}
  /\ stage' = "ended"
  /\ shardsLeft' = {} /\ rowsLeft' = {} /\ current' = Idle
  /\ UNCHANGED <<ledger, today, dispatched, skipped, batchWritten, excused, batchEvents, runs>>

BatchNext ==
  \/ Start
  \/ \E s \in Shards : ReadShard(s) \/ ShardUnreadable(s)
  \/ ListingEnds \/ ListingRaises
  \/ \E r \in rowsLeft : SkipRow(r) \/ HandleRow(r)
  \/ BatchUploadReturns \/ BatchUploadRaises
  \/ ShardDone
  \/ BatchCrash

\* The job alone.
JobInit == LedgerInit /\ BatchInit
JobNext == BatchNext \/ (NextDay /\ UNCHANGED batchVars)
JobSpec == JobInit /\ [][JobNext]_<<ledger, today, batchVars>>

-----------------------------------------------------------------------------
(* Properties *)

BatchTypeOK ==
  /\ stage \in {"list", "rows", "upload", "returned", "ended"}
  /\ shardsLeft \subseteq Shards /\ rowsLeft \subseteq Archived
  /\ current \in [archived : WellFormed, row : BatchRow] \cup {Idle}
  /\ dispatched \in Nat /\ skipped \in Nat
  /\ dispatched + skipped <= Cardinality(Archived)
  /\ batchWritten \subseteq WellFormed /\ excused \subseteq Archived
  /\ \A r \in batchWritten : batchEvents[r] # {}
  /\ runs \in 0..MaxRuns /\ batchFaults \in 0..MaxBatchFaults

\* "Count of rows dispatched to handler (and written to PricingLedger via
\* handler)" (backfill.py:157): every row counted was uploaded in this run, none
\* is counted twice, and what was uploaded uncounted was counted as skipped.
CountIsHonest ==
  /\ dispatched <= Cardinality(batchWritten)
  /\ Cardinality(batchWritten) <= dispatched + skipped

\* A shard that cannot be read, a row that is malformed or whose handling raises is
\* left out and takes no other with it ("skipping shard", backfill.py:168): a run that
\* returns has uploaded all well-formed rows but those of the shards it could not read,
\* or that a listing cut short had yet to yield, and the rows whose own upload failed.
FailureCostsOnlyItsOwn ==
  stage = "returned" => WellFormed \subseteq batchWritten \cup excused
=============================================================================
