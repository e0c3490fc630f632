--------------------------- MODULE Backfill_proofs ---------------------------
(***************************************************************************)
(* Proofs about Backfill, for every archive, every number of runs and of   *)
(* failures: what the count a run returns says of what it has written, and *)
(* what a failure leaves unwritten.                                        *)
(***************************************************************************)
EXTENDS Backfill, FiniteSetTheorems, TLAPS

\* Rows of the shards the run has yet to read.
Pending == UNION {RowsOf[s] : s \in shardsLeft}

\* Each archived row is in one place: to be read, to be handled, in the writer's
\* hands, or done with; so that none is handled, or counted, twice in a run.
OnePlace ==
  /\ rowsLeft \cap Pending = {}
  /\ batchWritten \cap (rowsLeft \cup Pending) = {}
  /\ stage = "upload" =>
       /\ current.archived \in WellFormed
       /\ current.archived \notin batchWritten \cup rowsLeft \cup Pending
  /\ stage \notin {"rows", "upload"} => rowsLeft = {}

JobInv == /\ shardsLeft \subseteq Shards /\ rowsLeft \subseteq Archived
          /\ dispatched \in Nat /\ skipped \in Nat
          /\ batchWritten \subseteq WellFormed /\ excused \subseteq Archived
          /\ OnePlace
          /\ CountIsHonest

\* What is uploaded is finite, and one more row makes it one larger.
LEMMA WrittenFinite ==
  ASSUME batchWritten \subseteq WellFormed
  PROVE  /\ IsFiniteSet(batchWritten)
         /\ Cardinality(batchWritten) \in Nat
         /\ \A r : r \notin batchWritten =>
              Cardinality(batchWritten \cup {r}) = Cardinality(batchWritten) + 1
<1>1. IsFiniteSet(batchWritten)
  BY FS_Subset, BackfillAssumption DEF WellFormed
<1> QED BY <1>1, FS_CardinalityType, FS_AddElement

\* Reading a shard takes its rows out of those pending.
LEMMA PendingShrinks ==
  ASSUME JobInv, NEW s \in shardsLeft, shardsLeft' = shardsLeft \ {s}
  PROVE  /\ Pending' \subseteq Pending
         /\ RowsOf[s] \subseteq Pending
         /\ RowsOf[s] \subseteq Archived
         /\ RowsOf[s] \cap Pending' = {}
BY BackfillAssumption DEF JobInv, Pending, Archived

\* Every step keeps the invariant.
LEMMA JobStep ==
  ASSUME JobInv, BatchNext \/ UNCHANGED batchVars
  PROVE  JobInv'
<1> USE DEF JobInv
<1>1. CASE Start
  <2>1. Cardinality({}) = 0
    BY FS_EmptySet
  <2> QED BY <1>1, <2>1 DEF Start, OnePlace, CountIsHonest
<1>2. ASSUME NEW s \in Shards, ReadShard(s)
      PROVE  JobInv'
  <2>1. s \in shardsLeft /\ shardsLeft' = shardsLeft \ {s}
    BY <1>2 DEF ReadShard
  <2> QED BY <1>2, <2>1, PendingShrinks DEF ReadShard, OnePlace, CountIsHonest
<1>3. ASSUME NEW s \in Shards, ShardUnreadable(s)
      PROVE  JobInv'
  <2>1. s \in shardsLeft /\ shardsLeft' = shardsLeft \ {s}
    BY <1>3 DEF ShardUnreadable
  <2> QED BY <1>3, <2>1, PendingShrinks DEF ShardUnreadable, OnePlace, CountIsHonest
<1>4. CASE ListingEnds \/ ListingRaises
  <2>1. Pending' \subseteq Pending /\ shardsLeft' \subseteq shardsLeft
    BY <1>4 DEF ListingEnds, ListingRaises, Pending
  <2>2. excused' \subseteq Archived
    BY <1>4, BackfillAssumption DEF ListingEnds, ListingRaises, Archived
  <2> QED BY <1>4, <2>1, <2>2 DEF ListingEnds, ListingRaises, Returns, OnePlace, CountIsHonest
<1>5. ASSUME NEW r \in rowsLeft, SkipRow(r)
      PROVE  JobInv'
  <2>1. Pending' = Pending
    BY <1>5 DEF SkipRow, Pending
  <2>2. CountIsHonest'
    BY <1>5, WrittenFinite DEF SkipRow, CountIsHonest
  <2> QED BY <1>5, <2>1, <2>2 DEF SkipRow, OnePlace
<1>6. ASSUME NEW r \in rowsLeft, HandleRow(r)
      PROVE  JobInv'
  <2>1. Pending' = Pending
    BY <1>6 DEF HandleRow, Pending
  <2>2. current'.archived = r /\ r \in WellFormed
    BY <1>6 DEF HandleRow, WellFormed
  <2> QED BY <1>6, <2>1, <2>2 DEF HandleRow, OnePlace, CountIsHonest
<1>7. CASE BatchUploadReturns
  <2> DEFINE r == current.archived
  <2>1. /\ r \in WellFormed /\ r \notin batchWritten \cup rowsLeft \cup Pending
        /\ Pending' = Pending /\ batchWritten' = batchWritten \cup {r}
        /\ dispatched' = dispatched + 1 /\ skipped' = skipped /\ stage' = "rows"
        /\ UNCHANGED <<shardsLeft, rowsLeft, excused>>
    BY <1>7 DEF BatchUploadReturns, RecordBatch, OnePlace, Pending
  <2>2. CountIsHonest'
    BY <2>1, WrittenFinite DEF CountIsHonest
  <2> QED BY <2>1, <2>2 DEF OnePlace
<1>8. CASE BatchUploadRaises
  <2> DEFINE r == current.archived
  <2>1. /\ r \in WellFormed /\ r \notin batchWritten \cup rowsLeft \cup Pending
        /\ Pending' = Pending
        /\ batchWritten' = batchWritten \cup {r} \/ batchWritten' = batchWritten
        /\ dispatched' = dispatched /\ skipped' = skipped + 1 /\ stage' = "rows"
        /\ UNCHANGED <<shardsLeft, rowsLeft>> /\ excused' \subseteq excused \cup {r}
    BY <1>8 DEF BatchUploadRaises, RecordBatch, OnePlace, Pending
  <2>2. CountIsHonest'
    BY <2>1, WrittenFinite DEF CountIsHonest
  <2> QED BY <2>1, <2>2 DEF OnePlace, WellFormed
<1>9. CASE ShardDone
  BY <1>9 DEF ShardDone, OnePlace, CountIsHonest, Pending
<1>10. CASE BatchCrash
  BY <1>10 DEF BatchCrash, OnePlace, CountIsHonest, Pending
<1>11. CASE UNCHANGED batchVars
  BY <1>11 DEF batchVars, OnePlace, CountIsHonest, Pending
<1> QED BY <1>1, <1>2, <1>3, <1>4, <1>5, <1>6, <1>7, <1>8, <1>9, <1>10, <1>11
        DEF BatchNext

LEMMA JobStart == BatchInit => JobInv
BY FS_EmptySet DEF BatchInit, JobInv, OnePlace, CountIsHonest, Pending

\* The invariant holds of every reachable state of the job.
LEMMA JobInvariance == JobSpec => []JobInv
<1>1. JobInit => JobInv
  BY JobStart DEF JobInit
<1>2. JobInv /\ [JobNext]_<<ledger, today, batchVars>> => JobInv'
  BY JobStep DEF JobNext
<1> QED BY <1>1, <1>2, PTL DEF JobSpec

\* Every row process_date counts it has uploaded, and it counts none twice; what
\* it has uploaded uncounted it has counted as skipped (backfill.py:157).
THEOREM Honest == JobSpec => []CountIsHonest
BY JobInvariance, PTL DEF JobInv

-----------------------------------------------------------------------------
(* What failures cost *)

\* Rows the run has yet to be done with.
Left == rowsLeft \cup Pending \cup (IF stage = "upload" THEN {current.archived} ELSE {})

\* While it runs, and when it returns, each well-formed row is written, accounted for
\* by a failure, or left to be done; and nothing is left at the return.
Accounted ==
  /\ stage # "ended" => WellFormed \subseteq batchWritten \cup excused \cup Left
  /\ stage = "returned" => shardsLeft = {}

\* Every step accounts for the rows it drops.
LEMMA AccountStep ==
  ASSUME JobInv, Accounted, BatchNext \/ UNCHANGED batchVars
  PROVE  Accounted'
<1> USE DEF Accounted
<1>1. CASE Start
  <2>1. shardsLeft' = Shards /\ stage' = "list"
    BY <1>1 DEF Start
  <2>2. Pending' = Archived
    BY <2>1 DEF Pending, Archived
  <2> QED BY <2>1, <2>2 DEF Left, WellFormed
<1>2. ASSUME NEW s \in Shards, ReadShard(s)
      PROVE  Accounted'
  <2>1. s \in shardsLeft /\ shardsLeft' = shardsLeft \ {s} /\ rowsLeft = {}
    BY <1>2 DEF ReadShard, JobInv, OnePlace
  <2>2. Pending \subseteq Pending' \cup RowsOf[s]
    BY <2>1 DEF Pending
  <2> QED BY <1>2, <2>1, <2>2 DEF ReadShard, Left
<1>3. ASSUME NEW s \in Shards, ShardUnreadable(s)
      PROVE  Accounted'
  <2>1. s \in shardsLeft /\ shardsLeft' = shardsLeft \ {s}
    BY <1>3 DEF ShardUnreadable
  <2>2. Pending \subseteq Pending' \cup RowsOf[s]
    BY <2>1 DEF Pending
  <2> QED BY <1>3, <2>1, <2>2 DEF ShardUnreadable, Left
<1>4. CASE ListingEnds \/ ListingRaises
  <2>1. rowsLeft = {} /\ stage = "list" /\ shardsLeft' = {} /\ batchWritten' = batchWritten
    BY <1>4 DEF ListingEnds, ListingRaises, Returns, JobInv, OnePlace
  <2>2. excused \cup Pending \subseteq excused'
    BY <1>4 DEF ListingEnds, ListingRaises, Pending
  <2> QED BY <2>1, <2>2 DEF Left
<1>5. ASSUME NEW r \in rowsLeft, SkipRow(r) \/ HandleRow(r)
      PROVE  Accounted'
  <2>1. /\ rowsLeft' = rowsLeft \ {r} /\ Pending' = Pending /\ stage = "rows"
        /\ UNCHANGED <<shardsLeft, batchWritten, excused>>
    BY <1>5 DEF SkipRow, HandleRow, Pending
  <2>2. \/ stage' = "rows" /\ r \notin WellFormed
        \/ stage' = "upload" /\ current'.archived = r
    BY <1>5 DEF SkipRow, HandleRow, WellFormed
  <2> QED BY <2>1, <2>2 DEF Left
<1>6. CASE BatchUploadReturns \/ BatchUploadRaises
  <2>1. /\ stage = "upload" /\ stage' = "rows" /\ Pending' = Pending
        /\ UNCHANGED <<shardsLeft, rowsLeft>>
        /\ batchWritten \cup excused \cup {current.archived} \subseteq batchWritten' \cup excused'
    BY <1>6 DEF BatchUploadReturns, BatchUploadRaises, RecordBatch, Pending
  <2> QED BY <2>1 DEF Left
<1>7. CASE ShardDone \/ BatchCrash
  BY <1>7 DEF ShardDone, BatchCrash, Left, Pending
<1>8. CASE UNCHANGED batchVars
  BY <1>8 DEF batchVars, Left, Pending
<1> QED BY <1>1, <1>2, <1>3, <1>4, <1>5, <1>6, <1>7, <1>8 DEF BatchNext

\* At the return nothing is left.
LEMMA AccountTells == JobInv /\ Accounted => FailureCostsOnlyItsOwn
BY DEF JobInv, OnePlace, Accounted, Left, Pending, FailureCostsOnlyItsOwn

\* What cannot be read or handled takes no other row with it: a run that returns has
\* uploaded all but what its own failures account for (GreeksBackfillProcessor.process_date).
THEOREM CostsOnlyItsOwn == JobSpec => []FailureCostsOnlyItsOwn
<1>1. JobInit => Accounted
  BY DEF JobInit, BatchInit, Accounted
<1>2. JobInv /\ Accounted /\ [JobNext]_<<ledger, today, batchVars>> => Accounted'
  BY AccountStep DEF JobNext
<1> QED BY <1>1, <1>2, JobInvariance, AccountTells, PTL DEF JobSpec

-----------------------------------------------------------------------------
(* Type correctness *)

\* Rows the run is done with.
Done == Archived \ Left

InHand == [archived : WellFormed, row : BatchRow]

\* The counters are bounded because each counted row is done with; that an upload
\* leaves an event id takes the type of the ids and of the row in hand.
JobTypeInv ==
  /\ BatchTypeOK
  /\ stage = "upload" => current \in InHand
  /\ DOMAIN batchEvents = Archived
  /\ dispatched + skipped <= Cardinality(Done)

\* What is done with is finite; it only grows with less left, and by one at least
\* when a row leaves.
LEMMA DoneCounts ==
  ASSUME NEW A, A \subseteq Archived, NEW B, A \subseteq B, B \subseteq Archived
  PROVE  /\ Cardinality(A) \in Nat /\ Cardinality(B) \in Nat
         /\ Cardinality(A) <= Cardinality(B)
         /\ Cardinality(B) <= Cardinality(Archived) /\ Cardinality(Archived) \in Nat
         /\ \A r \in B \ A : Cardinality(A) + 1 <= Cardinality(B)
<1>1. IsFiniteSet(Archived) /\ IsFiniteSet(B) /\ IsFiniteSet(A)
  BY FS_Subset, BackfillAssumption
<1>2. ASSUME NEW r \in B \ A
      PROVE  Cardinality(A) + 1 <= Cardinality(B)
  <2>1. Cardinality(A \cup {r}) = Cardinality(A) + 1
    BY <1>1, FS_AddElement
  <2>2. A \cup {r} \subseteq B
    OBVIOUS
  <2> QED BY <1>1, <2>1, <2>2, FS_Subset
<1> QED BY <1>1, <1>2, FS_Subset, FS_CardinalityType

\* Every step keeps the state of the job well typed and its counters bounded.
LEMMA JobTypeStep ==
  ASSUME JobInv, JobInv', JobTypeInv, BatchNext \/ UNCHANGED batchVars
  PROVE  JobTypeInv'
<1> DEFINE Typed == /\ stage \in {"list", "rows", "upload", "returned", "ended"}
                    /\ current \in InHand \cup {Idle}
                    /\ stage = "upload" => current \in InHand
                    /\ DOMAIN batchEvents = Archived
                    /\ \A r \in batchWritten : batchEvents[r] # {}
                    /\ runs \in 0..MaxRuns /\ batchFaults \in 0..MaxBatchFaults
           Bounded == dispatched + skipped <= Cardinality(Done)
<1>1. Typed /\ Bounded
  BY DEF JobTypeInv, BatchTypeOK, InHand
<1>2. Typed' /\ Bounded' => JobTypeInv'
  <2>1. Done' \subseteq Archived /\ dispatched' \in Nat /\ skipped' \in Nat
    BY DEF Done, JobInv
  <2>2. Cardinality(Done') <= Cardinality(Archived)
        /\ Cardinality(Done') \in Nat /\ Cardinality(Archived) \in Nat
    BY <2>1, DoneCounts
  <2> QED BY <2>1, <2>2 DEF JobTypeInv, BatchTypeOK, JobInv, InHand
<1>3. Done \subseteq Archived /\ Done' \subseteq Archived
  BY DEF Done
<1>4. dispatched \in Nat /\ skipped \in Nat
  BY DEF JobInv
<1>5. ASSUME Done \subseteq Done', dispatched' = dispatched, skipped' = skipped
      PROVE  Bounded'
  BY <1>1, <1>3, <1>4, <1>5, DoneCounts
<1>6. ASSUME NEW r \in Done' \ Done, Done \subseteq Done',
             dispatched' + skipped' = dispatched + skipped + 1
      PROVE  Bounded'
  BY <1>1, <1>3, <1>4, <1>6, DoneCounts
<1>7. CASE Start
  <2>1. Typed'
    BY <1>1, <1>7, BackfillAssumption DEF Start
  <2>2. Bounded'
    BY <1>3, <1>7, DoneCounts DEF Start
  <2> QED BY <1>2, <2>1, <2>2
<1>8. ASSUME NEW s \in Shards, ReadShard(s)
      PROVE  JobTypeInv'
  <2>1. s \in shardsLeft /\ shardsLeft' = shardsLeft \ {s}
    BY <1>8 DEF ReadShard
  <2>2. Left' \subseteq Left
    BY <1>8, <2>1, PendingShrinks DEF ReadShard, Left
  <2>3. Bounded'
    BY <1>5, <1>8, <2>2 DEF ReadShard, Done
  <2>4. Typed'
    BY <1>1, <1>8 DEF ReadShard
  <2> QED BY <1>2, <2>3, <2>4
<1>9. ASSUME NEW s \in Shards, ShardUnreadable(s)
      PROVE  JobTypeInv'
  <2>1. s \in shardsLeft /\ shardsLeft' = shardsLeft \ {s}
    BY <1>9 DEF ShardUnreadable
  <2>2. Left' \subseteq Left
    BY <1>9, <2>1, PendingShrinks DEF ShardUnreadable, Left
  <2>3. Bounded'
    BY <1>5, <1>9, <2>2 DEF ShardUnreadable, Done
  <2>4. Typed'
    BY <1>1, <1>9, BackfillAssumption DEF ShardUnreadable, BatchFault
  <2> QED BY <1>2, <2>3, <2>4
<1>10. CASE ListingEnds \/ ListingRaises
  <2>1. Left' \subseteq Left
    BY <1>10 DEF ListingEnds, ListingRaises, Returns, Left, Pending
  <2>2. Bounded'
    BY <1>5, <1>10, <2>1 DEF ListingEnds, ListingRaises, Returns, Done
  <2>3. Typed'
    BY <1>1, <1>10, BackfillAssumption DEF ListingEnds, ListingRaises, Returns, BatchFault
  <2> QED BY <1>2, <2>2, <2>3
<1>11. ASSUME NEW r \in rowsLeft, SkipRow(r)
       PROVE  JobTypeInv'
  <2>1. Left' = Left \ {r} /\ r \in Left /\ r \in Archived
    BY <1>11 DEF SkipRow, Left, Pending, JobInv, OnePlace
  <2>2. dispatched' + skipped' = dispatched + skipped + 1
    BY <1>4, <1>11 DEF SkipRow
  <2>3. Bounded'
    BY <1>6, <2>1, <2>2 DEF Done
  <2>4. Typed'
    BY <1>1, <1>11 DEF SkipRow
  <2> QED BY <1>2, <2>3, <2>4
<1>12. ASSUME NEW r \in rowsLeft, HandleRow(r)
       PROVE  JobTypeInv'
  <2>1. r \in WellFormed
    BY <1>12 DEF HandleRow, WellFormed, JobInv
  <2>2. PICK row \in [event : BatchEventIds[r], priced : BOOLEAN] :
          current' = [archived |-> r, row |-> row]
    BY <1>12 DEF HandleRow
  <2>3. row \in BatchRow
    BY <2>1 DEF BatchRow
  <2>4. current' \in InHand /\ current'.archived = r
    BY <2>1, <2>2, <2>3 DEF InHand
  <2>5. Left' \subseteq Left
    BY <1>12, <2>4 DEF HandleRow, Left, Pending
  <2>6. Bounded'
    BY <1>5, <1>12, <2>5 DEF HandleRow, Done
  <2>7. Typed'
    BY <1>1, <1>12, <2>4 DEF HandleRow
  <2> QED BY <1>2, <2>6, <2>7
<1>13. CASE BatchUploadReturns \/ BatchUploadRaises
  <2> DEFINE r == current.archived
  <2>1. stage = "upload" /\ current \in InHand /\ r \in Archived
    BY <1>1, <1>13 DEF BatchUploadReturns, BatchUploadRaises, InHand, WellFormed
  <2>2. Left' = Left \ {r} /\ r \in Left
    BY <1>13, <2>1 DEF BatchUploadReturns, BatchUploadRaises, Left, Pending, JobInv, OnePlace
  <2>3. dispatched' + skipped' = dispatched + skipped + 1
    BY <1>4, <1>13 DEF BatchUploadReturns, BatchUploadRaises
  <2>4. Bounded'
    BY <1>6, <2>1, <2>2, <2>3 DEF Done
  <2>5. \/ UNCHANGED <<batchWritten, batchEvents>>
        \/ RecordBatch(r, current.row)
    BY <1>13 DEF BatchUploadReturns, BatchUploadRaises
  <2>6. DOMAIN batchEvents' = Archived /\ \A x \in batchWritten' : batchEvents'[x] # {}
    BY <1>1, <2>1, <2>5 DEF RecordBatch, JobInv, WellFormed
  <2>7. /\ stage' = "rows" /\ current' = Idle /\ runs' = runs
        /\ batchFaults' = batchFaults \/ BatchFault
    BY <1>13 DEF BatchUploadReturns, BatchUploadRaises
  <2>8. Typed'
    BY <1>1, <2>6, <2>7, BackfillAssumption DEF BatchFault
  <2> QED BY <1>2, <2>4, <2>8
<1>14. CASE ShardDone \/ BatchCrash
  <2>1. Left' \subseteq Left
    BY <1>14 DEF ShardDone, BatchCrash, Left, Pending
  <2>2. Bounded'
    BY <1>5, <1>14, <2>1 DEF ShardDone, BatchCrash, Done
  <2>3. Typed'
    BY <1>1, <1>14, BackfillAssumption DEF ShardDone, BatchCrash, BatchFault
  <2> QED BY <1>2, <2>2, <2>3
<1>15. CASE UNCHANGED batchVars
  BY <1>15 DEF batchVars, JobTypeInv, BatchTypeOK, Done, Left, Pending
<1> QED BY <1>7, <1>8, <1>9, <1>10, <1>11, <1>12, <1>13, <1>14, <1>15 DEF BatchNext

LEMMA JobTypeStart == BatchInit => JobTypeInv
<1> SUFFICES ASSUME BatchInit PROVE JobTypeInv
  OBVIOUS
<1>1. Done \subseteq Archived
  BY DEF Done
<1>2. Cardinality(Done) \in Nat /\ Cardinality(Archived) \in Nat
  BY <1>1, DoneCounts
<1> QED BY <1>2, BackfillAssumption DEF BatchInit, JobTypeInv, BatchTypeOK

\* The state of the job stays well typed, and its two counters never count more
\* rows than are archived (backfill.py:171).
THEOREM BatchTypeCorrect == JobSpec => []BatchTypeOK
<1>1. JobInit => JobTypeInv
  BY JobTypeStart DEF JobInit
<1>2. JobInv /\ JobInv' /\ JobTypeInv /\ [JobNext]_<<ledger, today, batchVars>> => JobTypeInv'
  BY JobTypeStep DEF JobNext
<1>3. JobTypeInv => BatchTypeOK
  BY DEF JobTypeInv
<1> QED BY <1>1, <1>2, <1>3, JobInvariance, PTL DEF JobSpec
=============================================================================
