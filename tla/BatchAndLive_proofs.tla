-------------------------- MODULE BatchAndLive_proofs --------------------------
(***************************************************************************)
(* A backfill and the live service on one bucket, for every number of      *)
(* workers, messages, shards, runs and failures: where the rows in it come *)
(* from, and that neither breaks what the other promises of its own.       *)
(***************************************************************************)
EXTENDS BatchAndLive, LiveService_proofs, Backfill_proofs

-----------------------------------------------------------------------------
(* A step of one is no step of the other *)

\* All they share is the ledger and the day, of which a backfill writes the first
\* and reads the second: to the live service its steps are none, and to the backfill
\* those of the live service are none.
LEMMA Apart ==
  ASSUME [SharedNext]_sharedVars
  PROVE  [Next]_ownVars /\ (BatchNext \/ UNCHANGED batchVars)
<1>1. CASE BatchNext /\ UNCHANGED liveVars
  <2>1. today' = today
    BY <1>1 DEF BatchNext, Start, ReadShard, ShardUnreadable, ListingEnds, ListingRaises,
       Returns, SkipRow, HandleRow, BatchUploadReturns, BatchUploadRaises, ShardDone, BatchCrash
  <2>2. UNCHANGED ownVars
    BY <1>1, <2>1 DEF liveVars, busVars, workerVars, ownVars
  <2> QED BY <1>1, <2>2
<1>2. CASE UNCHANGED sharedVars
  BY <1>2 DEF sharedVars, vars, ownVars
<1> QED BY <1>1, <1>2 DEF SharedNext

\* Beside a backfill too, the live service has its invariants.
LEMMA LiveInvariance == SharedSpec => [](IndInv /\ RowsInv)
<1>1. SharedInit => IndInv /\ RowsInv
  BY IndStart, RowsStart DEF SharedInit
<1>2. IndInv /\ RowsInv /\ [SharedNext]_sharedVars => (IndInv /\ RowsInv)'
  <2>1. IndInv => OwnTypeOK
    BY DEF IndInv
  <2> QED BY <2>1, Apart, IndStep, RowsStep
<1> QED BY <1>1, <1>2, PTL DEF SharedSpec

\* And beside the live service the backfill has its own.
LEMMA BatchInvariance == SharedSpec => [](JobInv /\ JobTypeInv /\ Accounted)
<1>1. SharedInit => JobInv /\ JobTypeInv /\ Accounted
  BY JobStart, JobTypeStart DEF SharedInit, BatchInit, Accounted
<1>2. JobInv /\ JobTypeInv /\ Accounted /\ [SharedNext]_sharedVars
        => (JobInv /\ JobTypeInv /\ Accounted)'
  BY Apart, JobStep, JobTypeStep, AccountStep
<1> QED BY <1>1, <1>2, PTL DEF SharedSpec

\* A backfill on the same bucket takes nothing from what the subscriber promises: a
\* mark update is published, written and settled in that order (mark_update_sub.py:10).
THEOREM SharedImplements == SharedSpec => ImplementsAtLeastOnce
<1>1. SharedInit => ALO!Init
  BY DEF SharedInit, Init, BusInit, ALO!Init, Status
<1>2. IndInv /\ [SharedNext]_sharedVars => [ALO!Next]_StatusMap
  BY StepImplements, Apart
<1> QED BY <1>1, <1>2, LiveInvariance, PTL
        DEF SharedSpec, ImplementsAtLeastOnce, ALO!Spec, StatusMap

\* Nor does it make the live service write a message once more.
THEOREM SharedRowPerFault == SharedSpec => []OneMoreRowPerFault
BY LiveInvariance, RowsBound, PTL DEF IndInv

\* The state of a job beside the live service stays well typed, and its counters
\* within the archive (backfill.py:171).
THEOREM SharedTypeCorrect == SharedSpec => []BatchTypeOK
BY BatchInvariance, PTL DEF JobTypeInv

\* The count a run returns is honest, also while the live service writes to the same
\* objects (backfill.py:157).
THEOREM SharedHonest == SharedSpec => []CountIsHonest
BY BatchInvariance, PTL DEF JobInv

\* And a failure of the job takes no row with it but its own (backfill.py:168), whatever
\* the live service does meanwhile.
THEOREM SharedCostsOnlyItsOwn == SharedSpec => []FailureCostsOnlyItsOwn
BY BatchInvariance, AccountTells, PTL

-----------------------------------------------------------------------------
(* Where rows come from *)

\* A row of either may be in any partition as far as the types go.
SharedInv == /\ OwnTypeOK /\ JobInv /\ JobTypeInv
             /\ ledger \in [Path -> SUBSET (Row \cup BatchRow)]

\* A row in a partition is of a live message or an archived one of its group, going
\* by the records the two keep of what they have uploaded.
Origin(p, r, live, batch) ==
  \/ \E m \in Messages : AssetGroupOf[m] = p.group /\ r.event \in live[m]
  \/ \E a \in Archived : BatchGroupOf[a] = p.group /\ r.event \in batch[a]

\* A row uploaded to a partition, and recorded by its writer, has its origin there,
\* and all others keep theirs.
LEMMA UploadTraceable ==
  ASSUME SharedInv, SharedRowsTraceable, NEW r \in Row \cup BatchRow, NEW path \in Path,
         ledger' = Uploaded({r}, path),
         \A m \in Messages : emitted[m] \subseteq emitted'[m],
         \A a \in Archived : batchEvents[a] \subseteq batchEvents'[a],
         Origin(path, r, emitted', batchEvents')
  PROVE  /\ SharedRowsTraceable'
         /\ ledger' \in [Path -> SUBSET (Row \cup BatchRow)]
<1>1. ledger' = [ledger EXCEPT ![path] = {r}]
  BY DEF Uploaded
<1>2. ledger' \in [Path -> SUBSET (Row \cup BatchRow)]
  BY <1>1 DEF SharedInv
<1>3. ASSUME NEW p \in Path, NEW x \in ledger'[p]
      PROVE  Origin(p, x, emitted', batchEvents')
  <2>1. CASE p = path
    <3>1. x = r
      BY <1>1, <1>3, <2>1 DEF SharedInv
    <3> QED BY <2>1, <3>1
  <2>2. CASE p # path
    <3>1. x \in ledger[p]
      BY <1>1, <1>3, <2>2 DEF SharedInv
    <3> QED BY <3>1 DEF SharedRowsTraceable, Origin
  <2> QED BY <2>1, <2>2
<1> QED BY <1>2, <1>3 DEF SharedRowsTraceable, Origin

\* What the live service uploads, and where to.
LEMMA LiveUpload ==
  ASSUME SharedInv, SharedRowsTraceable, NEW w \in Workers, pc[w] = "upload",
         RecordEmission(inflight[w]), UNCHANGED batchEvents,
         ledger' = Uploaded({inflight[w].row}, LivePath(inflight[w].msg))
  PROVE  /\ SharedRowsTraceable'
         /\ ledger' \in [Path -> SUBSET (Row \cup BatchRow)]
<1> DEFINE m == inflight[w].msg
           r == inflight[w].row
<1>1. m \in Messages /\ r \in Row /\ LivePath(m) \in Path
  BY UploadingTyped DEF SharedInv
<1>2. LivePath(m).group = AssetGroupOf[m]
  BY <1>1, LivePathInPath DEF SharedInv, OwnTypeOK
<1>3. \A n \in Messages : emitted[n] \subseteq emitted'[n]
  BY EmissionGrows DEF SharedInv
<1>4. r.event \in emitted'[m]
  BY <1>1 DEF RecordEmission, SharedInv, OwnTypeOK
<1>5. Origin(LivePath(m), r, emitted', batchEvents')
  BY <1>1, <1>2, <1>4 DEF Origin
<1> QED BY <1>1, <1>3, <1>5, UploadTraceable

\* What a backfill uploads, and where to.
LEMMA BatchUpload ==
  ASSUME SharedInv, SharedRowsTraceable, stage = "upload",
         RecordBatch(current.archived, current.row), UNCHANGED emitted,
         ledger' = Uploaded({current.row}, BatchPath(current.archived))
  PROVE  /\ SharedRowsTraceable'
         /\ ledger' \in [Path -> SUBSET (Row \cup BatchRow)]
<1> DEFINE a == current.archived
           r == current.row
<1>1. a \in Archived /\ r \in BatchRow
  BY DEF SharedInv, JobTypeInv, InHand, WellFormed
<1>2. BatchPath(a) \in Path /\ BatchPath(a).group = BatchGroupOf[a]
  BY <1>1, LedgerAssumption, BackfillAssumption
     DEF SharedInv, OwnTypeOK, BatchPath, PathFor, Path
<1>3. /\ \A b \in Archived : batchEvents[b] \subseteq batchEvents'[b]
      /\ r.event \in batchEvents'[a]
  BY <1>1 DEF RecordBatch, SharedInv, JobTypeInv
<1>4. Origin(BatchPath(a), r, emitted', batchEvents')
  BY <1>1, <1>2, <1>3 DEF Origin
<1> QED BY <1>1, <1>2, <1>3, <1>4, UploadTraceable

\* Every step of either keeps a store of such rows, each of them traceable.
LEMMA SharedStep ==
  ASSUME SharedInv, SharedRowsTraceable, [SharedNext]_sharedVars
  PROVE  SharedInv' /\ SharedRowsTraceable'
<1>1. OwnTypeOK' /\ JobInv' /\ JobTypeInv'
  BY Apart, OwnTypeStep, JobStep, JobTypeStep DEF SharedInv
<1> DEFINE Kept == /\ SharedRowsTraceable'
                   /\ ledger' \in [Path -> SUBSET (Row \cup BatchRow)]
<1>2. CASE UNCHANGED <<ledger, emitted, batchEvents>>
  <2>1. Kept
    BY <1>2 DEF SharedInv, SharedRowsTraceable
  <2> QED BY <1>1, <2>1 DEF SharedInv
<1>3. CASE Next /\ UNCHANGED batchVars
  <2>1. UNCHANGED batchEvents
    BY <1>3 DEF batchVars
  <2>2. ASSUME NEW w \in Workers, UploadReturns(w) \/ UploadRaises(w)
        PROVE  Kept \/ UNCHANGED <<ledger, emitted, batchEvents>>
    BY <2>1, <2>2, LiveUpload DEF UploadReturns, UploadRaises, Write, WriteRaises
  <2>3. \/ UNCHANGED <<ledger, emitted>>
        \/ \E w \in Workers : UploadReturns(w) \/ UploadRaises(w)
    BY <1>3 DEF Next, WorkerStep, WorkerFault, Pull, PullRaises, BeginHandle, Skip,
       Acknowledge, AcknowledgeRaises, NothingToAck, Wake, Restart, Crash,
       MtdsPublishes, Lapse, Midnight, NextDay
  <2> QED BY <1>1, <1>2, <2>1, <2>2, <2>3 DEF SharedInv
<1>4. CASE BatchNext /\ UNCHANGED liveVars
  <2>1. UNCHANGED emitted
    BY <1>4 DEF liveVars
  <2>2. CASE BatchUploadReturns \/ BatchUploadRaises
    <3>1. Kept \/ UNCHANGED <<ledger, emitted, batchEvents>>
      BY <2>1, <2>2, BatchUpload DEF BatchUploadReturns, BatchUploadRaises, Write, WriteRaises
    <3> QED BY <1>1, <1>2, <3>1 DEF SharedInv
  <2>3. UNCHANGED <<ledger, batchEvents>> \/ BatchUploadReturns \/ BatchUploadRaises
    BY <1>4 DEF BatchNext, Start, ReadShard, ShardUnreadable, ListingEnds, ListingRaises,
       Returns, SkipRow, HandleRow, ShardDone, BatchCrash
  <2> QED BY <1>2, <2>1, <2>2, <2>3
<1>5. CASE UNCHANGED sharedVars
  BY <1>2, <1>5 DEF sharedVars, vars, batchVars
<1> QED BY <1>3, <1>4, <1>5 DEF SharedNext

\* Whoever uploaded last, live service or backfill, every row in a partition is of
\* an update of its asset_group (PricingLedgerWriter.write, backfill.py:176).
THEOREM SharedTraceable == SharedSpec => []SharedRowsTraceable
<1>1. SharedInit => SharedInv /\ SharedRowsTraceable
  <2>1. SharedInit => OwnTypeOK /\ JobInv /\ JobTypeInv
    BY OwnStart, JobStart, JobTypeStart DEF SharedInit
  <2> QED BY <2>1 DEF SharedInit, Init, LedgerInit, SharedInv, SharedRowsTraceable
<1>2. SharedInv /\ SharedRowsTraceable /\ [SharedNext]_sharedVars
        => (SharedInv /\ SharedRowsTraceable)'
  BY SharedStep
<1> QED BY <1>1, <1>2, PTL DEF SharedSpec
=============================================================================
