----------------------------- MODULE BatchAndLive -----------------------------
(***************************************************************************)
(* A backfill job beside the live service, on one PricingLedger bucket.    *)
(* They share the writer's path rule, the objects under it and the day.    *)
(***************************************************************************)
EXTENDS LiveService, Backfill

liveVars == <<busVars, workerVars, emitted, faults>>
sharedVars == <<vars, batchVars>>

SharedInit == Init /\ BatchInit

SharedNext ==
  \/ Next /\ UNCHANGED batchVars
  \/ BatchNext /\ UNCHANGED liveVars

SharedSpec == SharedInit /\ [][SharedNext]_sharedVars

\* Every row in a partition comes from a live message or an archived one of that
\* asset_group, whichever of the two uploaded last.
SharedRowsTraceable ==
  \A p \in Path : \A r \in ledger[p] :
    \/ \E m \in Messages : AssetGroupOf[m] = p.group /\ r.event \in emitted[m]
    \/ \E a \in Archived : BatchGroupOf[a] = p.group /\ r.event \in batchEvents[a]

\* "the batch filename_suffix for concurrent write isolation" (backfill.py:11):
\* no step of a backfill takes a row of the live service out of the ledger.
BatchIsolation ==
  [][batchVars' # batchVars =>
       \A p \in Path : \A r \in ledger[p] :
         r.event \in UNION {emitted[m] : m \in Messages} => r \in ledger'[p]]_sharedVars
=============================================================================
