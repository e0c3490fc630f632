---------------------------- MODULE PricingLedger ----------------------------
(***************************************************************************)
(* PricingLedgerWriter (greeks_service/outputs/pricing_ledger_writer.py)   *)
(* and the object store it writes to.  The store maps a path to the rows   *)
(* of the parquet object last uploaded there, {} where there is no object. *)
(* An upload replaces the object: upload_to_storage takes a whole path and *)
(* the whole bytes of the file, and the writer never reads the old ones.   *)
(***************************************************************************)
EXTENDS Naturals

CONSTANTS AssetGroups,  \* asset_group discriminants (cefi, defi, tradfi, ...)
          Suffixes,     \* filename_suffix values in use
          NoSuffix,     \* the default suffix, the empty string
          NoDate,       \* event_date = None
          MaxDay        \* bound: the last UTC day the clock reaches

VARIABLES ledger,       \* path -> rows of the object stored there
          today         \* datetime.now(UTC).date()

ASSUME LedgerAssumption == /\ MaxDay \in Nat
                           /\ NoSuffix \in Suffixes
                           /\ NoDate \notin Nat

Days == 0..MaxDay

\* One object per path: the file name repeats the partition, plus the suffix.
Path == [group : AssetGroups, date : Days, suffix : Suffixes]

LedgerTypeOK(Row) == ledger \in [Path -> SUBSET Row] /\ today \in Days

LedgerInit == /\ ledger = [p \in Path |-> {}]
              /\ today = 0

\* The path write() computes; no event_date means the day of the write.
PathFor(group, eventDate, suffix) ==
  [group  |-> group,
   date   |-> IF eventDate = NoDate THEN today ELSE eventDate,
   suffix |-> suffix]

\* The store once an upload took effect; write() returns early on no rows.
Uploaded(rows, path) ==
  IF rows = {} THEN ledger ELSE [ledger EXCEPT ![path] = rows]

\* write() that returns.
Write(rows, path) == ledger' = Uploaded(rows, path)

\* write() that raises: the upload failed, or was applied and its answer lost.
WriteRaises(rows, path, applied) ==
  ledger' = IF applied THEN Uploaded(rows, path) ELSE ledger

NextDay == /\ today < MaxDay
           /\ today' = today + 1
           /\ UNCHANGED ledger

\* "Appends LedgerRow ... batches to the PricingLedger GCS parquet sink"
\* (pricing_ledger_writer.py:3): no write takes a row out of the ledger.
LedgerAppends == [][\A p \in Path : ledger[p] \subseteq ledger'[p]]_ledger
=============================================================================
