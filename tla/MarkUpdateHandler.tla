--------------------------- MODULE MarkUpdateHandler ---------------------------
(***************************************************************************)
(* MarkUpdateHandler (greeks_service/handlers/mark_update_handler.py) on   *)
(* top of the instrument reader: one process at a time, live or backfill,  *)
(* handles mark updates while instruments-service (IS) revises its         *)
(* records and stops answering.  A row is what the handler hands to the    *)
(* writer; what becomes of it is in LiveService and Backfill.              *)
(***************************************************************************)
EXTENDS InstrumentReader, MarkUpdateMessage

CONSTANTS
  Updates,  \* the payloads MTDS publishes and archives
  TermsOf,  \* strike, expiry and option_type in each revision of a record
  Uuids     \* what uuid.uuid4() gives, each time another

VARIABLES
  mode,     \* "live" or "batch": what the process was started as
  update,   \* the payload handle() is fetching the instrument of
  row,      \* the last row, and what it was made from, when and by whom
  failedAt  \* history: when IS last failed to answer

Terms == [strike : {None, "zero", "positive"}, expiry : Time \cup {None},
          right : {None, "CALL", "PUT"}]

\* What the kernel makes of them, when it does not give up.
Zero == [spot |-> "zero"]
Priced == [spot : {"positive"}, terms : Terms, yield : Numbers]

ASSUME HandlerAssumption ==
  /\ Updates \subseteq Payload(Keys, Time)
  /\ TermsOf \in [Keys -> [0..MaxRev -> Terms]]
  /\ Absent \notin Updates
  /\ None \notin Terms \cup Priced \cup {Zero}
  /\ \E u, v \in Uuids : u # v

handlerVars == <<mode, update, row, failedAt>>
allVars == <<vars, handlerVars>>

\* The record get() returned, None if IS does not list it or could not be asked.
Instrument(key, record) ==
  IF record # Failed /\ record.listed THEN TermsOf[key][record.rev] ELSE None

\* Fault seeded in LiveOption: the expiry is not compared with the mark's time.
LiveOptionExpiredToo(terms, at) ==
  terms # None /\ None \notin {terms.strike, terms.expiry, terms.right}

\* An option that has not expired at the time of the mark.
LiveOption(terms, at) ==
  /\ terms # None
  /\ None \notin {terms.strike, terms.expiry, terms.right}
  /\ terms.expiry > at

\* kernel.compute: zeros for degenerate inputs and for the exceptions it catches;
\* decimal.Overflow is not one of them, and _compute_greeks makes None of it.
Compute(msg, terms) ==
  CASE msg.vol = "huge" /\ msg.price = "positive" /\ terms.strike = "positive" -> None
    [] msg.price # "positive" \/ terms.strike = "zero" -> Zero
    [] OTHER -> [spot |-> msg.price, terms |-> terms,
                 yield |-> IF msg.rate = None THEN "zero" ELSE msg.rate]

ComputeGreeks(msg, terms) ==
  IF LiveOption(terms, msg.at) /\ msg.vol \notin {None, "zero"}
  THEN Compute(msg, terms) ELSE None

\* `iv <= 0` raises InvalidOperation for NaN, outside of any try.
HandleRaises(msg, terms) == LiveOption(terms, msg.at) /\ msg.vol = "nan"

\* _make_event_id: derived from the source's id, or new in every handling.
EventIds(source) ==
  IF source # "" THEN {source}
  ELSE {id \in Uuids : row # Absent => id # row.columns.event}

\* The columns of a LedgerRow; row_id is derived from event_id, and place stands for
\* venue and for asset_group.
LedgerRow(msg, terms, event) ==
  [event |-> event, parent |-> IF msg.source = "" THEN None ELSE msg.source,
   place |-> msg.place, classified |-> terms # None,
   price |-> msg.price, greeks |-> ComputeGreeks(msg, terms), rate |-> msg.rate]

\* get() has returned record to a handle() that began at `now`.
Emit(raw, record, now) ==
  LET msg == Message(raw, mode)
      terms == Instrument(raw.key, record)
  IN \E event \in EventIds(msg.source) :
       row' = IF HandleRaises(msg, terms) THEN row
              ELSE [raw |-> raw, mode |-> mode, record |-> record, now |-> now,
                    columns |-> LedgerRow(msg, terms, event)]

HandleHit(raw) ==
  /\ ~Rejected(raw, mode)
  /\ GetHit(raw.key)
  /\ Emit(raw, cache[raw.key].record, clock)
  /\ UNCHANGED <<mode, update, failedAt>>

HandleMiss(raw) ==
  /\ ~Rejected(raw, mode)
  /\ GetMiss(raw.key, FALSE)
  /\ update' = raw
  /\ UNCHANGED <<mode, row, failedAt>>

HandleFetched ==
  /\ GetReturns
  /\ Emit(update, answer, call.now)
  /\ update' = Absent
  /\ UNCHANGED <<mode, failedAt>>

Outage == FetchFails /\ failedAt' = clock /\ UNCHANGED <<mode, update, row>>

\* The process ends, and another starts, as a service or as a job, with an empty
\* cache.
Replaced ==
  /\ mode' \in Modes
  /\ cache' = [k \in Keys |-> Absent]
  /\ call' = Absent /\ answer' = Absent /\ update' = Absent
  /\ UNCHANGED <<clock, isVars, result, seen, forgotAt, row, failedAt>>

HandlerInit ==
  /\ Init
  /\ mode \in Modes
  /\ update = Absent /\ row = Absent
  /\ failedAt = 0

HandlerNext ==
  \/ \E raw \in Updates : HandleHit(raw) \/ HandleMiss(raw)
  \/ HandleFetched
  \/ Outage
  \/ Replaced
  \/ (IsAnswers \/ Tick \/ \E k \in Keys : IsChanges(k)) /\ UNCHANGED handlerVars

HandlerSpec == HandlerInit /\ [][HandlerNext]_allVars

-----------------------------------------------------------------------------
(* Properties *)

Columns == [event : SourceIds \cup {"None"} \cup Uuids,
            parent : SourceIds \cup {"None", None},
            place : {"named", "None", ""}, classified : BOOLEAN,
            price : Numbers, rate : Numbers \cup {None},
            greeks : {None, Zero} \cup Priced]
Row == [raw : Updates, mode : Modes, record : Record \cup {Failed}, now : Time,
        columns : Columns]

\* No NaN, nor a price of zero or less, comes from an archive.
ColumnsFit ==
  row.mode = "batch" => row.columns.price \notin {"zero", "nan"} /\ row.columns.rate # "nan"

HandlerTypeOK ==
  /\ TypeOK
  /\ mode \in Modes
  /\ update \in Updates \cup {Absent} /\ (call # Absent <=> update # Absent)
  /\ row \in Row \cup {Absent} /\ (row # Absent => ColumnsFit)
  /\ failedAt \in 0..clock

\* IS would still have answered revision rev of a key, less than ttl_seconds
\* before the row's handling began or later.
Recent(key, rev) == row.now < LastCurrent(key, rev) + Ttl \/ row.now <= LastCurrent(key, rev)

\* "Greeks: None for non-option instruments" (mark_update_handler.py:10): greeks,
\* zeros included, are only given for what IS called an option alive at the time
\* of the mark no longer ago than the TTL, and with the strike, expiry and right
\* it then had, whatever was revised or delisted while the record was on its way.
GreeksOnlyForLiveOptions ==
  row # Absent /\ row.columns.greeks # None =>
    LET raw == row.raw IN
    \E rev \in 0..MaxRev :
      /\ Recent(raw.key, rev)
      /\ TermsOf[raw.key][rev].expiry \notin {None} \cup 0..raw.at
      /\ None \notin {TermsOf[raw.key][rev].strike, TermsOf[raw.key][rev].right}
      /\ row.columns.greeks # Zero => row.columns.greeks.terms = TermsOf[raw.key][rev]

\* A None that a reader of the ledger cannot tell from "not an option"
\* (instrument_reader.py:99) has a cause in this very handling: an outage leaves no
\* trace in the cache, so that a mark with a price and a volatility has its greeks
\* unless IS failed to answer since the handling began, or did not list the option
\* then, or listed it with other terms no longer ago than the TTL.
NoneHasACause ==
  row # Absent /\ row.columns.greeks = None /\ row.raw.vol = "positive" =>
    \/ row.record = Failed /\ row.now <= failedAt
    \/ /\ row.record # Failed /\ ~row.record.listed
       /\ row.now <= LastCurrent(row.raw.key, row.record.rev)
    \/ \E rev \in 0..MaxRev :
         LET terms == TermsOf[row.raw.key][rev] IN
         /\ Recent(row.raw.key, rev)
         /\ \/ None \in {terms.strike, terms.expiry, terms.right}
            \/ terms.expiry <= row.raw.at

SameUpdate == row # Absent /\ row' # Absent /\ row'.raw = row.raw

\* What both adapters take as it is.
Clean(raw) == /\ {raw.price, raw.vol, raw.rate} \cap {"nan", "junk"} = {}
              /\ "null" \notin {raw.source, raw.place}

SameButEvent ==
  LET old == row.columns
      new == row'.columns
  IN /\ new.parent = old.parent /\ new.place = old.place
     /\ new.classified = old.classified /\ new.greeks = old.greeks
     /\ new.price = old.price /\ new.rate = old.rate

\* "Same kernels, same handler, same LedgerRow output" (backfill.py:10) is true of
\* an update without NaN or null text, if its two handlings in sequence get the same
\* record: but for the event id no column tells a service from a job, or a first
\* handling from a redelivery, and the event id does just if MTDS gave the update no
\* id of its own (mark_update_handler.py:209).
SameRecordSameRow ==
  [][row' # row /\ SameUpdate /\ Clean(row.raw) /\ row'.record = row.record
       => /\ SameButEvent
          /\ row'.columns.event = row.columns.event <=> row.raw.source \in SourceIds]_allVars

\* "same LedgerRow output" (backfill.py:10), of a clean update handled live and
\* replayed, IS having answered both times.
BatchIsLive ==
  [][SameUpdate /\ row.mode = "live" /\ row'.mode = "batch"
       /\ Clean(row.raw) /\ Failed \notin {row.record, row'.record}
       => SameButEvent]_allVars
=============================================================================
