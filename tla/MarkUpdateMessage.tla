-------------------------- MODULE MarkUpdateMessage --------------------------
(***************************************************************************)
(* How a mark update becomes a MarkUpdateMessage: decode_mark_update of    *)
(* the live service and _row_to_message of the backfill.  A number is what *)
(* those two and the handler tell apart of it: `zero` is 0 or less,        *)
(* `positive` any other, `tiny` one that is 0.0 when divided by a strike,  *)
(* `huge` one whose square overflows Decimal.  `rate` is any one of the    *)
(* carry rates, dividend_yield among them, and `place` is venue_id or      *)
(* asset_group: they are read alike.                                       *)
(***************************************************************************)
CONSTANTS None,      \* None
          SourceIds  \* source_event_id values of MTDS

Numbers == {"zero", "positive", "tiny", "huge", "nan"}
Fields == Numbers \cup {"null", "junk"}
Modes == {"live", "batch"}

ASSUME MessageAssumption ==
  /\ None \notin Numbers \cup SourceIds \cup {"", "None"}
  /\ SourceIds \cap {"absent", "null", "empty", "None", ""} = {}

\* A payload, or an archived row of the same schema (a missing field is null).
\* price is "junk" for whatever else of it cannot be read, its timestamp too.
\* What overflows for a price or rate, or vanishes for a volatility, is left out.
Payload(Keys, Time) ==
  [key : Keys, at : Time, price : Fields \ {"huge"}, vol : Fields \ {"tiny"},
   rate : Fields \ {"huge"},
   source : SourceIds \cup {"absent", "null", "empty"},
   place : {"named", "absent", "null", "empty"}]

\* Fault seeded in Rejected: live numbers are read as leniently as archived ones.
RejectedLeniently(raw, mode) ==
  raw.price \in IF mode = "live" THEN {"null", "junk"} ELSE {"null", "junk", "nan", "zero"}

\* decode_mark_update raises, _row_to_message returns None.
Rejected(raw, mode) ==
  IF mode = "live"
  THEN \/ raw.price \in {"null", "junk"} \/ "junk" \in {raw.vol, raw.rate}
       \/ raw.place = "absent"
  ELSE raw.price \in {"null", "junk", "nan", "zero"}

\* Fault seeded in Number: `or None` in the batch adapter, for which 0 is absent.
NumberZeroIsAbsent(field, mode) ==
  IF \/ field = "null"
     \/ mode = "batch" /\ field \in {"nan", "junk", "zero"}
  THEN None ELSE field

\* _dec: the batch adapter takes what is no number for absent.
Number(field, mode) ==
  IF \/ field = "null"
     \/ mode = "batch" /\ field \in {"nan", "junk"}
  THEN None ELSE field

\* A text: the live str(...) makes the string "None" of a null, which then passes for
\* "Source event ID from MTDS" (mark_update_sub.py:51), or for a venue; str(... or "")
\* of the batch adapter does not.
Text(field, mode) ==
  CASE field = "null"                -> IF mode = "live" THEN "None" ELSE ""
    [] field \in {"absent", "empty"} -> ""
    [] OTHER                         -> field

\* decode_mark_update and _row_to_message, for a payload they do not reject
Message(raw, mode) ==
  [key |-> raw.key, at |-> raw.at, price |-> raw.price,
   vol |-> Number(raw.vol, mode), rate |-> Number(raw.rate, mode),
   source |-> Text(raw.source, mode), place |-> Text(raw.place, mode)]
=============================================================================
