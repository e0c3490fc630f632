----------------------- MODULE MarkUpdateHandler_proofs -----------------------
(***************************************************************************)
(* Proofs about MarkUpdateHandler, for every set of updates and terms,     *)
(* every TTL, and every history of instruments-service.  They stand on the *)
(* inductive invariant of the reader.                                      *)
(***************************************************************************)
EXTENDS MarkUpdateHandler, InstrumentReader_proofs

-----------------------------------------------------------------------------
(* The conversions *)

\* A payload that is not rejected gives a message whose numbers are numbers.
LEMMA MessageTyped ==
  ASSUME NEW raw \in Updates, NEW m \in Modes, ~Rejected(raw, m)
  PROVE  /\ Message(raw, m).key = raw.key /\ raw.key \in Keys
         /\ Message(raw, m).at = raw.at /\ raw.at \in Time
         /\ Message(raw, m).price = raw.price /\ raw.price \in Numbers
         /\ Message(raw, m).vol \in Numbers \cup {None}
         /\ Message(raw, m).rate \in Numbers \cup {None}
         /\ Message(raw, m).source \in SourceIds \cup {"None", ""}
         /\ Message(raw, m).place \in {"named", "None", ""}
         /\ raw.vol = "positive" => Message(raw, m).vol = "positive"
         /\ m = "batch" => raw.price \notin {"zero", "nan"} /\ Message(raw, m).rate # "nan"
<1> USE HandlerAssumption
<1>1. raw \in Payload(Keys, Time)
  OBVIOUS
<1>2. raw.price \in Numbers
  BY <1>1 DEF Payload, Rejected, Fields, Numbers, Modes
<1>3. /\ Number(raw.vol, m) \in Numbers \cup {None}
      /\ Number(raw.rate, m) \in Numbers \cup {None}
      /\ raw.vol = "positive" => Number(raw.vol, m) = "positive"
      /\ m = "batch" => raw.price \notin {"zero", "nan"} /\ Number(raw.rate, m) # "nan"
  BY <1>1, MessageAssumption DEF Payload, Rejected, Number, Fields, Numbers, Modes
<1>4. /\ Text(raw.source, m) \in SourceIds \cup {"None", ""}
      /\ Text(raw.place, m) \in {"named", "None", ""}
  BY <1>1 DEF Payload, Text
<1> QED BY <1>1, <1>2, <1>3, <1>4 DEF Message, Payload

\* The adapters make the same message of a clean payload.
LEMMA CleanSame ==
  ASSUME NEW raw \in Updates, Clean(raw)
  PROVE  Message(raw, "live") = Message(raw, "batch")
BY DEF Clean, Message, Number, Text

\* What the kernel gives is None, zeros, or the greeks of the option it was given;
\* with a volatility, None is for what is no live option.
LEMMA GreeksTyped ==
  ASSUME NEW msg, msg.price \in Numbers,
         msg.vol \in Numbers \cup {None}, msg.rate \in Numbers \cup {None},
         NEW terms \in Terms \cup {None},
         NEW greeks, greeks = ComputeGreeks(msg, terms)
  PROVE  /\ greeks \in {None, Zero} \cup Priced
         /\ greeks # None => LiveOption(terms, msg.at)
         /\ greeks # None /\ greeks # Zero => greeks.terms = terms
         /\ greeks = None /\ msg.vol = "positive" => ~LiveOption(terms, msg.at)
<1>0. None # Zero /\ None \notin Priced /\ None \notin Numbers
  BY HandlerAssumption, MessageAssumption
<1>1. CASE ~(LiveOption(terms, msg.at) /\ msg.vol \notin {None, "zero"})
  BY <1>0, <1>1 DEF ComputeGreeks, Numbers
<1>2. CASE LiveOption(terms, msg.at) /\ msg.vol \notin {None, "zero"}
  <2>1. greeks = Compute(msg, terms) /\ terms \in Terms
    BY <1>2 DEF ComputeGreeks, LiveOption
  <2>2. CASE msg.vol = "huge" /\ msg.price = "positive" /\ terms.strike = "positive"
    BY <2>1, <2>2 DEF Compute
  <2>3. CASE /\ ~(msg.vol = "huge" /\ msg.price = "positive" /\ terms.strike = "positive")
             /\ msg.price # "positive" \/ terms.strike = "zero"
    <3>1. greeks = Zero
      BY <2>1, <2>3 DEF Compute
    <3> QED BY <1>0, <1>2, <3>1
  <2>4. CASE /\ ~(msg.vol = "huge" /\ msg.price = "positive" /\ terms.strike = "positive")
             /\ ~(msg.price # "positive" \/ terms.strike = "zero")
    <3>1. PICK y \in Numbers :
             greeks = [spot |-> msg.price, terms |-> terms, yield |-> y]
      BY <2>1, <2>4 DEF Compute, Numbers
    <3>2. greeks = [spot |-> "positive", terms |-> terms, yield |-> y]
      BY <2>4, <3>1
    <3>3. greeks \in Priced
      BY <2>1, <3>2 DEF Priced
    <3>4. greeks.terms = terms
      BY <3>2
    <3> QED BY <1>0, <1>2, <3>3, <3>4
  <2> QED BY <2>2, <2>3, <2>4
<1> QED BY <1>1, <1>2

\* What get() returns reads as the terms of an option, or as None.
LEMMA InstrumentTyped ==
  ASSUME NEW k \in Keys, NEW record \in Record \cup {Failed}
  PROVE  Instrument(k, record) \in Terms \cup {None}
BY HandlerAssumption DEF Instrument, Record

-----------------------------------------------------------------------------
(* The invariant *)

\* The last row is what LedgerRow makes of its payload and record.
RowMade ==
  /\ row.columns = LedgerRow(Message(row.raw, row.mode),
                             Instrument(row.raw.key, row.record), row.columns.event)
  /\ row.columns.event \in IF Message(row.raw, row.mode).source = "" THEN Uuids
                            ELSE {Message(row.raw, row.mode).source}
  /\ ~Rejected(row.raw, row.mode)

\* The record of a returned get() was current when BoundedStaleness says, and the
\* same of the record of the last row; a failure in it was noted.
RowSound ==
  row # Absent =>
    /\ RowMade
    /\ row.record = Failed => row.now <= failedAt
    /\ row.record # Failed =>
         /\ row.record.rev <= registry[row.raw.key].rev
         /\ \/ row.now <= LastCurrent(row.raw.key, row.record.rev)
            \/ row.record.listed /\ row.now < LastCurrent(row.raw.key, row.record.rev) + Ttl

\* The payload being handled is the one get() was called for, and is not one the
\* adapter rejects; IS failed to answer it no earlier than it was asked.
HandlingSound ==
  /\ call # Absent => update # Absent /\ call.key = update.key /\ ~Rejected(update, mode)
  /\ answer = Failed => call.now <= failedAt

\* HandlerTypeOK but for ColumnsFit, which RowSound implies.
HandlerTyped ==
  /\ mode \in Modes
  /\ update \in Updates \cup {Absent} /\ (call # Absent <=> update # Absent)
  /\ row \in Row \cup {Absent}
  /\ failedAt \in 0..clock

HandlerInd == IndInv /\ HandlerTyped /\ RowSound /\ HandlingSound

\* Whatever a handler step does to the reader is a step of the reader, or the start
\* of a new process.
LEMMA ReaderSteps ==
  HandlerNext => Next \/ Replaced
<1> SUFFICES ASSUME HandlerNext PROVE Next \/ Replaced
  OBVIOUS
<1>1. ASSUME NEW raw \in Updates, HandleHit(raw) \/ HandleMiss(raw)
      PROVE  Next
  <2>1. raw.key \in Keys
    BY HandlerAssumption DEF Payload
  <2> QED BY <1>1, <2>1 DEF HandleHit, HandleMiss, Next
<1>2. CASE HandleFetched \/ Outage
  BY <1>2 DEF HandleFetched, Outage, Next
<1>3. CASE IsAnswers \/ Tick \/ \E k \in Keys : IsChanges(k)
  BY <1>3 DEF Next
<1> QED BY <1>1, <1>2, <1>3 DEF HandlerNext

\* A new process starts with a sound reader.
LEMMA ReplacedSound ==
  ASSUME IndInv, Replaced PROVE IndInv'
<1> USE ReaderAssumption DEF IndInv
<1>1. UNCHANGED <<clock, isVars, result, seen, forgotAt>>
  BY DEF Replaced
<1>2. TypeOK'
  BY DEF Replaced, TypeOK, isVars
<1>3. CacheFresh' /\ CallFresh'
  BY DEF Replaced, CacheFresh, CallFresh
<1> QED BY <1>1, <1>2, <1>3, SameHistory

\* The reader's invariant is kept.
LEMMA ReaderStep ==
  ASSUME IndInv, [HandlerNext]_allVars PROVE IndInv'
<1>1. CASE Next \/ UNCHANGED vars
  BY <1>1, IndStep
<1>2. CASE Replaced
  BY <1>2, ReplacedSound
<1> QED BY <1>1, <1>2, ReaderSteps DEF allVars

\* In every step IS and the clock move as in the reader's lemmas.
LEMMA Outside ==
  ASSUME [HandlerNext]_allVars
  PROVE  Tick \/ (\E j \in Keys : IsChanges(j)) \/ UNCHANGED <<clock, isVars>>
<1>1. CASE Next
  BY <1>1 DEF Next, GetHit, GetMiss, IsAnswers, FetchFails, GetReturns, Invalidate, ClearCache
<1>2. CASE Replaced \/ UNCHANGED allVars
  BY <1>2 DEF Replaced, allVars, vars, isVars
<1> QED BY <1>1, <1>2, ReaderSteps

\* While a row stays, what was said of it stays true.
LEMMA RowStays ==
  ASSUME HandlerInd, [HandlerNext]_allVars, row' = row, failedAt' \in Nat, failedAt <= failedAt'
  PROVE  RowSound'
<1> SUFFICES ASSUME row # Absent PROVE RowSound'
  BY DEF RowSound
<1>0. row.record # Failed =>
        \/ row.now <= LastCurrent(row.raw.key, row.record.rev)
        \/ row.record.listed /\ row.now < LastCurrent(row.raw.key, row.record.rev) + Ttl
  BY DEF HandlerInd, RowSound
<1>a. RowMade'
  BY DEF HandlerInd, RowSound, RowMade
<1> USE <1>a, ReaderAssumption, HandlerAssumption
<1>1. /\ TypeOK /\ IsHistory /\ row \in Row /\ row.raw.key \in Keys /\ row.now \in Nat
      /\ Ttl \in Nat /\ failedAt \in Nat
  BY DEF HandlerInd, IndInv, HandlerTyped, Row, Payload, Time
<1>2. CASE row.record = Failed
  BY <1>1, <1>2 DEF HandlerInd, RowSound
<1>3. CASE row.record # Failed
  <2>1. /\ row.record \in Record /\ row.record.rev \in 0..MaxRev
        /\ row.record.rev <= registry[row.raw.key].rev
    BY <1>1, <1>3 DEF HandlerInd, RowSound, Row, Record
  <2> DEFINE last == LastCurrent(row.raw.key, row.record.rev)
  <2>2. /\ last <= last' /\ last \in Nat /\ last' \in Nat
        /\ registry[row.raw.key].rev <= registry'[row.raw.key].rev
        /\ registry[row.raw.key].rev \in Nat /\ registry'[row.raw.key].rev \in Nat
        /\ row.record.rev \in Nat
    BY <1>1, <2>1, Outside, HistoryGrows
  <2>3. row.now <= last \/ (row.record.listed /\ row.now < last + Ttl)
    BY <1>0, <1>3
  <2>4. row.now <= last' \/ (row.record.listed /\ row.now < last' + Ttl)
    <3>1. PICK old \in Nat, new \in Nat : old = last /\ new = last' /\ old <= new
      BY <2>2
    <3> HIDE DEF last
    <3>2. row.now <= new \/ (row.record.listed /\ row.now < new + Ttl)
      BY <1>1, <2>3, <3>1
    <3> QED BY <3>1, <3>2
  <2>5. row.record.rev <= registry'[row.raw.key].rev
    BY <2>1, <2>2
  <2> HIDE DEF last
  <2> QED BY <1>3, <2>4, <2>5 DEF HandlerInd, RowSound, LastCurrent, last
<1> QED BY <1>2, <1>3

\* What a returning get() is made into is a sound row, or leaves the last one.
LEMMA EmitSound ==
  ASSUME HandlerInd, [HandlerNext]_allVars,
         NEW raw \in Updates, ~Rejected(raw, mode), UNCHANGED <<mode, failedAt>>,
         NEW record \in Record \cup {Failed}, NEW now \in Time,
         Return(raw.key, record, now), Emit(raw, record, now),
         record = Failed => now <= failedAt
  PROVE  row' \in Row \cup {Absent} /\ RowSound'
<1> USE ReaderAssumption, HandlerAssumption
<1>1. mode \in Modes /\ failedAt \in Nat /\ row \in Row \cup {Absent} /\ raw.key \in Keys
  BY DEF HandlerInd, HandlerTyped, IndInv, TypeOK, Payload, Time
<1> DEFINE msg == Message(raw, mode)
           terms == Instrument(raw.key, record)
<1>2. CASE HandleRaises(msg, terms)
  <2>1. row' = row
    BY <1>2 DEF Emit
  <2> QED BY <1>1, <2>1, RowStays
<1>3. CASE ~HandleRaises(msg, terms)
  <2>1. PICK event \in EventIds(msg.source) :
          row' = [raw |-> raw, mode |-> mode, record |-> record, now |-> now,
                  columns |-> LedgerRow(msg, terms, event)]
    BY <1>3 DEF Emit
  <2>0. /\ event \in IF msg.source = "" THEN Uuids ELSE {msg.source}
        /\ LedgerRow(msg, terms, event).event = event
    <3> HIDE DEF msg, terms
    <3> QED BY DEF EventIds, LedgerRow
  <2>2. LedgerRow(msg, terms, event) \in Columns
    <3>1. /\ msg.price \in Numbers /\ msg.vol \in Numbers \cup {None}
          /\ msg.rate \in Numbers \cup {None}
          /\ msg.source \in SourceIds \cup {"None", ""}
          /\ msg.place \in {"named", "None", ""}
      BY <1>1, MessageTyped
    <3>2. terms \in Terms \cup {None}
      BY <1>1, InstrumentTyped
    <3> HIDE DEF msg, terms
    <3>3. ComputeGreeks(msg, terms) \in {None, Zero} \cup Priced
      BY <3>1, <3>2, GreeksTyped
    <3> QED BY <2>0, <3>1, <3>3 DEF LedgerRow, Columns
  <2>3. row' \in Row
    BY <1>1, <2>1, <2>2 DEF Row
  <2>4. IndInv' /\ result' = [key |-> raw.key, record |-> record, now |-> now]
    BY ReaderStep DEF HandlerInd, Return
  <2>5. record # Failed =>
          /\ record.rev <= registry'[raw.key].rev
          /\ \/ LastCurrent(raw.key, record.rev)' >= now
             \/ record.listed /\ now < LastCurrent(raw.key, record.rev)' + Ttl
    <3>0. [key |-> raw.key, record |-> record, now |-> now] \in Result
      BY <1>1 DEF Result
    <3>1. record # Failed => Answered'
      BY <2>4, <3>0 DEF Answered
    <3> QED BY <2>4, <3>1 DEF IndInv, ResultKnown, BoundedStaleness, LastCurrent
  <2>6. RowMade'
    <3> HIDE DEF msg, terms
    <3>1. row'.columns = LedgerRow(msg, terms, event) /\ row'.columns.event = event
      BY <2>0, <2>1
    <3>2. row'.raw = raw /\ row'.mode = mode /\ row'.record = record
      BY <2>1
    <3> QED BY <2>0, <3>1, <3>2 DEF RowMade, msg, terms
  <2> QED BY <1>1, <2>1, <2>3, <2>5, <2>6 DEF RowSound, LastCurrent
<1> QED BY <1>2, <1>3

\* Every step keeps the invariant.
LEMMA HandlerStep ==
  ASSUME HandlerInd, [HandlerNext]_allVars PROVE HandlerInd'
<1>0. IndInv' /\ IndInv
  BY ReaderStep DEF HandlerInd
<1>1. /\ mode \in Modes /\ update \in Updates \cup {Absent} /\ row \in Row \cup {Absent}
      /\ (call # Absent <=> update # Absent) /\ failedAt \in Nat /\ failedAt <= clock
      /\ clock \in Nat /\ clock' \in Nat /\ clock <= clock'
  <2>1. clock \in Nat /\ clock' \in Nat
    BY <1>0 DEF IndInv, TypeOK, Time
  <2>2. clock <= clock'
    BY <2>1, Outside DEF Tick, IsChanges
  <2> QED BY <2>1, <2>2 DEF HandlerInd, HandlerTyped
<1>2. ASSUME NEW raw \in Updates, HandleHit(raw)
      PROVE  HandlerInd'
  <2>1. raw.key \in Keys /\ cache[raw.key] \in Entry /\ clock \in Time
    <3>1. raw.key \in Keys
      BY HandlerAssumption DEF Payload
    <3> QED BY <1>0, <1>2, <3>1 DEF HandleHit, GetHit, Fresh, FreshAt, IndInv, TypeOK
  <2>2. PICK record \in Record : record = cache[raw.key].record /\ record # Failed
    BY <2>1, ReaderAssumption DEF Entry
  <2>3. row' \in Row \cup {Absent} /\ RowSound'
    BY <1>2, <2>1, <2>2, EmitSound DEF HandleHit, GetHit
  <2>4. HandlingSound' /\ call' = call /\ UNCHANGED <<mode, update, failedAt>>
    BY <1>2 DEF HandlerInd, HandlingSound, HandleHit, GetHit
  <2> QED BY <1>0, <1>1, <2>3, <2>4 DEF HandlerInd, HandlerTyped, IndInv
<1>3. ASSUME NEW raw \in Updates, HandleMiss(raw)
      PROVE  HandlerInd'
  <2>1. /\ call = Absent /\ call' = [key |-> raw.key, now |-> clock] /\ update' = raw
        /\ answer' = answer /\ UNCHANGED <<mode, row, failedAt>>
    BY <1>3 DEF HandleMiss, GetMiss
  <2>2. answer # Failed /\ call' # Absent /\ update' # Absent
    <3>1. raw.key \in Keys /\ clock \in Time
      BY <1>0, HandlerAssumption DEF Payload, IndInv, TypeOK
    <3>2. call' \in Call
      BY <2>1, <3>1 DEF Call
    <3> QED BY <1>0, <2>1, <3>2, ReaderAssumption, HandlerAssumption DEF IndInv, CallFresh
  <2>3. HandlingSound'
    BY <1>3, <2>1, <2>2 DEF HandlingSound, HandleMiss
  <2>4. RowSound'
    BY <1>1, <2>1, RowStays
  <2> QED BY <1>0, <1>1, <2>1, <2>2, <2>3, <2>4 DEF HandlerInd, HandlerTyped, IndInv
<1>4. CASE HandleFetched
  <2>1. /\ call # Absent /\ answer # Absent /\ update \in Updates
        /\ call \in Call /\ answer \in Record \cup {Failed}
        /\ call.key = update.key /\ ~Rejected(update, mode)
        /\ answer = Failed => call.now <= failedAt
    BY <1>0, <1>1, <1>4, AnswerTyped, ReaderAssumption
       DEF HandleFetched, GetReturns, HandlerInd, HandlingSound, IndInv, TypeOK
  <2>2. row' \in Row \cup {Absent} /\ RowSound'
    <3>1. call.now \in Time /\ Return(update.key, answer, call.now)
      BY <1>4, <2>1 DEF Call, HandleFetched, GetReturns
    <3> QED BY <1>4, <2>1, <3>1, EmitSound DEF HandleFetched
  <2>3. /\ call' = Absent /\ answer' = Absent /\ update' = Absent
        /\ UNCHANGED <<mode, failedAt>>
    BY <1>4 DEF HandleFetched, GetReturns
  <2>4. HandlingSound'
    BY <2>3, ReaderAssumption DEF HandlingSound
  <2> QED BY <1>0, <1>1, <2>2, <2>3, <2>4 DEF HandlerInd, HandlerTyped, IndInv
<1>5. CASE Outage
  <2>1. /\ call # Absent /\ call' = call /\ failedAt' = clock /\ clock' = clock
        /\ UNCHANGED <<mode, update, row>>
    BY <1>5 DEF Outage, FetchFails
  <2>2. RowSound'
    BY <1>1, <2>1, RowStays
  <2>3. HandlingSound'
    BY <1>0, <2>1 DEF HandlerInd, HandlingSound, IndInv, CallFresh
  <2> QED BY <1>0, <1>1, <2>1, <2>2, <2>3 DEF HandlerInd, HandlerTyped, IndInv
<1>6. CASE Replaced
  <2>1. /\ mode' \in Modes /\ call' = Absent /\ answer' = Absent /\ update' = Absent
        /\ UNCHANGED <<row, failedAt, clock>>
    BY <1>6 DEF Replaced
  <2>2. RowSound'
    BY <1>1, <2>1, RowStays
  <2>3. HandlingSound'
    BY <2>1, ReaderAssumption DEF HandlingSound
  <2> QED BY <1>0, <1>1, <2>1, <2>2, <2>3 DEF HandlerInd, HandlerTyped, IndInv
<1>7. CASE /\ IsAnswers \/ Tick \/ (\E k \in Keys : IsChanges(k)) \/ UNCHANGED vars
           /\ UNCHANGED handlerVars
  <2>1. UNCHANGED <<mode, update, row, failedAt, call>>
    BY <1>7 DEF handlerVars, IsAnswers, Tick, IsChanges, vars
  <2>2. RowSound'
    BY <1>1, <2>1, RowStays
  <2>3. answer' = answer \/ (answer' = registry[call.key] /\ call # Absent)
    BY <1>7 DEF IsAnswers, Tick, IsChanges, vars
  <2>4. answer' = Failed => answer = Failed
    BY <1>0, <2>3, ReaderAssumption DEF IndInv, TypeOK, Call
  <2>5. HandlingSound'
    BY <2>1, <2>4 DEF HandlerInd, HandlingSound
  <2> QED BY <1>0, <1>1, <2>1, <2>2, <2>5 DEF HandlerInd, HandlerTyped, IndInv
<1> QED BY <1>2, <1>3, <1>4, <1>5, <1>6, <1>7 DEF HandlerNext, allVars

\* It holds initially.
LEMMA HandlerIndInit == HandlerInit => HandlerInd
<1> SUFFICES ASSUME HandlerInit PROVE HandlerInd
  OBVIOUS
<1>1. IndInv
  BY IndInit DEF HandlerInit
<1>2. call = Absent /\ answer = Absent /\ clock = 0
  BY DEF HandlerInit, Init
<1>3. HandlerTyped
  BY <1>1, <1>2 DEF HandlerInit, HandlerTyped, IndInv
<1> QED BY <1>1, <1>2, <1>3, ReaderAssumption
        DEF HandlerInit, HandlerInd, RowSound, HandlingSound

LEMMA HandlerInvariant == HandlerSpec => []HandlerInd
BY HandlerIndInit, HandlerStep, PTL DEF HandlerSpec

-----------------------------------------------------------------------------
(* The properties *)

\* The handler's state stays well typed: what an adapter does not reject becomes a
\* row whose columns are what the ledger's schema allows, and one from an archive has
\* no NaN and no price of zero or less.
THEOREM HandlerTypeCorrect == HandlerSpec => []HandlerTypeOK
<1>1. HandlerInd => HandlerTypeOK
  <2> SUFFICES ASSUME HandlerInd PROVE HandlerTypeOK
    OBVIOUS
  <2>1. ASSUME row # Absent PROVE ColumnsFit
    <3> DEFINE msg == Message(row.raw, row.mode)
               terms == Instrument(row.raw.key, row.record)
    <3>1. /\ row.raw \in Updates /\ row.mode \in Modes /\ ~Rejected(row.raw, row.mode)
          /\ row.columns = LedgerRow(msg, terms, row.columns.event)
      BY <2>1 DEF HandlerInd, HandlerTyped, RowSound, RowMade, Row
    <3>2. row.mode = "batch" => msg.price \notin {"zero", "nan"} /\ msg.rate # "nan"
      BY <3>1, MessageTyped
    <3>3. row.columns.price = msg.price /\ row.columns.rate = msg.rate
      <4> HIDE DEF msg, terms
      <4>1. \A e : /\ LedgerRow(msg, terms, e).price = msg.price
                   /\ LedgerRow(msg, terms, e).rate = msg.rate
        BY DEF LedgerRow
      <4> QED BY <3>1, <4>1
    <3> QED BY <3>2, <3>3 DEF ColumnsFit
  <2> QED BY <2>1 DEF HandlerInd, HandlerTyped, HandlerTypeOK, IndInv
<1> QED BY HandlerInvariant, <1>1, PTL

\* What a row's greeks say of the instrument it was made from.
LEMMA RowGreeks ==
  ASSUME HandlerInd, row # Absent,
         NEW terms, terms = Instrument(row.raw.key, row.record)
  PROVE  LET greeks == row.columns.greeks IN
         /\ row.raw \in Updates /\ row.raw.key \in Keys /\ row.record \in Record \cup {Failed}
         /\ terms \in Terms \cup {None}
         /\ greeks # None => LiveOption(terms, row.raw.at)
         /\ greeks # None /\ greeks # Zero => greeks.terms = terms
         /\ greeks = None /\ row.raw.vol = "positive" => ~LiveOption(terms, row.raw.at)
<1>1. /\ row \in Row /\ row.raw \in Updates /\ row.mode \in Modes
      /\ row.record \in Record \cup {Failed} /\ ~Rejected(row.raw, row.mode)
      /\ row.columns = LedgerRow(Message(row.raw, row.mode), terms, row.columns.event)
  BY DEF HandlerInd, HandlerTyped, RowSound, RowMade, Row
<1>2. terms \in Terms \cup {None} /\ row.raw.key \in Keys
  BY <1>1, InstrumentTyped, HandlerAssumption DEF Payload
<1> DEFINE msg == Message(row.raw, row.mode)
<1>3. /\ msg.price \in Numbers /\ msg.vol \in Numbers \cup {None}
      /\ msg.rate \in Numbers \cup {None} /\ msg.at = row.raw.at
      /\ row.raw.vol = "positive" => msg.vol = "positive"
  BY <1>1, MessageTyped
<1>4. row.columns.greeks = ComputeGreeks(msg, terms)
  <2>1. \A e : LedgerRow(msg, terms, e).greeks = ComputeGreeks(msg, terms)
    BY DEF LedgerRow
  <2> QED BY <1>1, <2>1
<1> HIDE DEF msg
<1> QED BY <1>1, <1>2, <1>3, <1>4, GreeksTyped

\* Greeks are only given for what instruments-service called an option alive at the
\* time of the mark, no longer ago than the TTL.
THEOREM Live == HandlerSpec => []GreeksOnlyForLiveOptions
<1>1. HandlerInd => GreeksOnlyForLiveOptions
  <2> SUFFICES ASSUME HandlerInd, row # Absent, row.columns.greeks # None
               PROVE  GreeksOnlyForLiveOptions
    BY DEF GreeksOnlyForLiveOptions
  <2> DEFINE terms == Instrument(row.raw.key, row.record)
  <2>1. /\ row.raw.key \in Keys /\ row.record \in Record \cup {Failed} /\ terms \in Terms \cup {None}
        /\ row.raw.at \in Time /\ LiveOption(terms, row.raw.at)
        /\ row.columns.greeks # Zero => row.columns.greeks.terms = terms
    <3>1. row.raw \in Updates => row.raw.at \in Time
      BY HandlerAssumption DEF Payload
    <3> QED BY <3>1, RowGreeks
  <2>2. /\ row.record \in Record /\ terms = TermsOf[row.raw.key][row.record.rev]
        /\ Recent(row.raw.key, row.record.rev)
    BY <2>1 DEF Instrument, LiveOption, HandlerInd, RowSound, Recent
  <2>3. terms.expiry \notin {None} \cup 0..row.raw.at /\ None \notin {terms.strike, terms.right}
    <3>1. terms.expiry \in Time /\ terms.expiry > row.raw.at
      BY <2>1 DEF LiveOption, Terms
    <3> QED BY <2>1, <3>1, ReaderAssumption DEF LiveOption, Time
  <2> QED BY <2>1, <2>2, <2>3 DEF GreeksOnlyForLiveOptions, Record
<1> QED BY HandlerInvariant, <1>1, PTL

\* A None is for what instruments-service did not list or listed with other terms,
\* or it failed to answer in this very handling.
THEOREM Caused == HandlerSpec => []NoneHasACause
<1>1. HandlerInd => NoneHasACause
  <2> SUFFICES ASSUME HandlerInd, row # Absent, row.columns.greeks = None,
                      row.raw.vol = "positive"
               PROVE  NoneHasACause
    BY DEF NoneHasACause
  <2> DEFINE terms == Instrument(row.raw.key, row.record)
  <2>1. /\ row.raw.key \in Keys /\ row.record \in Record \cup {Failed} /\ terms \in Terms \cup {None}
        /\ row.raw.at \in Time /\ ~LiveOption(terms, row.raw.at)
    <3>1. row.raw \in Updates => row.raw.at \in Time
      BY HandlerAssumption DEF Payload
    <3> QED BY <3>1, RowGreeks
  <2>2. CASE row.record = Failed
    BY <2>2 DEF HandlerInd, RowSound, NoneHasACause
  <2>3. CASE row.record # Failed /\ ~row.record.listed
    BY <2>3 DEF HandlerInd, RowSound, NoneHasACause
  <2>4. CASE row.record # Failed /\ row.record.listed
    <3>0. row.record.rev \in 0..MaxRev
      BY <2>1, <2>4 DEF Record
    <3>1. /\ row.record.rev \in 0..MaxRev /\ Recent(row.raw.key, row.record.rev)
          /\ terms = TermsOf[row.raw.key][row.record.rev] /\ terms \in Terms
      <4>1. Recent(row.raw.key, row.record.rev)
        BY <2>4 DEF HandlerInd, RowSound, Recent
      <4>2. terms = TermsOf[row.raw.key][row.record.rev]
        BY <2>4 DEF Instrument
      <4>3. TermsOf[row.raw.key][row.record.rev] \in Terms
        BY <2>1, <3>0, HandlerAssumption
      <4> QED BY <3>0, <4>1, <4>2, <4>3
    <3>2. \/ None \in {terms.strike, terms.expiry, terms.right}
          \/ terms.expiry <= row.raw.at
      <4>1. terms # None /\ (terms.expiry \in Time \/ terms.expiry = None)
        BY <3>1, HandlerAssumption DEF Terms
      <4> QED BY <2>1, <4>1 DEF LiveOption, Time
    <3> QED BY <3>1, <3>2 DEF NoneHasACause
  <2> QED BY <2>2, <2>3, <2>4
<1> QED BY HandlerInvariant, <1>1, PTL

\* A step that changes the row makes one, of a new event if the update has no id.
LEMMA RowIsNew ==
  ASSUME HandlerInd, [HandlerNext]_allVars, row' # row, row # Absent,
         row'.columns.event = row.columns.event
  PROVE  Message(row'.raw, row'.mode).source # ""
<1>1. PICK raw \in Updates, record \in Record \cup {Failed}, now \in Time :
        Emit(raw, record, now)
  <2>1. (\E raw \in Updates : HandleHit(raw)) \/ HandleFetched
    BY DEF HandlerNext, HandleMiss, Outage, Replaced, handlerVars, allVars
  <2>2. ASSUME NEW raw \in Updates, HandleHit(raw)
        PROVE  cache[raw.key].record \in Record /\ clock \in Time
    <3>1. raw.key \in Keys
      BY HandlerAssumption DEF Payload
    <3>2. cache[raw.key] \in Entry /\ clock \in Time
      BY <2>2, <3>1 DEF HandleHit, GetHit, Fresh, FreshAt, HandlerInd, IndInv, TypeOK
    <3> QED BY <3>2 DEF Entry
  <2>3. CASE HandleFetched
    <3>1. /\ call \in Call /\ call.now \in Time /\ update \in Updates
          /\ answer \in Record \cup {Failed}
      BY <2>3, AnswerTyped
         DEF HandleFetched, GetReturns, HandlerInd, HandlerTyped, IndInv, TypeOK, Call
    <3> QED BY <2>3, <3>1 DEF HandleFetched
  <2> QED BY <2>1, <2>2, <2>3 DEF HandleHit
<1> DEFINE msg == Message(raw, mode)
           terms == Instrument(raw.key, record)
<1>2. PICK event \in EventIds(msg.source) :
        row' = [raw |-> raw, mode |-> mode, record |-> record, now |-> now,
                columns |-> LedgerRow(msg, terms, event)]
  BY <1>1 DEF Emit
<1>3. row'.columns.event = event /\ row'.raw = raw /\ row'.mode = mode
  <2> HIDE DEF msg, terms
  <2> QED BY <1>2 DEF LedgerRow
<1>4. event \in EventIds("") => event # row.columns.event
  BY DEF EventIds
<1> QED BY <1>2, <1>3, <1>4

\* "Same kernels, same handler, same LedgerRow output" (backfill.py:10): from the same
\* record a clean update makes the same row but for the event id, whoever handles it
\* and however often, and the same event id if MTDS gave it one of its own.
THEOREM SameRow == HandlerSpec => SameRecordSameRow
<1>1. ASSUME HandlerInd, HandlerInd', [HandlerNext]_allVars,
             row' # row, SameUpdate, Clean(row.raw), row'.record = row.record
      PROVE  /\ SameButEvent
             /\ row'.columns.event = row.columns.event <=> row.raw.source \in SourceIds
  <2> DEFINE msg == Message(row.raw, row.mode)
             terms == Instrument(row.raw.key, row.record)
  <2>1. /\ row \in Row /\ row' \in Row
        /\ row.columns = LedgerRow(msg, terms, row.columns.event)
        /\ row'.columns = LedgerRow(Message(row'.raw, row'.mode),
                                    Instrument(row'.raw.key, row'.record), row'.columns.event)
        /\ row.columns.event \in IF msg.source = "" THEN Uuids ELSE {msg.source}
        /\ row'.columns.event \in IF Message(row'.raw, row'.mode).source = "" THEN Uuids
                                  ELSE {Message(row'.raw, row'.mode).source}
    BY <1>1 DEF SameUpdate, HandlerInd, HandlerTyped, RowSound, RowMade
  <2>2. row.raw \in Updates /\ row.mode \in {"live", "batch"} /\ row'.mode \in {"live", "batch"}
    BY <2>1 DEF Row, Modes
  <2>3. Message(row'.raw, row'.mode) = msg
    BY <1>1, <2>2, CleanSame DEF SameUpdate
  <2>4. row'.columns = LedgerRow(msg, terms, row'.columns.event)
    BY <1>1, <2>1, <2>3 DEF SameUpdate
  <2>5. msg.source = "" <=> row.raw.source \notin SourceIds
    <3>1. row.raw.source \in SourceIds \cup {"absent", "empty"}
      BY <1>1, <2>2, HandlerAssumption DEF Clean, Payload
    <3>2. msg.source = Text(row.raw.source, row.mode)
      BY DEF Message
    <3> QED BY <3>1, <3>2, MessageAssumption DEF Text
  <2>6. row'.columns.event = row.columns.event <=> msg.source # ""
    BY <1>1, <2>1, <2>3, RowIsNew DEF SameUpdate
  <2>7. SameButEvent
    <3> HIDE DEF msg, terms
    <3> DEFINE old == LedgerRow(msg, terms, row.columns.event)
               new == LedgerRow(msg, terms, row'.columns.event)
    <3>1. /\ new.parent = old.parent /\ new.place = old.place
          /\ new.classified = old.classified /\ new.greeks = old.greeks
          /\ new.price = old.price /\ new.rate = old.rate
      BY DEF LedgerRow
    <3> QED BY <2>1, <2>4, <3>1 DEF SameButEvent
  <2> QED BY <2>5, <2>6, <2>7
<1>2. HandlerInd /\ [HandlerNext]_allVars =>
        HandlerInd' /\ [row' # row /\ SameUpdate /\ Clean(row.raw) /\ row'.record = row.record
          => /\ SameButEvent
             /\ row'.columns.event = row.columns.event <=> row.raw.source \in SourceIds]_allVars
  BY <1>1, HandlerStep
<1> QED BY HandlerIndInit, <1>2, PTL DEF HandlerSpec, SameRecordSameRow
=============================================================================
