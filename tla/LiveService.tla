----------------------------- MODULE LiveService -----------------------------
(***************************************************************************)
(* greeks-service in live mode: the poll loop of MarkUpdateOperation.run,  *)
(* MarkUpdateSubscriber.pull_and_dispatch and MarkUpdateHandler.handle in  *)
(* each of several worker processes that share the mark-update             *)
(* subscription and the PricingLedger bucket.                              *)
(*                                                                         *)
(* handle() is two steps: one up to the finished row (InstrumentReader.get *)
(* may wait for HTTP there), one for the upload.  Everything a worker      *)
(* keeps is in memory and is lost when its process ends.                   *)
(***************************************************************************)
EXTENDS MarkUpdateBus, PricingLedger

CONSTANTS
  AssetGroupOf,  \* asset_group of each message
  Undecodable,   \* messages decode_mark_update raises on
  NaNVol,        \* implied_volatility is NaN: `iv <= 0` raises if the option is known
  Priceable,     \* options with a usable IV: greeks, if the record can be had
  HasSourceId,   \* messages with a source_event_id
  Uuids,         \* bound: the uuid4 values at hand for the others
  IdleCap,       \* bound: consecutive_empty is counted up to here
  MaxFaults      \* bound: crashes, failed calls and early lease lapses

VARIABLES
  pc,            \* where each worker is in its loop
  todo,          \* messages of the batch the for loop has yet to reach
  inflight,      \* the message in handle() and its row
  ackIds,        \* ack_ids
  idle,          \* consecutive_empty
  emitted,       \* history: event ids of the rows written for each message
  faults         \* faults so far

ASSUME LiveAssumption ==
  /\ AssetGroupOf \in [Messages -> AssetGroups]
  /\ Undecodable \subseteq Messages /\ NaNVol \subseteq Messages
  /\ Priceable \cap NaNVol = {}
  /\ IdleCap \in Nat \ {0}
  /\ MaxFaults \in Nat

workerVars == <<pc, todo, inflight, ackIds, idle>>
vars == <<published, acked, lease, ledger, today,
          pc, todo, inflight, ackIds, idle, emitted, faults>>

EventIds == Messages \cup Uuids
Row == [event : EventIds, priced : BOOLEAN]
InFlight == [msg : Messages, row : Row]
NoRow == [msg |-> Nobody]

Init ==
  /\ BusInit
  /\ LedgerInit
  /\ pc = [w \in Workers |-> "poll"]
  /\ todo = [w \in Workers |-> {}]
  /\ inflight = [w \in Workers |-> NoRow]
  /\ ackIds = [w \in Workers |-> {}]
  /\ idle = [w \in Workers |-> 0]
  /\ emitted = [m \in Messages |-> {}]
  /\ faults = 0

Fault == faults < MaxFaults /\ faults' = faults + 1

\* The process ends; a new one will start with nothing of this one's memory.
Dies(w) ==
  /\ pc' = [pc EXCEPT ![w] = "down"]
  /\ todo' = [todo EXCEPT ![w] = {}]
  /\ inflight' = [inflight EXCEPT ![w] = NoRow]
  /\ ackIds' = [ackIds EXCEPT ![w] = {}]
  /\ idle' = [idle EXCEPT ![w] = 0]

-----------------------------------------------------------------------------
(* pull_and_dispatch *)

\* messages = self._bus.pull(...), possibly none
Pull(w, S) ==
  /\ pc[w] = "poll"
  /\ Deliver(w, S)
  /\ pc' = [pc EXCEPT ![w] = "dispatch"]
  /\ todo' = [todo EXCEPT ![w] = S]
  /\ UNCHANGED <<ledger, today, inflight, ackIds, idle, emitted, faults>>

\* pull raises: nothing catches it, run() and the process end.
PullRaises(w, S) ==
  /\ Fault
  /\ pc[w] = "poll"
  /\ Deliver(w, S)
  /\ Dies(w)
  /\ UNCHANGED <<ledger, today, emitted>>

\* _make_event_id: from the source_event_id, else a uuid no row carries yet.
TakenIds == UNION {emitted[m] : m \in Messages}
            \cup {inflight[w].row.event : w \in {v \in Workers : pc[v] = "upload"}}
EventIdsFor(m) == IF m \in HasSourceId THEN {m} ELSE Uuids \ TakenIds

\* Whether m gets greeks: None for what is not a live option with an IV above 0,
\* and also when the instrument record cannot be had.
PricedIn(m) == IF m \in Priceable THEN BOOLEAN ELSE {FALSE}

\* The rows handle() may build for m.
RowsFor(m) == [event : EventIdsFor(m), priced : PricedIn(m)]

\* decode_mark_update raises, or `iv <= 0` does.
MayRaise == Undecodable \cup NaNVol

\* decode_mark_update, then handle() up to the call of the writer
BeginHandle(w, m) ==
  /\ pc[w] = "dispatch"
  /\ m \in todo[w] \ Undecodable
  /\ \E row \in RowsFor(m) :
       inflight' = [inflight EXCEPT ![w] = [msg |-> m, row |-> row]]
  /\ todo' = [todo EXCEPT ![w] = @ \ {m}]
  /\ pc' = [pc EXCEPT ![w] = "upload"]
  /\ UNCHANGED <<published, acked, lease, ledger, today, ackIds, idle, emitted, faults>>

\* Fault seeded in Skip: the exception escapes the for loop.
SkipEscapes(w, m) ==
  /\ pc[w] = "dispatch"
  /\ m \in todo[w] \cap MayRaise
  /\ Dies(w)
  /\ UNCHANGED <<published, acked, lease, ledger, today, emitted, faults>>

\* Fault seeded in Skip: ack_ids.append moved ahead of the decoding.
SkipAcks(w, m) ==
  /\ pc[w] = "dispatch"
  /\ m \in todo[w] \cap MayRaise
  /\ todo' = [todo EXCEPT ![w] = @ \ {m}]
  /\ ackIds' = [ackIds EXCEPT ![w] = @ \cup {m}]
  /\ UNCHANGED <<published, acked, lease, ledger, today, pc, inflight, idle, emitted, faults>>

\* decode_mark_update or handle() raises before any write: logged, ack withheld
Skip(w, m) ==
  /\ pc[w] = "dispatch"
  /\ m \in todo[w] \cap MayRaise
  /\ todo' = [todo EXCEPT ![w] = @ \ {m}]
  /\ UNCHANGED <<published, acked, lease, ledger, today,
                 pc, inflight, ackIds, idle, emitted, faults>>

\* Fault seeded in LivePath: every row goes to one default asset_group.
LivePathDefaultGroup(m) == PathFor(CHOOSE g \in AssetGroups : TRUE, NoDate, NoSuffix)

\* handle() names the asset_group, and leaves date and suffix to their defaults.
LivePath(m) == PathFor(AssetGroupOf[m], NoDate, NoSuffix)

RecordEmission(fl) ==
  emitted' = [emitted EXCEPT ![fl.msg] = @ \cup {fl.row.event}]

\* self._writer.write([row], msg.asset_group) returns, the message is to be acked
UploadReturns(w) ==
  /\ pc[w] = "upload"
  /\ Write({inflight[w].row}, LivePath(inflight[w].msg))
  /\ RecordEmission(inflight[w])
  /\ ackIds' = [ackIds EXCEPT ![w] = @ \cup {inflight[w].msg}]
  /\ inflight' = [inflight EXCEPT ![w] = NoRow]
  /\ pc' = [pc EXCEPT ![w] = "dispatch"]
  /\ UNCHANGED <<published, acked, lease, today, todo, idle, faults>>

\* Fault seeded in UploadRaises: write() logs the failure and does not re-raise.
UploadSwallowed(w) ==
  /\ Fault
  /\ pc[w] = "upload"
  /\ ackIds' = [ackIds EXCEPT ![w] = @ \cup {inflight[w].msg}]
  /\ inflight' = [inflight EXCEPT ![w] = NoRow]
  /\ pc' = [pc EXCEPT ![w] = "dispatch"]
  /\ UNCHANGED <<published, acked, lease, ledger, today, todo, idle, emitted>>

\* write() logs and re-raises, pull_and_dispatch withholds the ack
UploadRaises(w) ==
  /\ Fault
  /\ pc[w] = "upload"
  /\ \E applied \in BOOLEAN :
       /\ WriteRaises({inflight[w].row}, LivePath(inflight[w].msg), applied)
       /\ IF applied THEN RecordEmission(inflight[w]) ELSE UNCHANGED emitted
  /\ inflight' = [inflight EXCEPT ![w] = NoRow]
  /\ pc' = [pc EXCEPT ![w] = "dispatch"]
  /\ UNCHANGED <<published, acked, lease, today, todo, ackIds, idle>>

BatchDone(w) == pc[w] = "dispatch" /\ todo[w] = {}

\* Fault seeded in Acknowledge: the ids are forgotten, nothing is acknowledged.
AcknowledgeForgotten(w) ==
  /\ BatchDone(w) /\ ackIds[w] # {}
  /\ ackIds' = [ackIds EXCEPT ![w] = {}]
  /\ idle' = [idle EXCEPT ![w] = 0]
  /\ pc' = [pc EXCEPT ![w] = "sleep"]
  /\ UNCHANGED <<busVars, ledger, today, todo, inflight, emitted, faults>>

\* Fault seeded in Acknowledge: ack_ids outlives the batch it was collected in.
AcknowledgeKeepsIds(w) ==
  /\ BatchDone(w) /\ ackIds[w] # {}
  /\ AcknowledgeAll(w, ackIds[w])
  /\ idle' = [idle EXCEPT ![w] = 0]
  /\ pc' = [pc EXCEPT ![w] = "sleep"]
  /\ UNCHANGED <<ledger, today, todo, inflight, ackIds, emitted, faults>>

\* `if ack_ids:` acknowledge; dispatched > 0, so run() resets and sleeps 1 s
Acknowledge(w) ==
  /\ BatchDone(w) /\ ackIds[w] # {}
  /\ AcknowledgeAll(w, ackIds[w])
  /\ ackIds' = [ackIds EXCEPT ![w] = {}]
  /\ idle' = [idle EXCEPT ![w] = 0]
  /\ pc' = [pc EXCEPT ![w] = "sleep"]
  /\ UNCHANGED <<ledger, today, todo, inflight, emitted, faults>>

\* acknowledge raises, having settled some of the batch: the process ends
AcknowledgeRaises(w) ==
  /\ Fault
  /\ BatchDone(w) /\ ackIds[w] # {}
  /\ \E S \in SUBSET ackIds[w] : Settle(S)
  /\ Dies(w)
  /\ UNCHANGED <<ledger, today, emitted>>

\* Nothing dispatched: run() counts an empty poll, also when a batch failed whole.
\* The code counts on, without a cap; the count only sets how long run() sleeps.
NothingToAck(w) ==
  /\ BatchDone(w) /\ ackIds[w] = {}
  /\ idle' = [idle EXCEPT ![w] = IF @ < IdleCap THEN @ + 1 ELSE @]
  /\ pc' = [pc EXCEPT ![w] = "sleep"]
  /\ UNCHANGED <<published, acked, lease, ledger, today,
                 todo, inflight, ackIds, emitted, faults>>

-----------------------------------------------------------------------------
(* run, the process and the environment *)

\* time.sleep returns and the while loop goes round.
Wake(w) ==
  /\ pc[w] = "sleep"
  /\ pc' = [pc EXCEPT ![w] = "poll"]
  /\ UNCHANGED <<published, acked, lease, ledger, today,
                 todo, inflight, ackIds, idle, emitted, faults>>

Crash(w) ==
  /\ Fault
  /\ pc[w] # "down"
  /\ Dies(w)
  /\ UNCHANGED <<published, acked, lease, ledger, today, emitted>>

Restart(w) ==
  /\ pc[w] = "down"
  /\ pc' = [pc EXCEPT ![w] = "poll"]
  /\ UNCHANGED <<published, acked, lease, ledger, today,
                 todo, inflight, ackIds, idle, emitted, faults>>

\* w still has m in memory, to handle or to acknowledge.
Holds(w, m) == m \in todo[w] \cup ackIds[w] \cup {inflight[w].msg}

\* The deadline of a message its worker has dropped always comes; that of one
\* still held comes early only when the worker is slow, which counts as a fault.
Lapse(m) ==
  /\ LeaseLapses(m)
  /\ IF Holds(lease[m], m) THEN Fault ELSE UNCHANGED faults
  /\ UNCHANGED <<ledger, today, workerVars, emitted>>

MtdsPublishes(m) ==
  Publish(m) /\ UNCHANGED <<ledger, today, workerVars, emitted, faults>>

Midnight == NextDay /\ UNCHANGED <<busVars, workerVars, emitted, faults>>

WorkerStep(w) ==
  \/ \E S \in SUBSET Available : Pull(w, S)
  \/ \E m \in todo[w] : BeginHandle(w, m) \/ Skip(w, m)
  \/ UploadReturns(w)
  \/ Acknowledge(w)
  \/ NothingToAck(w)
  \/ Wake(w)
  \/ Restart(w)

WorkerFault(w) ==
  \/ \E S \in SUBSET Available : PullRaises(w, S)
  \/ UploadRaises(w)
  \/ AcknowledgeRaises(w)
  \/ Crash(w)

Next ==
  \/ \E w \in Workers : WorkerStep(w) \/ WorkerFault(w)
  \/ \E m \in Messages : MtdsPublishes(m) \/ Lapse(m)
  \/ Midnight

Spec == Init /\ [][Next]_vars

\* Each worker's loop keeps running and is restarted, a dropped delivery lapses,
\* and the subscription does not pass over an available message for ever.
Fairness ==
  /\ \A w \in Workers : WF_vars(WorkerStep(w))
  /\ \A m \in Messages :
       /\ WF_vars(lease[m] # Nobody /\ ~Holds(lease[m], m) /\ Lapse(m))
       /\ SF_vars(\E w \in Workers, S \in SUBSET Available : m \in S /\ Pull(w, S))

FairSpec == Spec /\ Fairness

-----------------------------------------------------------------------------
(* Properties *)

\* The batch and its ack ids are there while it is dispatched, a row while it is
\* uploaded: nothing of one batch is left when the next is pulled.
TypeOK ==
  /\ BusTypeOK /\ LedgerTypeOK(Row)
  /\ pc \in [Workers -> {"poll", "dispatch", "upload", "sleep", "down"}]
  /\ todo \in [Workers -> SUBSET Messages]
  /\ inflight \in [Workers -> InFlight \cup {NoRow}]
  /\ \A w \in Workers : /\ pc[w] = "upload" <=> inflight[w] # NoRow
                        /\ pc[w] \notin {"dispatch", "upload"} =>
                             todo[w] = {} /\ ackIds[w] = {}
  /\ ackIds \in [Workers -> SUBSET Messages]
  /\ idle \in [Workers -> 0..IdleCap]
  /\ emitted \in [Messages -> SUBSET EventIds]
  /\ faults \in 0..MaxFaults

\* "ack only after callback returns" (mark_update_sub.py:10): a message the
\* subscription will not deliver again has had a row uploaded, whatever crashed.
AckedWasWritten == \A m \in acked : emitted[m] # {}

\* The ack ids a worker has collected are of messages it has written, so that
\* the one acknowledge call at the end of a batch is safe.
CollectedWasWritten == \A w \in Workers : \A m \in ackIds[w] : emitted[m] # {}

\* Every row in a partition of the ledger comes from a message of that
\* asset_group that was handled, whichever worker uploaded it last.
RowsTraceable ==
  \A p \in Path : \A r \in ledger[p] :
    \E m \in Messages : AssetGroupOf[m] = p.group /\ r.event \in emitted[m]

\* A message has one row, and one more for each thing that went wrong at the most:
\* the subscriber acknowledges what it wrote, and all of it, so that only a crash, a
\* failed call or a lease that lapsed too early makes a further row, however many
\* workers hold the message by then, and no fault makes two of one message.
OneMoreRowPerFault == \A m \in Messages : Cardinality(emitted[m]) <= 1 + faults

\* "handler must be idempotent" (mark_update_sub.py:10): handling a redelivered
\* message gives the same event again.
IdempotentHandling == \A m \in Messages : Cardinality(emitted[m]) <= 1

\* Messages whose handling does not raise, and depends on nothing but uploads.
Good == Messages \ MayRaise

\* How the state of the live service reads as that of AtLeastOnce.
Status(m) == IF m \in acked THEN "settled"
             ELSE IF emitted[m] # {} THEN "written"
             ELSE IF m \in published THEN "pending" ELSE "unsent"

ALO == INSTANCE AtLeastOnce WITH status <- [m \in Messages |-> Status(m)],
                                 Reliable <- Good

\* The live service implements AtLeastOnce.
ImplementsAtLeastOnce == ALO!Spec

\* A good message is settled in the end, though messages that always raise come
\* back for ever and take room in every pull, once faults stop.
GoodIsSettled == ALO!EventuallySettled

\* A message that cannot be decoded is never dropped: it is pulled again and again.
PoisonComesBack ==
  \A m \in Undecodable : (m \in published) ~> (\E w \in Workers : m \in todo[w])
=============================================================================
