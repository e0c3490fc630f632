-------------------------- MODULE LiveService_proofs --------------------------
(***************************************************************************)
(* Proofs about LiveService, for every set of messages and workers, every  *)
(* batch size, and every number of faults and days.                        *)
(***************************************************************************)
EXTENDS LiveService, FiniteSetTheorems, TLAPS

-----------------------------------------------------------------------------
(* The bus *)

\* Every operation of the subscription keeps its state well typed.
LEMMA BusSteps ==
  ASSUME BusTypeOK
  PROVE  /\ \A m \in Messages : Publish(m) => BusTypeOK'
         /\ \A w \in Workers, S \in SUBSET Messages : Deliver(w, S) => BusTypeOK'
         /\ \A S \in SUBSET Messages : Settle(S) => BusTypeOK'
         /\ \A m \in Messages : LeaseLapses(m) => BusTypeOK'
<1>1. ASSUME NEW m \in Messages, Publish(m)
      PROVE  BusTypeOK'
  BY <1>1 DEF BusTypeOK, Publish
<1>2. ASSUME NEW w \in Workers, NEW S \in SUBSET Messages, Deliver(w, S)
      PROVE  BusTypeOK'
  BY <1>2 DEF BusTypeOK, Deliver
<1>3. ASSUME NEW S \in SUBSET Messages, Settle(S)
      PROVE  BusTypeOK'
  BY <1>3 DEF BusTypeOK, Settle
<1>4. ASSUME NEW m \in Messages, LeaseLapses(m)
      PROVE  BusTypeOK'
  BY <1>4 DEF BusTypeOK, LeaseLapses
<1> QED BY <1>1, <1>2, <1>3, <1>4

\* An acknowledgement settles at most the messages it names, whoever calls it.
LEMMA AcknowledgeSettles ==
  ASSUME NEW w \in Workers, NEW S \in SUBSET Messages, AcknowledgeAll(w, S)
  PROVE  \E T \in SUBSET S : Settle(T)
BY DEF AcknowledgeAll, Honoured

-----------------------------------------------------------------------------
(* The ledger *)

\* An upload of rows leaves a well-typed store.
LEMMA UploadedTyped ==
  ASSUME NEW R, ledger \in [Path -> SUBSET R], NEW rows \in SUBSET R, NEW path \in Path
  PROVE  Uploaded(rows, path) \in [Path -> SUBSET R]
BY DEF Uploaded

\* The path of a message's row is a path of the store, under its asset_group.
LEMMA LivePathInPath ==
  ASSUME today \in Days, NEW m \in Messages
  PROVE  LivePath(m) \in Path /\ LivePath(m).group = AssetGroupOf[m]
BY LedgerAssumption, LiveAssumption DEF LivePath, PathFor, Path

-----------------------------------------------------------------------------
(* Type correctness *)

\* All there is of the live service but the ledger, which it may share.
ownVars == <<published, acked, lease, today, pc, todo, inflight, ackIds, idle, emitted, faults>>

OwnTypeOK ==
  /\ BusTypeOK /\ today \in Days
  /\ pc \in [Workers -> {"poll", "dispatch", "upload", "sleep", "down"}]
  /\ todo \in [Workers -> SUBSET Messages]
  /\ inflight \in [Workers -> InFlight \cup {NoRow}]
  /\ \A w \in Workers : /\ pc[w] = "upload" <=> inflight[w] # NoRow
                        /\ pc[w] \notin {"dispatch", "upload"} =>
                             todo[w] = {} /\ ackIds[w] = {}
  /\ ackIds \in [Workers -> SUBSET Messages]
  /\ idle \in [Workers -> 0..IdleCap]
  /\ emitted \in [Messages -> SUBSET EventIds]
  /\ faults \in 0..MaxFaults

\* A worker has a row in its hands, which NoRow is not.
LEMMA RowIsNotNoRow ==
  ASSUME NEW m \in Messages, NEW row \in Row
  PROVE  /\ [msg |-> m, row |-> row] \in InFlight
         /\ [msg |-> m, row |-> row] # NoRow
<1>1. DOMAIN [msg |-> m, row |-> row] = {"msg", "row"}
  OBVIOUS
<1>2. DOMAIN NoRow = {"msg"}
  BY DEF NoRow
<1> QED BY <1>1, <1>2 DEF InFlight

\* What a worker uploads is a row.
LEMMA UploadingTyped ==
  ASSUME OwnTypeOK, NEW w \in Workers, pc[w] = "upload"
  PROVE  /\ inflight[w] \in InFlight
         /\ inflight[w].msg \in Messages
         /\ inflight[w].row \in Row
         /\ LivePath(inflight[w].msg) \in Path
<1>1. inflight[w] \in InFlight
  BY DEF OwnTypeOK
<1> QED BY <1>1, LivePathInPath DEF InFlight, OwnTypeOK

\* The rows handle() may build are rows.
LEMMA RowsForTyped == ASSUME NEW m \in Messages PROVE RowsFor(m) \subseteq Row
BY DEF RowsFor, PricedIn, EventIdsFor, Row, EventIds

\* Every step of the service keeps its state well typed.
LEMMA OwnTypeStep == OwnTypeOK /\ [Next]_ownVars => OwnTypeOK'
<1> SUFFICES ASSUME OwnTypeOK, [Next]_ownVars PROVE OwnTypeOK'
  OBVIOUS
<1> USE LiveAssumption
<1>1. ASSUME NEW w \in Workers, NEW S \in SUBSET Available, Pull(w, S)
      PROVE  OwnTypeOK'
  <2>1. S \in SUBSET Messages
    BY DEF Available, OwnTypeOK, BusTypeOK
  <2>2. BusTypeOK'
    BY <1>1, <2>1, BusSteps DEF Pull, OwnTypeOK
  <2> QED BY <1>1, <2>1, <2>2 DEF Pull, OwnTypeOK
<1>2. ASSUME NEW w \in Workers, NEW S \in SUBSET Available, PullRaises(w, S)
      PROVE  OwnTypeOK'
  <2>1. S \in SUBSET Messages
    BY DEF Available, OwnTypeOK, BusTypeOK
  <2>2. BusTypeOK'
    BY <1>2, <2>1, BusSteps DEF PullRaises, OwnTypeOK
  <2> QED BY <1>2, <2>2 DEF PullRaises, Dies, Fault, OwnTypeOK
<1>3. ASSUME NEW w \in Workers, NEW m \in todo[w], BeginHandle(w, m)
      PROVE  OwnTypeOK'
  <2>1. m \in Messages
    BY DEF OwnTypeOK
  <2>2. PICK row \in Row :
          inflight' = [inflight EXCEPT ![w] = [msg |-> m, row |-> row]]
    BY <1>3, <2>1, RowsForTyped DEF BeginHandle
  <2> QED BY <1>3, <2>1, <2>2, RowIsNotNoRow
          DEF BeginHandle, OwnTypeOK, BusTypeOK
<1>4. ASSUME NEW w \in Workers, NEW m \in todo[w], Skip(w, m)
      PROVE  OwnTypeOK'
  BY <1>4 DEF Skip, OwnTypeOK, BusTypeOK
<1>5. ASSUME NEW w \in Workers, UploadReturns(w)
      PROVE  OwnTypeOK'
  <2>1. pc[w] = "upload"
    BY <1>5 DEF UploadReturns
  <2>2. emitted' \in [Messages -> SUBSET EventIds]
    BY <1>5, <2>1, UploadingTyped DEF UploadReturns, RecordEmission, OwnTypeOK, Row
  <2> QED BY <1>5, <2>1, <2>2, UploadingTyped
          DEF UploadReturns, OwnTypeOK, BusTypeOK
<1>6. ASSUME NEW w \in Workers, UploadRaises(w)
      PROVE  OwnTypeOK'
  <2>1. pc[w] = "upload"
    BY <1>6 DEF UploadRaises
  <2>2. emitted' \in [Messages -> SUBSET EventIds]
    BY <1>6, <2>1, UploadingTyped DEF UploadRaises, RecordEmission, OwnTypeOK, Row
  <2> QED BY <1>6, <2>1, <2>2
          DEF UploadRaises, Fault, OwnTypeOK, BusTypeOK
<1>7. ASSUME NEW w \in Workers, Acknowledge(w)
      PROVE  OwnTypeOK'
  <2>1. PICK T \in SUBSET Messages : Settle(T)
    BY <1>7, AcknowledgeSettles DEF Acknowledge, OwnTypeOK
  <2>2. BusTypeOK'
    BY <2>1, BusSteps DEF OwnTypeOK
  <2> QED BY <1>7, <2>2 DEF Acknowledge, BatchDone, OwnTypeOK
<1>8. ASSUME NEW w \in Workers, AcknowledgeRaises(w)
      PROVE  OwnTypeOK'
  <2>1. PICK T \in SUBSET Messages : Settle(T)
    BY <1>8 DEF AcknowledgeRaises, OwnTypeOK
  <2>2. BusTypeOK'
    BY <2>1, BusSteps DEF OwnTypeOK
  <2> QED BY <1>8, <2>2 DEF AcknowledgeRaises, Dies, Fault, OwnTypeOK
<1>9. ASSUME NEW w \in Workers, NothingToAck(w)
      PROVE  OwnTypeOK'
  BY <1>9 DEF NothingToAck, BatchDone, OwnTypeOK, BusTypeOK
<1>10. ASSUME NEW w \in Workers, Wake(w) \/ Restart(w)
       PROVE  OwnTypeOK'
  BY <1>10 DEF Wake, Restart, OwnTypeOK, BusTypeOK
<1>11. ASSUME NEW w \in Workers, Crash(w)
       PROVE  OwnTypeOK'
  BY <1>11 DEF Crash, Dies, Fault, OwnTypeOK, BusTypeOK
<1>12. ASSUME NEW m \in Messages, MtdsPublishes(m)
       PROVE  OwnTypeOK'
  BY <1>12, BusSteps DEF MtdsPublishes, workerVars, OwnTypeOK
<1>13. ASSUME NEW m \in Messages, Lapse(m)
       PROVE  OwnTypeOK'
  BY <1>13, BusSteps DEF Lapse, Fault, workerVars, OwnTypeOK
<1>14. CASE Midnight
  BY <1>14, LedgerAssumption
     DEF Midnight, NextDay, Days, busVars, workerVars, OwnTypeOK, BusTypeOK
<1>15. CASE UNCHANGED ownVars
  BY <1>15 DEF ownVars, OwnTypeOK, BusTypeOK
<1> QED BY <1>1, <1>2, <1>3, <1>4, <1>5, <1>6, <1>7, <1>8, <1>9, <1>10, <1>11,
           <1>12, <1>13, <1>14, <1>15
        DEF Next, WorkerStep, WorkerFault

\* A step is one whether or not the ledger counts.
LEMMA OwnStep == [Next]_vars => [Next]_ownVars
BY DEF vars, ownVars

\* The store stays one of rows.
LEMMA LedgerStep ==
  ASSUME OwnTypeOK, ledger \in [Path -> SUBSET Row], [Next]_vars
  PROVE  ledger' \in [Path -> SUBSET Row]
<1>1. ASSUME NEW w \in Workers, UploadReturns(w) \/ UploadRaises(w)
      PROVE  ledger' \in [Path -> SUBSET Row]
  <2>1. /\ pc[w] = "upload"
        /\ \/ ledger' = Uploaded({inflight[w].row}, LivePath(inflight[w].msg))
           \/ ledger' = ledger
    BY <1>1 DEF UploadReturns, Write, UploadRaises, WriteRaises
  <2>2. Uploaded({inflight[w].row}, LivePath(inflight[w].msg)) \in [Path -> SUBSET Row]
    BY <2>1, UploadingTyped, UploadedTyped
  <2> QED BY <2>1, <2>2
<1>2. UNCHANGED ledger \/ \E w \in Workers : UploadReturns(w) \/ UploadRaises(w)
  BY DEF Next, WorkerStep, WorkerFault, Pull, PullRaises, BeginHandle, Skip,
     Acknowledge, AcknowledgeRaises, NothingToAck, Wake, Restart, Crash,
     MtdsPublishes, Lapse, Midnight, NextDay, vars
<1> QED BY <1>1, <1>2

LEMMA OwnStart == Init => OwnTypeOK
BY LedgerAssumption, LiveAssumption DEF Init, BusInit, LedgerInit, OwnTypeOK, BusTypeOK, Days

LEMMA OwnTyped == Spec => []OwnTypeOK
BY OwnStart, OwnTypeStep, OwnStep, PTL DEF Spec

\* The state of the live service stays well typed.
THEOREM TypeCorrect == Spec => []TypeOK
<1> DEFINE Typed == OwnTypeOK /\ ledger \in [Path -> SUBSET Row]
<1>1. Init => Typed
  BY OwnStart DEF Init, LedgerInit
<1>2. Typed /\ [Next]_vars => Typed'
  BY OwnTypeStep, OwnStep, LedgerStep
<1>3. Typed => TypeOK
  BY DEF OwnTypeOK, TypeOK, LedgerTypeOK
<1> QED BY <1>1, <1>2, <1>3, PTL DEF Spec

-----------------------------------------------------------------------------
(* What is acknowledged was written *)

\* Workers hold only what was published.
HeldIsPublished ==
  \A w \in Workers :
    /\ todo[w] \subseteq published /\ ackIds[w] \subseteq published
    /\ pc[w] = "upload" => inflight[w].msg \in published

WrittenIsPublished == \A m \in Messages : emitted[m] # {} => m \in published

\* AckedWasWritten is not inductive alone: an acknowledgement settles what the
\* worker has collected, so that must have been written when it was collected.
IndInv == /\ OwnTypeOK
          /\ HeldIsPublished
          /\ WrittenIsPublished
          /\ CollectedWasWritten
          /\ AckedWasWritten

\* Steps that leave emitted, ackIds and acked as they are, or drop ackIds.
LEMMA NothingNewCollected ==
  ASSUME CollectedWasWritten, AckedWasWritten, UNCHANGED <<emitted, acked>>,
         \A w \in Workers : ackIds'[w] \subseteq ackIds[w]
  PROVE  CollectedWasWritten' /\ AckedWasWritten'
BY DEF CollectedWasWritten, AckedWasWritten

\* A settlement of collected messages settles written ones.
LEMMA SettlesWritten ==
  ASSUME NEW w \in Workers, IndInv, NEW S \in SUBSET ackIds[w], Settle(S),
         UNCHANGED emitted, \A v \in Workers : ackIds'[v] \subseteq ackIds[v]
  PROVE  CollectedWasWritten' /\ AckedWasWritten'
BY DEF IndInv, CollectedWasWritten, AckedWasWritten, Settle

\* Recording an emission only adds event ids, at least one for the message.
LEMMA EmissionGrows ==
  ASSUME OwnTypeOK, NEW w \in Workers, pc[w] = "upload", RecordEmission(inflight[w])
  PROVE  /\ \A m \in Messages : emitted[m] \subseteq emitted'[m]
         /\ \A m \in Messages \ {inflight[w].msg} : emitted'[m] = emitted[m]
         /\ emitted'[inflight[w].msg] # {}
BY UploadingTyped DEF OwnTypeOK, RecordEmission

\* Every step keeps the invariant.
LEMMA IndStep == IndInv /\ [Next]_ownVars => IndInv'
<1> SUFFICES ASSUME IndInv, [Next]_ownVars PROVE IndInv'
  OBVIOUS
<1>0. OwnTypeOK /\ OwnTypeOK'
  BY OwnTypeStep DEF IndInv
<1> USE <1>0 DEF IndInv
<1>1. ASSUME NEW w \in Workers, NEW S \in SUBSET Available, Pull(w, S)
      PROVE  IndInv'
  <2>1. HeldIsPublished' /\ WrittenIsPublished'
    BY <1>1 DEF Pull, Deliver, Available, OwnTypeOK, HeldIsPublished, WrittenIsPublished
  <2>2. CollectedWasWritten' /\ AckedWasWritten'
    BY <1>1, NothingNewCollected DEF Pull, Deliver
  <2> QED BY <2>1, <2>2
<1>2. ASSUME NEW w \in Workers, NEW S \in SUBSET Available, PullRaises(w, S)
      PROVE  IndInv'
  <2>1. HeldIsPublished' /\ WrittenIsPublished'
    BY <1>2 DEF PullRaises, Dies, Deliver, OwnTypeOK, HeldIsPublished, WrittenIsPublished
  <2>2. CollectedWasWritten' /\ AckedWasWritten'
    BY <1>2, NothingNewCollected DEF PullRaises, Dies, Deliver, OwnTypeOK
  <2> QED BY <2>1, <2>2
<1>3. ASSUME NEW w \in Workers, NEW m \in todo[w], BeginHandle(w, m)
      PROVE  IndInv'
  <2>1. HeldIsPublished' /\ WrittenIsPublished'
    BY <1>3 DEF BeginHandle, OwnTypeOK, HeldIsPublished, WrittenIsPublished
  <2>2. CollectedWasWritten' /\ AckedWasWritten'
    BY <1>3, NothingNewCollected DEF BeginHandle
  <2> QED BY <2>1, <2>2
<1>4. ASSUME NEW w \in Workers, NEW m \in todo[w], Skip(w, m)
      PROVE  IndInv'
  <2>1. HeldIsPublished' /\ WrittenIsPublished'
    BY <1>4 DEF Skip, OwnTypeOK, HeldIsPublished, WrittenIsPublished
  <2>2. CollectedWasWritten' /\ AckedWasWritten'
    BY <1>4, NothingNewCollected DEF Skip
  <2> QED BY <2>1, <2>2
<1>5. ASSUME NEW w \in Workers, UploadReturns(w)
      PROVE  IndInv'
  <2>1. pc[w] = "upload" /\ RecordEmission(inflight[w])
    BY <1>5 DEF UploadReturns
  <2>2. HeldIsPublished' /\ WrittenIsPublished'
    BY <1>5, <2>1, EmissionGrows, UploadingTyped
       DEF UploadReturns, OwnTypeOK, HeldIsPublished, WrittenIsPublished
  <2>3. CollectedWasWritten' /\ AckedWasWritten'
    BY <1>5, <2>1, EmissionGrows, UploadingTyped
       DEF UploadReturns, OwnTypeOK, BusTypeOK, CollectedWasWritten, AckedWasWritten
  <2> QED BY <2>2, <2>3
<1>6. ASSUME NEW w \in Workers, UploadRaises(w)
      PROVE  IndInv'
  <2>1. /\ pc[w] = "upload"
        /\ RecordEmission(inflight[w]) \/ UNCHANGED emitted
    BY <1>6 DEF UploadRaises
  <2>2. HeldIsPublished' /\ WrittenIsPublished'
    BY <1>6, <2>1, EmissionGrows, UploadingTyped
       DEF UploadRaises, OwnTypeOK, HeldIsPublished, WrittenIsPublished
  <2>3. CollectedWasWritten' /\ AckedWasWritten'
    BY <1>6, <2>1, EmissionGrows, UploadingTyped
       DEF UploadRaises, OwnTypeOK, BusTypeOK, CollectedWasWritten, AckedWasWritten
  <2> QED BY <2>2, <2>3
<1>7. ASSUME NEW w \in Workers, Acknowledge(w)
      PROVE  IndInv'
  <2>1. PICK S \in SUBSET ackIds[w] : Settle(S)
    BY <1>7 DEF Acknowledge, AcknowledgeAll, Honoured
  <2>2. HeldIsPublished' /\ WrittenIsPublished'
    BY <1>7, <2>1 DEF Acknowledge, BatchDone, Settle, OwnTypeOK, HeldIsPublished,
                      WrittenIsPublished
  <2>3. CollectedWasWritten' /\ AckedWasWritten'
    BY <1>7, <2>1, SettlesWritten DEF Acknowledge, OwnTypeOK
  <2> QED BY <2>2, <2>3
<1>8. ASSUME NEW w \in Workers, AcknowledgeRaises(w)
      PROVE  IndInv'
  <2>1. PICK S \in SUBSET ackIds[w] : Settle(S)
    BY <1>8 DEF AcknowledgeRaises
  <2>2. HeldIsPublished' /\ WrittenIsPublished'
    BY <1>8, <2>1 DEF AcknowledgeRaises, Dies, Settle, OwnTypeOK, HeldIsPublished,
                      WrittenIsPublished
  <2>3. CollectedWasWritten' /\ AckedWasWritten'
    BY <1>8, <2>1, SettlesWritten DEF AcknowledgeRaises, Dies, OwnTypeOK
  <2> QED BY <2>2, <2>3
<1>9. ASSUME NEW w \in Workers, NothingToAck(w) \/ Wake(w) \/ Restart(w)
      PROVE  IndInv'
  <2>1. HeldIsPublished' /\ WrittenIsPublished'
    BY <1>9 DEF NothingToAck, Wake, Restart, BatchDone, OwnTypeOK, HeldIsPublished,
                WrittenIsPublished
  <2>2. CollectedWasWritten' /\ AckedWasWritten'
    BY <1>9, NothingNewCollected DEF NothingToAck, Wake, Restart
  <2> QED BY <2>1, <2>2
<1>10. ASSUME NEW w \in Workers, Crash(w)
       PROVE  IndInv'
  <2>1. HeldIsPublished' /\ WrittenIsPublished'
    BY <1>10 DEF Crash, Dies, OwnTypeOK, HeldIsPublished, WrittenIsPublished
  <2>2. CollectedWasWritten' /\ AckedWasWritten'
    BY <1>10, NothingNewCollected DEF Crash, Dies, OwnTypeOK
  <2> QED BY <2>1, <2>2
<1>11. ASSUME NEW m \in Messages, MtdsPublishes(m) \/ Lapse(m)
       PROVE  IndInv'
  <2>1. HeldIsPublished' /\ WrittenIsPublished'
    BY <1>11 DEF MtdsPublishes, Publish, Lapse, LeaseLapses, workerVars,
                 HeldIsPublished, WrittenIsPublished
  <2>2. CollectedWasWritten' /\ AckedWasWritten'
    BY <1>11, NothingNewCollected DEF MtdsPublishes, Publish, Lapse, LeaseLapses, workerVars
  <2> QED BY <2>1, <2>2
<1>12. CASE Midnight \/ UNCHANGED ownVars
  BY <1>12, NothingNewCollected
     DEF Midnight, ownVars, busVars, workerVars, HeldIsPublished, WrittenIsPublished
<1> QED BY <1>1, <1>2, <1>3, <1>4, <1>5, <1>6, <1>7, <1>8, <1>9, <1>10, <1>11, <1>12
        DEF Next, WorkerStep, WorkerFault

LEMMA IndStart == Init => IndInv
BY OwnStart DEF Init, BusInit, IndInv, HeldIsPublished, WrittenIsPublished,
                CollectedWasWritten, AckedWasWritten

\* The invariant holds of every reachable state.
LEMMA Invariance == Spec => []IndInv
BY IndStart, IndStep, OwnStep, PTL DEF Spec

\* No message is settled that was never written, whatever fails and whoever
\* acknowledges (mark_update_sub.py:10).
THEOREM NothingLost == Spec => []AckedWasWritten
BY Invariance, PTL DEF IndInv

\* What a worker is about to acknowledge it has written.
THEOREM CollectedIsWritten == Spec => []CollectedWasWritten
BY Invariance, PTL DEF IndInv

-----------------------------------------------------------------------------
(* The live service implements AtLeastOnce, its liveness aside: Status is the
   refinement mapping, and every step of the service is, under it, a step of
   AtLeastOnce or no step at all. *)

StatusMap == [m \in Messages |-> Status(m)]

\* Steps that change neither what was published, written nor settled.
LEMMA StatusUnchanged ==
  ASSUME UNCHANGED <<published, acked, emitted>>
  PROVE  StatusMap' = StatusMap
BY DEF StatusMap, Status

\* Publishing a message is AtLeastOnce's Publish.
LEMMA PublishImplements ==
  ASSUME IndInv, NEW m \in Messages, Publish(m), UNCHANGED emitted
  PROVE  ALO!Publish(m)
<1>1. Status(m) = "unsent"
  BY DEF IndInv, WrittenIsPublished, AckedWasWritten, Publish, Status
<1>2. \A n \in Messages : Status(n)' = IF n = m THEN "pending" ELSE Status(n)
  BY <1>1 DEF Publish, Status
<1> QED BY <1>1, <1>2 DEF ALO!Publish

\* An upload that took effect is AtLeastOnce's Write, or repeats an earlier one.
LEMMA EmissionImplements ==
  ASSUME IndInv, NEW w \in Workers, pc[w] = "upload", RecordEmission(inflight[w]),
         UNCHANGED <<published, acked>>
  PROVE  (\E m \in Messages : ALO!Write(m)) \/ StatusMap' = StatusMap
<1> DEFINE m == inflight[w].msg
<1>1. m \in Messages /\ m \in published
  BY UploadingTyped DEF IndInv, HeldIsPublished
<1>2. /\ \A n \in Messages \ {m} : emitted'[n] = emitted[n]
      /\ emitted'[m] # {}
  BY EmissionGrows DEF IndInv
<1>3. CASE m \in acked \/ emitted[m] # {}
  <2>1. \A n \in Messages : Status(n)' = Status(n)
    BY <1>1, <1>2, <1>3 DEF Status
  <2> QED BY <2>1 DEF StatusMap
<1>4. CASE ~(m \in acked \/ emitted[m] # {})
  <2>1. Status(m) = "pending"
    BY <1>1, <1>4 DEF Status
  <2>2. \A n \in Messages : Status(n)' = IF n = m THEN "written" ELSE Status(n)
    BY <1>1, <1>2, <1>4 DEF Status
  <2>3. ALO!Write(m)
    BY <1>1, <2>1, <2>2 DEF ALO!Write
  <2> QED BY <1>1, <2>3
<1> QED BY <1>3, <1>4

\* A settlement of collected messages is AtLeastOnce's Settle of the new ones.
LEMMA SettleImplements ==
  ASSUME IndInv, NEW w \in Workers, NEW S \in SUBSET ackIds[w], Settle(S),
         UNCHANGED emitted
  PROVE  ALO!Settle(S \ acked) /\ S \ acked \in SUBSET Messages
<1>1. S \ acked \subseteq Messages
  BY DEF IndInv, OwnTypeOK
<1>2. \A m \in S \ acked : Status(m) = "written"
  BY <1>1 DEF IndInv, CollectedWasWritten, Status
<1>3. \A m \in Messages :
        Status(m)' = IF m \in S \ acked THEN "settled" ELSE Status(m)
  BY DEF Settle, Status
<1> QED BY <1>1, <1>2, <1>3 DEF ALO!Settle

\* Every step of the service is a step of AtLeastOnce or leaves Status as it is.
LEMMA StepImplements ==
  ASSUME IndInv, [Next]_ownVars
  PROVE  ALO!Next \/ StatusMap' = StatusMap
<1>1. ASSUME NEW w \in Workers, UploadReturns(w)
      PROVE  ALO!Next \/ StatusMap' = StatusMap
  <2>1. /\ pc[w] = "upload" /\ RecordEmission(inflight[w])
        /\ UNCHANGED <<published, acked>>
    BY <1>1 DEF UploadReturns
  <2> QED BY <2>1, EmissionImplements DEF ALO!Next
<1>2. ASSUME NEW w \in Workers, UploadRaises(w)
      PROVE  ALO!Next \/ StatusMap' = StatusMap
  <2>1. /\ pc[w] = "upload"
        /\ RecordEmission(inflight[w]) \/ UNCHANGED emitted
        /\ UNCHANGED <<published, acked>>
    BY <1>2 DEF UploadRaises
  <2> QED BY <2>1, EmissionImplements, StatusUnchanged DEF ALO!Next
<1>3. ASSUME NEW w \in Workers, Acknowledge(w) \/ AcknowledgeRaises(w)
      PROVE  ALO!Next
  <2>1. PICK S \in SUBSET ackIds[w] : Settle(S)
    BY <1>3 DEF Acknowledge, AcknowledgeAll, Honoured, AcknowledgeRaises
  <2>2. UNCHANGED emitted
    BY <1>3 DEF Acknowledge, AcknowledgeRaises
  <2> QED BY <2>1, <2>2, SettleImplements DEF ALO!Next
<1>4. ASSUME NEW m \in Messages, MtdsPublishes(m)
      PROVE  ALO!Next
  BY <1>4, PublishImplements DEF MtdsPublishes, ALO!Next
<1>5. ASSUME NEW w \in Workers,
             \/ \E S \in SUBSET Available : Pull(w, S) \/ PullRaises(w, S)
             \/ \E m \in todo[w] : BeginHandle(w, m) \/ Skip(w, m)
             \/ NothingToAck(w) \/ Wake(w) \/ Restart(w) \/ Crash(w)
      PROVE  StatusMap' = StatusMap
  BY <1>5, StatusUnchanged DEF Pull, PullRaises, Deliver, BeginHandle, Skip,
     NothingToAck, Wake, Restart, Crash
<1>6. ASSUME NEW m \in Messages, Lapse(m)
      PROVE  StatusMap' = StatusMap
  BY <1>6, StatusUnchanged DEF Lapse, LeaseLapses
<1>7. CASE Midnight \/ UNCHANGED ownVars
  BY <1>7, StatusUnchanged DEF Midnight, ownVars, busVars
<1> QED BY <1>1, <1>2, <1>3, <1>4, <1>5, <1>6, <1>7 DEF Next, WorkerStep, WorkerFault

\* The live service implements AtLeastOnce: a mark update goes from published to
\* written to settled in that order, and never back.
THEOREM Implements == Spec => ImplementsAtLeastOnce
<1>1. Init => ALO!Init
  BY DEF Init, BusInit, ALO!Init, Status
<1>2. IndInv /\ [Next]_ownVars => [ALO!Next]_StatusMap
  BY StepImplements
<1> QED BY <1>1, <1>2, Invariance, OwnStep, PTL DEF Spec, ImplementsAtLeastOnce, ALO!Spec, StatusMap

-----------------------------------------------------------------------------
(* Rows are traceable *)

\* Uploading the row of m, and recording it, leaves every row traceable.
LEMMA LiveUploadTraceable ==
  ASSUME OwnTypeOK, ledger \in [Path -> SUBSET Row], RowsTraceable, NEW w \in Workers, pc[w] = "upload",
         ledger' = Uploaded({inflight[w].row}, LivePath(inflight[w].msg)),
         RecordEmission(inflight[w])
  PROVE  RowsTraceable'
<1> DEFINE m == inflight[w].msg
           r == inflight[w].row
<1>1. /\ m \in Messages /\ r \in Row
      /\ LivePath(m) \in Path /\ LivePath(m).group = AssetGroupOf[m]
  BY UploadingTyped, LivePathInPath DEF OwnTypeOK
<1>2. \A n \in Messages : emitted[n] \subseteq emitted'[n]
  BY EmissionGrows
<1>3. r.event \in emitted'[m]
  BY <1>1 DEF RecordEmission, OwnTypeOK
<1>4. ledger' = [ledger EXCEPT ![LivePath(m)] = {r}]
  BY DEF Uploaded
<1>5. ASSUME NEW p \in Path, NEW x \in ledger'[p]
      PROVE  \E n \in Messages : AssetGroupOf[n] = p.group /\ x.event \in emitted'[n]
  <2>1. CASE p = LivePath(m)
    <3>1. ledger'[LivePath(m)] = {r}
      BY <1>1, <1>4
    <3>2. x = r
      BY <1>5, <2>1, <3>1
    <3> QED BY <1>1, <1>3, <2>1, <3>2
  <2>2. CASE p # LivePath(m)
    <3>1. x \in ledger[p]
      BY <1>4, <1>5, <2>2
    <3> QED BY <1>2, <3>1 DEF RowsTraceable
  <2> QED BY <2>1, <2>2
<1> QED BY <1>5 DEF RowsTraceable

\* Every row in the ledger is of a message of the partition's asset_group
\* (PricingLedgerWriter.write, called by MarkUpdateHandler.handle).
THEOREM Traceable == Spec => []RowsTraceable
<1>1. Init => RowsTraceable
  BY DEF Init, LedgerInit, RowsTraceable
<1>2. TypeOK /\ RowsTraceable /\ [Next]_vars => RowsTraceable'
  <2> SUFFICES ASSUME TypeOK, RowsTraceable, [Next]_vars PROVE RowsTraceable'
    OBVIOUS
  <2>0. OwnTypeOK /\ ledger \in [Path -> SUBSET Row]
    BY DEF TypeOK, LedgerTypeOK, OwnTypeOK
  <2>1. CASE UNCHANGED <<ledger, emitted>>
    BY <2>1 DEF RowsTraceable
  <2>2. ASSUME NEW w \in Workers, UploadReturns(w)
        PROVE  RowsTraceable'
    BY <2>0, <2>2, LiveUploadTraceable DEF UploadReturns, Write
  <2>3. ASSUME NEW w \in Workers, UploadRaises(w)
        PROVE  RowsTraceable'
    BY <2>0, <2>1, <2>3, LiveUploadTraceable DEF UploadRaises, WriteRaises
  <2>4. \/ UNCHANGED <<ledger, emitted>>
        \/ \E w \in Workers : UploadReturns(w) \/ UploadRaises(w)
    BY DEF Next, WorkerStep, WorkerFault, Pull, PullRaises, BeginHandle, Skip,
       Acknowledge, AcknowledgeRaises, NothingToAck, Wake, Restart, Crash,
       MtdsPublishes, Lapse, Midnight, NextDay, vars
  <2> QED BY <2>1, <2>2, <2>3, <2>4
<1> QED BY <1>1, <1>2, TypeCorrect, PTL DEF Spec

-----------------------------------------------------------------------------
(* At most one more row for each fault *)

\* The messages in a worker's memory.
HeldBy(w) == todo[w] \cup ackIds[w]
             \cup (IF pc[w] = "upload" THEN {inflight[w].msg} ELSE {})

\* The workers that may yet write a row for m without having it delivered again.
Handling(m) == {w \in Workers : m \in todo[w] \/ (pc[w] = "upload" /\ inflight[w].msg = m)}

\* m is to be delivered again: it is not settled, and nobody who could settle it has
\* its lease.
Loose(m) == m \notin acked /\ ~\E w \in Workers : lease[m] = w /\ m \in HeldBy(w)

\* A worker that uploads m will not upload it twice from the same batch.
MemoryOK ==
  \A w \in Workers : pc[w] = "upload" => inflight[w].msg \notin todo[w]

\* The rows m has, and those it may yet get with no further fault, are paid for: one
\* by its publication, the others by the faults there have been.
WithinBudget(m) ==
  /\ IsFiniteSet(emitted[m]) /\ IsFiniteSet(Handling(m))
  /\ Cardinality(emitted[m]) + Cardinality(Handling(m)) + (IF Loose(m) THEN 1 ELSE 0)
       <= 1 + faults

RowsInv == MemoryOK /\ \A m \in Messages : WithinBudget(m)

\* What a set of at most one more, and of at least one less, element counts.
LEMMA Counts ==
  ASSUME NEW S, IsFiniteSet(S), NEW T, NEW x
  PROVE  /\ Cardinality(S) \in Nat
         /\ T \subseteq S => IsFiniteSet(T) /\ Cardinality(T) \in Nat
                             /\ Cardinality(T) <= Cardinality(S)
         /\ T \subseteq S \cup {x} => IsFiniteSet(T) /\ Cardinality(T) \in Nat
                                      /\ Cardinality(T) <= Cardinality(S) + 1
         /\ x \in S /\ T \subseteq S \ {x} => IsFiniteSet(T) /\ Cardinality(T) \in Nat
                                              /\ Cardinality(T) <= Cardinality(S) - 1
<1>1. Cardinality(S) \in Nat
  BY FS_CardinalityType
<1>2. ASSUME T \subseteq S
      PROVE  IsFiniteSet(T) /\ Cardinality(T) \in Nat /\ Cardinality(T) <= Cardinality(S)
  BY <1>2, FS_Subset, FS_CardinalityType
<1>3. ASSUME T \subseteq S \cup {x}
      PROVE  IsFiniteSet(T) /\ Cardinality(T) \in Nat /\ Cardinality(T) <= Cardinality(S) + 1
  <2> DEFINE more == S \cup {x}
  <2>1. IsFiniteSet(more) /\ Cardinality(more) \in Nat /\ Cardinality(more) <= Cardinality(S) + 1
    <3>1. IsFiniteSet(more)
      BY FS_AddElement
    <3>2. Cardinality(more) = IF x \in S THEN Cardinality(S) ELSE Cardinality(S) + 1
      BY FS_AddElement
    <3> HIDE DEF more
    <3> QED BY <1>1, <3>1, <3>2
  <2>2. T \in SUBSET more
    BY <1>3
  <2> HIDE DEF more
  <2>3. IsFiniteSet(T) /\ Cardinality(T) <= Cardinality(more)
    BY <2>1, <2>2, FS_Subset
  <2>4. Cardinality(T) \in Nat
    BY <2>3, FS_CardinalityType
  <2> QED BY <1>1, <2>1, <2>3, <2>4
<1>4. ASSUME x \in S, T \subseteq S \ {x}
      PROVE  IsFiniteSet(T) /\ Cardinality(T) \in Nat /\ Cardinality(T) <= Cardinality(S) - 1
  <2> DEFINE less == S \ {x}
  <2>1. IsFiniteSet(less) /\ Cardinality(less) = Cardinality(S) - 1
    BY <1>4, FS_RemoveElement
  <2>2. T \in SUBSET less
    BY <1>4
  <2> HIDE DEF less
  <2>3. IsFiniteSet(T) /\ Cardinality(T) <= Cardinality(less)
    BY <2>1, <2>2, FS_Subset
  <2>4. Cardinality(T) \in Nat
    BY <2>3, FS_CardinalityType
  <2> QED BY <2>1, <2>3, <2>4
<1> QED BY <1>1, <1>2, <1>3, <1>4

\* The ways a step may spend: nothing; a delivery, of what was loose; giving a message
\* up, which may make it loose; a row, for which a worker ceases to handle it; a fault,
\* which pays for a delivery, and one that loses the answer to an upload besides.
LEMMA Spending ==
  ASSUME NEW m \in Messages, WithinBudget(m), faults \in Nat, faults' \in Nat, NEW e,
         NEW w,
         \/ /\ emitted'[m] = emitted[m] /\ Handling(m)' \subseteq Handling(m)
            /\ Loose(m)' => Loose(m)
            /\ faults' = faults \/ faults' = faults + 1
         \/ /\ emitted'[m] = emitted[m] /\ Handling(m)' \subseteq Handling(m) \cup {w}
            /\ Loose(m) /\ ~Loose(m)'
            /\ faults' = faults
         \/ /\ emitted'[m] = emitted[m]
            /\ w \in Handling(m) /\ Handling(m)' \subseteq Handling(m) \ {w}
            /\ faults' = faults
         \/ /\ emitted'[m] \subseteq emitted[m] \cup {e}
            /\ w \in Handling(m) /\ Handling(m)' \subseteq Handling(m) \ {w}
            /\ Loose(m)' => Loose(m)
            /\ faults' = faults
         \/ /\ emitted'[m] = emitted[m] /\ Handling(m)' \subseteq Handling(m)
            /\ faults' = faults + 1
         \/ /\ emitted'[m] \subseteq emitted[m] \cup {e}
            /\ w \in Handling(m) /\ Handling(m)' \subseteq Handling(m) \ {w}
            /\ faults' = faults + 1
  PROVE  WithinBudget(m)'
<1> DEFINE rows == Cardinality(emitted[m])
           hands == Cardinality(Handling(m))
           rows2 == Cardinality(emitted'[m])
           hands2 == Cardinality(Handling(m)')
<1>1. /\ rows \in Nat /\ hands \in Nat
      /\ rows + hands + (IF Loose(m) THEN 1 ELSE 0) <= 1 + faults
  BY FS_CardinalityType DEF WithinBudget
<1>2. /\ emitted'[m] = emitted[m] => IsFiniteSet(emitted'[m]) /\ rows2 \in Nat /\ rows2 = rows
      /\ emitted'[m] \subseteq emitted[m] \cup {e} =>
           IsFiniteSet(emitted'[m]) /\ rows2 \in Nat /\ rows2 <= rows + 1
  BY <1>1, Counts DEF WithinBudget
<1>3. /\ Handling(m)' \subseteq Handling(m) =>
           IsFiniteSet(Handling(m)') /\ hands2 \in Nat /\ hands2 <= hands
      /\ Handling(m)' \subseteq Handling(m) \cup {w} =>
           IsFiniteSet(Handling(m)') /\ hands2 \in Nat /\ hands2 <= hands + 1
      /\ w \in Handling(m) /\ Handling(m)' \subseteq Handling(m) \ {w} =>
           IsFiniteSet(Handling(m)') /\ hands2 \in Nat /\ hands2 <= hands - 1
  BY Counts DEF WithinBudget
<1>4. IsFiniteSet(emitted'[m]) /\ IsFiniteSet(Handling(m)')
  BY <1>2, <1>3
<1>5. rows2 + hands2 + (IF Loose(m)' THEN 1 ELSE 0) <= 1 + faults'
  <2> HIDE DEF rows, hands, rows2, hands2
  <2> QED BY <1>1, <1>2, <1>3
<1> QED BY <1>4, <1>5 DEF WithinBudget

\* Every step keeps the workers' memory in order.
LEMMA MemoryStep == OwnTypeOK /\ MemoryOK /\ [Next]_ownVars => MemoryOK'
<1> SUFFICES ASSUME OwnTypeOK, MemoryOK, [Next]_ownVars PROVE MemoryOK'
  OBVIOUS
<1>1. ASSUME NEW w \in Workers, WorkerStep(w)
      PROVE  MemoryOK'
  <2>1. ASSUME NEW S \in SUBSET Available, Pull(w, S)
        PROVE  MemoryOK'
    BY <2>1 DEF Pull, OwnTypeOK, MemoryOK
  <2>2. ASSUME NEW m \in todo[w], BeginHandle(w, m)
        PROVE  MemoryOK'
    <3>1. inflight'[w].msg = m /\ m \notin todo'[w] /\ pc'[w] = "upload"
      BY <2>2 DEF BeginHandle, OwnTypeOK
    <3> QED BY <2>2, <3>1 DEF BeginHandle, OwnTypeOK, MemoryOK
  <2>3. ASSUME NEW m \in todo[w], Skip(w, m)
        PROVE  MemoryOK'
    BY <2>3 DEF Skip, OwnTypeOK, MemoryOK
  <2>4. CASE UploadReturns(w)
    BY <2>4 DEF UploadReturns, OwnTypeOK, MemoryOK
  <2>5. CASE Acknowledge(w) \/ NothingToAck(w)
    BY <2>5 DEF Acknowledge, NothingToAck, BatchDone, OwnTypeOK, MemoryOK
  <2>6. CASE Wake(w) \/ Restart(w)
    BY <2>6 DEF Wake, Restart, OwnTypeOK, MemoryOK
  <2> QED BY <1>1, <2>1, <2>2, <2>3, <2>4, <2>5, <2>6 DEF WorkerStep
<1>2. ASSUME NEW w \in Workers, WorkerFault(w)
      PROVE  MemoryOK'
  <2>1. CASE Dies(w)
    BY <2>1 DEF Dies, OwnTypeOK, MemoryOK
  <2>2. CASE UploadRaises(w)
    BY <2>2 DEF UploadRaises, OwnTypeOK, MemoryOK
  <2> QED BY <1>2, <2>1, <2>2 DEF WorkerFault, PullRaises, AcknowledgeRaises, Crash
<1>3. CASE UNCHANGED workerVars
  BY <1>3 DEF workerVars, MemoryOK
<1> QED BY <1>1, <1>2, <1>3 DEF Next, MtdsPublishes, Lapse, Midnight, ownVars, workerVars

\* A message that is loose after a step in which nobody let go of it, and which left
\* its lease, was loose before.
LEMMA StillHeld ==
  ASSUME NEW m \in Messages, acked \subseteq acked', lease'[m] = lease[m],
         \A w \in Workers : lease[m] = w /\ m \in HeldBy(w) => m \in HeldBy(w)'
  PROVE  Loose(m)' => Loose(m)
BY DEF Loose

\* Every step of a worker that does not fail spends within the budget.
LEMMA WorkerSpends ==
  ASSUME OwnTypeOK, RowsInv, NEW w \in Workers, WorkerStep(w), NEW m \in Messages
  PROVE  WithinBudget(m)'
<1>0. /\ faults' = faults /\ faults \in Nat /\ WithinBudget(m)
      /\ acked \subseteq acked' /\ MemoryOK
  BY LiveAssumption DEF WorkerStep, Pull, Deliver, BeginHandle, Skip, UploadReturns,
     Acknowledge, AcknowledgeAll, Settle, NothingToAck, Wake, Restart, OwnTypeOK, RowsInv
<1>1. ASSUME NEW S \in SUBSET Available, Pull(w, S)
      PROVE  WithinBudget(m)'
  <2>1. /\ emitted' = emitted /\ acked' = acked /\ lease'[m] = IF m \in S THEN w ELSE lease[m]
        /\ pc[w] = "poll" /\ pc'[w] = "dispatch" /\ todo[w] = {} /\ todo'[w] = S
        /\ ackIds' = ackIds /\ ackIds[w] = {} /\ inflight' = inflight
        /\ \A v \in Workers \ {w} : pc'[v] = pc[v] /\ todo'[v] = todo[v]
    BY <1>0, <1>1 DEF Pull, Deliver, MemoryOK, OwnTypeOK
  <2>2. CASE m \in S
    <3>1. lease[m] = Nobody /\ lease'[m] = w /\ m \in HeldBy(w)'
      BY <2>1, <2>2 DEF Available, HeldBy
    <3>2. m \notin acked /\ Nobody \notin Workers
      BY <2>2, BusAssumption DEF Available
    <3>3. Loose(m) /\ ~Loose(m)'
      BY <3>1, <3>2 DEF Loose
    <3>4. Handling(m)' \subseteq Handling(m) \cup {w}
      BY <2>1 DEF Handling
    <3> QED BY <1>0, <2>1, <3>3, <3>4, Spending
  <2>3. CASE m \notin S
    <3>1. Handling(m)' \subseteq Handling(m)
      BY <2>1, <2>3 DEF Handling
    <3>2. \A v \in Workers : m \in HeldBy(v) => m \in HeldBy(v)'
      BY <2>1 DEF HeldBy
    <3>3. Loose(m)' => Loose(m)
      BY <1>0, <2>1, <2>3, <3>2, StillHeld
    <3> QED BY <1>0, <2>1, <3>1, <3>3, Spending
  <2> QED BY <2>2, <2>3
<1>2. ASSUME NEW n \in todo[w], BeginHandle(w, n)
      PROVE  WithinBudget(m)'
  <2>1. /\ UNCHANGED <<emitted, acked, lease, ackIds>>
        /\ pc[w] = "dispatch" /\ pc'[w] = "upload" /\ inflight'[w].msg = n
        /\ todo'[w] = todo[w] \ {n}
        /\ \A v \in Workers \ {w} : /\ pc'[v] = pc[v] /\ todo'[v] = todo[v]
                                    /\ inflight'[v] = inflight[v]
    BY <1>2 DEF BeginHandle, OwnTypeOK
  <2>2. Handling(m)' \subseteq Handling(m)
    BY <2>1 DEF Handling
  <2>3. \A v \in Workers : m \in HeldBy(v) => m \in HeldBy(v)'
    BY <2>1 DEF HeldBy
  <2>4. Loose(m)' => Loose(m)
    BY <1>0, <2>1, <2>3, StillHeld
  <2> QED BY <1>0, <2>1, <2>2, <2>4, Spending
<1>3. ASSUME NEW n \in todo[w], Skip(w, n)
      PROVE  WithinBudget(m)'
  <2>1. /\ UNCHANGED <<emitted, acked, lease, ackIds, pc, inflight>>
        /\ pc[w] = "dispatch" /\ todo'[w] = todo[w] \ {n}
        /\ \A v \in Workers \ {w} : todo'[v] = todo[v]
    BY <1>3 DEF Skip, OwnTypeOK
  <2>2. CASE m = n
    <3>1. w \in Handling(m) /\ Handling(m)' \subseteq Handling(m) \ {w}
      BY <2>1, <2>2 DEF Handling
    <3> QED BY <1>0, <2>1, <3>1, Spending
  <2>3. CASE m # n
    <3>1. Handling(m)' \subseteq Handling(m)
      BY <2>1 DEF Handling
    <3>2. \A v \in Workers : m \in HeldBy(v) => m \in HeldBy(v)'
      BY <2>1, <2>3 DEF HeldBy
    <3>3. Loose(m)' => Loose(m)
      BY <1>0, <2>1, <3>2, StillHeld
    <3> QED BY <1>0, <2>1, <3>1, <3>3, Spending
  <2> QED BY <2>2, <2>3
<1>4. CASE UploadReturns(w)
  <2>1. /\ UNCHANGED <<acked, lease, todo>> /\ RecordEmission(inflight[w])
        /\ pc[w] = "upload" /\ pc'[w] = "dispatch"
        /\ ackIds'[w] = ackIds[w] \cup {inflight[w].msg}
        /\ \A v \in Workers \ {w} : /\ pc'[v] = pc[v] /\ ackIds'[v] = ackIds[v]
                                    /\ inflight'[v] = inflight[v]
    BY <1>4 DEF UploadReturns, OwnTypeOK
  <2>2. \A v \in Workers : m \in HeldBy(v) => m \in HeldBy(v)'
    BY <2>1 DEF HeldBy
  <2>3. Loose(m)' => Loose(m)
    BY <1>0, <2>1, <2>2, StillHeld
  <2>4. CASE m = inflight[w].msg
    <3>1. emitted'[m] = emitted[m] \cup {inflight[w].row.event}
      BY <2>1, <2>4 DEF RecordEmission, OwnTypeOK
    <3>2. m \notin todo[w]
      BY <1>0, <2>1, <2>4 DEF MemoryOK
    <3>3. w \in Handling(m) /\ Handling(m)' \subseteq Handling(m) \ {w}
      BY <2>1, <2>4, <3>2 DEF Handling
    <3> QED BY <1>0, <2>3, <3>1, <3>3, Spending
  <2>5. CASE m # inflight[w].msg
    <3>1. emitted'[m] = emitted[m]
      BY <2>1, <2>5 DEF RecordEmission, OwnTypeOK
    <3>2. Handling(m)' \subseteq Handling(m)
      BY <2>1 DEF Handling
    <3> QED BY <1>0, <2>3, <3>1, <3>2, Spending
  <2> QED BY <2>4, <2>5
<1>5. CASE Acknowledge(w)
  <2>1. /\ UNCHANGED <<emitted, todo, inflight>> /\ todo[w] = {}
        /\ pc[w] = "dispatch" /\ pc'[w] = "sleep"
        /\ \A v \in Workers \ {w} : pc'[v] = pc[v] /\ ackIds'[v] = ackIds[v]
    BY <1>5 DEF Acknowledge, BatchDone, OwnTypeOK
  <2>2. PICK late \in SUBSET (ackIds[w] \ Honoured(w, ackIds[w])) :
          Settle(Honoured(w, ackIds[w]) \cup late)
    BY <1>5 DEF Acknowledge, AcknowledgeAll
  <2>3. Handling(m)' \subseteq Handling(m)
    BY <2>1 DEF Handling
  <2>4. Loose(m)' => Loose(m)
    <3>1. CASE m \in acked'
      BY <3>1 DEF Loose
    <3>2. CASE m \notin acked'
      <4>1. m \notin Honoured(w, ackIds[w]) /\ lease'[m] = lease[m]
        BY <2>2, <3>2 DEF Settle
      <4>2. lease[m] = w => m \notin ackIds[w]
        BY <4>1 DEF Honoured
      <4>3. \A v \in Workers : lease[m] = v /\ m \in HeldBy(v) => m \in HeldBy(v)'
        BY <2>1, <4>2 DEF HeldBy
      <4> QED BY <1>0, <4>1, <4>3, StillHeld
    <3> QED BY <3>1, <3>2
  <2> QED BY <1>0, <2>1, <2>3, <2>4, Spending
<1>6. CASE NothingToAck(w) \/ Wake(w) \/ Restart(w)
  <2>1. /\ UNCHANGED <<emitted, acked, lease, todo, inflight, ackIds>>
        /\ pc[w] # "upload" /\ pc'[w] # "upload"
        /\ \A v \in Workers \ {w} : pc'[v] = pc[v]
    BY <1>6 DEF NothingToAck, BatchDone, Wake, Restart, OwnTypeOK
  <2>2. Handling(m)' \subseteq Handling(m)
    BY <2>1 DEF Handling
  <2>3. \A v \in Workers : m \in HeldBy(v) => m \in HeldBy(v)'
    BY <2>1 DEF HeldBy
  <2>4. Loose(m)' => Loose(m)
    BY <1>0, <2>1, <2>3, StillHeld
  <2> QED BY <1>0, <2>1, <2>2, <2>4, Spending
<1> QED BY <1>1, <1>2, <1>3, <1>4, <1>5, <1>6 DEF WorkerStep

\* So does a fault, which adds to the budget.
LEMMA FaultSpends ==
  ASSUME OwnTypeOK, RowsInv, NEW w \in Workers, WorkerFault(w), NEW m \in Messages
  PROVE  WithinBudget(m)'
<1>0. faults' = faults + 1 /\ faults \in Nat /\ faults' \in Nat /\ WithinBudget(m) /\ MemoryOK
  <2>1. faults \in Nat
    BY LiveAssumption DEF OwnTypeOK
  <2>2. faults' = faults + 1
    BY DEF WorkerFault, PullRaises, UploadRaises, AcknowledgeRaises, Crash, Fault
  <2> QED BY <2>1, <2>2 DEF RowsInv
<1>1. CASE Dies(w) /\ UNCHANGED emitted
  <2>1. /\ pc'[w] = "down" /\ todo'[w] = {}
        /\ \A v \in Workers \ {w} : /\ pc'[v] = pc[v] /\ todo'[v] = todo[v]
                                    /\ inflight'[v] = inflight[v]
    BY <1>1 DEF Dies, OwnTypeOK
  <2>2. Handling(m)' \subseteq Handling(m)
    BY <2>1 DEF Handling
  <2> QED BY <1>0, <1>1, <2>2, Spending
<1>2. CASE UploadRaises(w)
  <2>1. /\ pc[w] = "upload" /\ pc'[w] = "dispatch" /\ todo' = todo
        /\ \A v \in Workers \ {w} : pc'[v] = pc[v] /\ inflight'[v] = inflight[v]
        /\ RecordEmission(inflight[w]) \/ UNCHANGED emitted
    BY <1>2 DEF UploadRaises, OwnTypeOK
  <2>2. CASE m = inflight[w].msg
    <3>1. emitted'[m] \subseteq emitted[m] \cup {inflight[w].row.event}
      BY <2>1, <2>2 DEF RecordEmission, OwnTypeOK
    <3>2. m \notin todo[w]
      BY <1>0, <2>1, <2>2 DEF MemoryOK
    <3>3. w \in Handling(m) /\ Handling(m)' \subseteq Handling(m) \ {w}
      BY <2>1, <2>2, <3>2 DEF Handling
    <3> QED BY <1>0, <3>1, <3>3, Spending
  <2>3. CASE m # inflight[w].msg
    <3>1. emitted'[m] = emitted[m]
      BY <2>1, <2>3 DEF RecordEmission, OwnTypeOK
    <3>2. Handling(m)' \subseteq Handling(m)
      BY <2>1 DEF Handling
    <3> QED BY <1>0, <3>1, <3>2, Spending
  <2> QED BY <2>2, <2>3
<1> QED BY <1>1, <1>2 DEF WorkerFault, PullRaises, AcknowledgeRaises, Crash

\* A lease that lapses makes its message loose; its worker held it, and that is a
\* fault, or did not, and it was loose.
LEMMA LapseSpends ==
  ASSUME OwnTypeOK, RowsInv, NEW n \in Messages, Lapse(n), NEW m \in Messages
  PROVE  WithinBudget(m)'
<1>1. /\ UNCHANGED <<emitted, acked, pc, todo, inflight, ackIds>>
      /\ n # m => lease'[m] = lease[m]
      /\ faults' = faults \/ faults' = faults + 1
      /\ Holds(lease[n], n) => faults' = faults + 1
  BY DEF Lapse, LeaseLapses, workerVars, Fault, OwnTypeOK, BusTypeOK
<1>2. faults \in Nat /\ faults' \in Nat /\ WithinBudget(m)
  BY <1>1, LiveAssumption DEF OwnTypeOK, RowsInv
<1>3. Handling(m)' = Handling(m) /\ \A w \in Workers : HeldBy(w)' = HeldBy(w)
  BY <1>1 DEF Handling, HeldBy
<1>4. CASE Holds(lease[n], n)
  BY <1>1, <1>2, <1>3, <1>4, Spending
<1>5. CASE ~Holds(lease[n], n)
  <2>1. m = n => m \notin HeldBy(lease[m])
    BY <1>5 DEF Holds, HeldBy
  <2>2. Loose(m)' => Loose(m)
    BY <1>1, <1>3, <2>1 DEF Loose
  <2> QED BY <1>1, <1>2, <1>3, <2>2, Spending
<1> QED BY <1>4, <1>5

\* Every step keeps RowsInv.
LEMMA RowsStep == OwnTypeOK /\ RowsInv /\ [Next]_ownVars => RowsInv'
<1> SUFFICES ASSUME OwnTypeOK, RowsInv, [Next]_ownVars PROVE RowsInv'
  OBVIOUS
<1>1. MemoryOK'
  BY MemoryStep DEF RowsInv
<1>2. ASSUME NEW m \in Messages
      PROVE  WithinBudget(m)'
  <2>1. ASSUME UNCHANGED <<emitted, acked, lease, pc, todo, inflight, ackIds, faults>>
        PROVE  WithinBudget(m)'
    <3>1. Handling(m)' = Handling(m) /\ Loose(m)' = Loose(m)
      BY <2>1 DEF Handling, Loose, HeldBy
    <3> QED BY <2>1, <3>1 DEF RowsInv, WithinBudget
  <2>2. CASE Midnight \/ UNCHANGED ownVars \/ \E n \in Messages : MtdsPublishes(n)
    BY <2>1, <2>2 DEF Midnight, ownVars, busVars, workerVars, MtdsPublishes, Publish
  <2> QED BY <2>2, WorkerSpends, FaultSpends, LapseSpends DEF Next
<1> QED BY <1>1, <1>2 DEF RowsInv

LEMMA RowsStart == Init => RowsInv
<1> SUFFICES ASSUME Init PROVE RowsInv
  OBVIOUS
<1>1. ASSUME NEW m \in Messages
      PROVE  WithinBudget(m)
  <2>1. Handling(m) = {} /\ emitted[m] = {} /\ faults = 0
    BY DEF Init, Handling
  <2> QED BY <2>1, FS_EmptySet DEF WithinBudget
<1>2. MemoryOK
  BY DEF Init, MemoryOK
<1> QED BY <1>1, <1>2 DEF RowsInv

\* What is within the budget is within the faults there have been.
LEMMA RowsBound == OwnTypeOK /\ RowsInv => OneMoreRowPerFault
<1> SUFFICES ASSUME OwnTypeOK, RowsInv, NEW m \in Messages
             PROVE  Cardinality(emitted[m]) <= 1 + faults
  BY DEF OneMoreRowPerFault
<1>1. Cardinality(emitted[m]) \in Nat /\ Cardinality(Handling(m)) \in Nat /\ faults \in Nat
  BY FS_CardinalityType, LiveAssumption DEF RowsInv, WithinBudget, OwnTypeOK
<1>2. Cardinality(emitted[m]) + Cardinality(Handling(m)) + (IF Loose(m) THEN 1 ELSE 0)
        <= 1 + faults
  BY DEF RowsInv, WithinBudget
<1> QED BY <1>1, <1>2

\* A message gets one row, and at most one more for each crash, failed call or lease
\* that lapsed too early, for any number of workers (pull_and_dispatch acknowledges
\* what it wrote, and all of it).
THEOREM RowPerFault == Spec => []OneMoreRowPerFault
BY RowsStart, RowsStep, RowsBound, OwnTyped, OwnStep, PTL DEF Spec
=============================================================================
