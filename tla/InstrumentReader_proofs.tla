----------------------- MODULE InstrumentReader_proofs -----------------------
(***************************************************************************)
(* Proofs about InstrumentReader, for every set of keys, every TTL, every  *)
(* number of revisions and every horizon of the clock.                     *)
(***************************************************************************)
EXTENDS InstrumentReader, TLAPS

-----------------------------------------------------------------------------
(* Type correctness *)

\* The answer in hand, once it is there, is a record or a failure.
LEMMA AnswerTyped ==
  ASSUME TypeOK, answer # Absent PROVE answer \in Record \cup {Failed}
BY DEF TypeOK

\* Returning keeps result and seen well typed.
LEMMA ReturnTyped ==
  ASSUME TypeOK, NEW k \in Keys, NEW record \in Record \cup {Failed}, NEW now \in Time,
         Return(k, record, now)
  PROVE  result' \in Result /\ seen' \in [Keys -> Seen]
<1>1. CASE record = Failed
  BY <1>1 DEF TypeOK, Return, Result
<1>2. CASE record # Failed
  <2>1. record \in Record /\ record.rev \in 0..MaxRev
    BY <1>2 DEF Record
  <2>2. [rev |-> record.rev, leftFresh |-> ~record.listed /\ FreshAt(k, now)] \in Seen
    BY <2>1 DEF Seen
  <2> QED BY <1>2, <2>1, <2>2 DEF TypeOK, Return, Result
<1> QED BY <1>1, <1>2

\* Every step keeps the state well typed.
LEMMA TypeStep == TypeOK /\ [Next]_vars => TypeOK'
<1> SUFFICES ASSUME TypeOK, [Next]_vars PROVE TypeOK'
  OBVIOUS
<1> USE ReaderAssumption
<1>1. ASSUME NEW k \in Keys, GetHit(k)
      PROVE  TypeOK'
  <2>1. cache[k] \in Entry
    BY <1>1 DEF GetHit, Fresh, FreshAt, TypeOK
  <2>2. result' \in Result /\ seen' \in [Keys -> Seen]
    BY <1>1, <2>1, ReturnTyped DEF GetHit, Entry, TypeOK
  <2> QED BY <1>1, <2>2 DEF GetHit, isVars, TypeOK
<1>2. ASSUME NEW k \in Keys, NEW force \in BOOLEAN, GetMiss(k, force)
      PROVE  TypeOK'
  BY <1>2 DEF GetMiss, isVars, TypeOK, Call
<1>3. CASE IsAnswers
  BY <1>3 DEF IsAnswers, isVars, TypeOK, Call
<1>4. CASE FetchFails
  BY <1>4 DEF FetchFails, isVars, TypeOK
<1>5. CASE GetReturns
  <2>1. call \in Call /\ answer \in Record \cup {Failed}
    BY <1>5, AnswerTyped DEF GetReturns, TypeOK
  <2>2. cache' \in [Keys -> Entry \cup {Absent}]
    BY <1>5, <2>1 DEF GetReturns, Stored, TypeOK, Call, Entry
  <2>3. result' \in Result /\ seen' \in [Keys -> Seen]
    BY <1>5, <2>1, ReturnTyped DEF GetReturns, Call
  <2> QED BY <1>5, <2>2, <2>3 DEF GetReturns, isVars, TypeOK
<1>6. ASSUME NEW k \in Keys, Invalidate(k)
      PROVE  TypeOK'
  BY <1>6 DEF Invalidate, isVars, TypeOK, Record
<1>7. CASE ClearCache
  BY <1>7 DEF ClearCache, isVars, TypeOK, Record
<1>8. ASSUME NEW k \in Keys, IsChanges(k)
      PROVE  TypeOK'
  <2>1. registry[k] \in Record
    BY DEF TypeOK
  <2>2. registry' \in [Keys -> Record]
    BY <1>8, <2>1 DEF IsChanges, TypeOK, Record
  <2>3. supersededAt' \in [Keys -> [0..MaxRev -> Time]]
    BY <1>8, <2>1 DEF IsChanges, TypeOK, Record
  <2> QED BY <1>8, <2>2, <2>3 DEF IsChanges, TypeOK
<1>9. CASE Tick
  BY <1>9 DEF Tick, isVars, TypeOK, Time
<1>10. CASE UNCHANGED vars
  BY <1>10 DEF vars, TypeOK
<1> QED BY <1>1, <1>2, <1>3, <1>4, <1>5, <1>6, <1>7, <1>8, <1>9, <1>10 DEF Next

\* The initial state is well typed.
LEMMA TypeInit == Init => TypeOK
<1> SUFFICES ASSUME Init PROVE TypeOK
  OBVIOUS
<1> USE ReaderAssumption
<1>1. registry \in [Keys -> Record]
  <2>1. \A b \in BOOLEAN : [rev |-> 0, listed |-> b] \in Record
    BY DEF Record
  <2> QED BY <2>1 DEF Init
<1>2. seen \in [Keys -> Seen]
  <2>1. [rev |-> 0, leftFresh |-> FALSE] \in Seen
    BY DEF Seen
  <2> QED BY <2>1 DEF Init
<1> QED BY <1>1, <1>2 DEF Init, TypeOK, Time

\* The state of the reader stays well typed.
THEOREM TypeCorrect == Spec => []TypeOK
BY TypeInit, TypeStep, PTL DEF Spec

-----------------------------------------------------------------------------
(* Freshness *)

\* Record rec of key k was current at time t or later, and is no older than what
\* IS had at the last invalidation.
FreshSince(k, rec, t) ==
  /\ LastCurrent(k, rec.rev) >= t
  /\ rec.rev <= registry[k].rev
  /\ forgotAt[k] <= rec.rev

IsHistory ==
  \A k \in Keys : /\ seen[k].rev <= registry[k].rev
                  /\ forgotAt[k] <= registry[k].rev
                  /\ \A r \in 0..MaxRev : supersededAt[k][r] <= clock

CacheFresh ==
  \A k \in Keys : cache[k] # Absent =>
    /\ cache[k].record.listed
    /\ cache[k].fetchedAt <= clock
    /\ FreshSince(k, cache[k].record, cache[k].fetchedAt)

CallFresh ==
  /\ answer # Absent => call # Absent
  /\ call # Absent => call.now <= clock
  /\ answer \in Record => FreshSince(call.key, answer, call.now)

ResultKnown == Answered => result.record.rev <= registry[result.key].rev

\* BoundedStaleness is not inductive: what is returned comes from the cache or
\* from the answer, which must be known to have been current when it was dated.
IndInv == /\ TypeOK /\ IsHistory /\ CacheFresh /\ CallFresh
          /\ ResultKnown /\ BoundedStaleness

\* IS and the clock only move forward: a revision that was IS's current one at a
\* time stays so.
LEMMA HistoryGrows ==
  ASSUME TypeOK, IsHistory,
         Tick \/ (\E j \in Keys : IsChanges(j)) \/ UNCHANGED <<clock, isVars>>,
         NEW k \in Keys, NEW r \in 0..MaxRev, r <= registry[k].rev
  PROVE  /\ LastCurrent(k, r) <= LastCurrent(k, r)'
         /\ LastCurrent(k, r) \in Nat /\ LastCurrent(k, r)' \in Nat
         /\ registry[k].rev \in Nat /\ registry'[k].rev \in Nat
         /\ registry[k].rev <= registry'[k].rev
<1> USE ReaderAssumption
<1>0. /\ registry[k] \in Record /\ supersededAt[k][r] \in Time /\ clock \in Nat
      /\ supersededAt[k][r] <= clock
  BY DEF TypeOK, IsHistory, Time
<1>1. CASE Tick
  BY <1>0, <1>1 DEF Tick, isVars, LastCurrent, Record, Time
<1>2. ASSUME NEW j \in Keys, IsChanges(j)
      PROVE  /\ LastCurrent(k, r) <= LastCurrent(k, r)'
             /\ LastCurrent(k, r) \in Nat /\ LastCurrent(k, r)' \in Nat
             /\ registry[k].rev \in Nat /\ registry'[k].rev \in Nat
             /\ registry[k].rev <= registry'[k].rev
  <2>1. CASE k # j
    <3>1. registry'[k] = registry[k] /\ supersededAt'[k] = supersededAt[k] /\ clock' = clock
      BY <1>2, <2>1 DEF IsChanges, TypeOK
    <3> QED BY <1>0, <3>1 DEF LastCurrent, Record, Time
  <2>2. CASE k = j
    <3>1. registry'[k].rev = registry[k].rev + 1 /\ clock' = clock
      BY <1>2, <2>2 DEF IsChanges, TypeOK
    <3>2. supersededAt'[k][r] = IF r = registry[k].rev THEN clock ELSE supersededAt[k][r]
      BY <1>2, <2>2 DEF IsChanges, TypeOK
    <3> QED BY <1>0, <3>1, <3>2 DEF LastCurrent, Record, Time
  <2> QED BY <2>1, <2>2
<1>3. CASE UNCHANGED <<clock, isVars>>
  BY <1>0, <1>3 DEF isVars, LastCurrent, Record, Time
<1> QED BY <1>1, <1>2, <1>3

\* What was fresh stays fresh while the clock and IS move and the caller does not.
LEMMA StaysFresh ==
  ASSUME TypeOK, IsHistory,
         Tick \/ (\E j \in Keys : IsChanges(j)) \/ UNCHANGED <<clock, isVars>>,
         UNCHANGED forgotAt,
         NEW k \in Keys, NEW rec \in Record, NEW t \in Time, FreshSince(k, rec, t)
  PROVE  FreshSince(k, rec, t)'
<1>1. rec.rev \in 0..MaxRev /\ rec.rev \in Nat /\ t \in Nat
  BY ReaderAssumption DEF Record, Time
<1>2. /\ LastCurrent(k, rec.rev) <= LastCurrent(k, rec.rev)'
      /\ LastCurrent(k, rec.rev) \in Nat /\ LastCurrent(k, rec.rev)' \in Nat
      /\ registry[k].rev \in Nat /\ registry'[k].rev \in Nat
      /\ registry[k].rev <= registry'[k].rev
  BY <1>1, HistoryGrows DEF FreshSince
<1> QED BY <1>1, <1>2 DEF FreshSince, LastCurrent

\* So does what the last get() returned.
LEMMA StaysBounded ==
  ASSUME TypeOK, IsHistory, BoundedStaleness,
         Tick \/ (\E j \in Keys : IsChanges(j)) \/ UNCHANGED <<clock, isVars>>,
         UNCHANGED result,
         Answered => result.record.rev <= registry[result.key].rev
  PROVE  BoundedStaleness'
<1> SUFFICES ASSUME Answered PROVE BoundedStaleness'
  BY DEF BoundedStaleness, Answered
<1>1. /\ result \in Result /\ result.record \in Record /\ result.key \in Keys
      /\ result.record.rev \in 0..MaxRev /\ result.now \in Nat /\ Ttl \in Nat
  BY ReaderAssumption DEF Answered, TypeOK, Result, Record, Time
<1> DEFINE last == LastCurrent(result.key, result.record.rev)
<1>2. last <= last' /\ last \in Nat /\ last' \in Nat
  BY <1>1, HistoryGrows
<1>3. last >= result.now \/ (result.record.listed /\ result.now < last + Ttl)
  BY DEF BoundedStaleness
<1>4. last' >= result.now \/ (result.record.listed /\ result.now < last' + Ttl)
  BY <1>1, <1>2, <1>3
<1> QED BY <1>4 DEF BoundedStaleness, LastCurrent

\* get(k) returns: nothing IS said becomes less fresh by it.
LEMMA ReturnKeepsFresh ==
  ASSUME TypeOK, IsHistory,
         NEW k \in Keys, NEW record \in Record \cup {Failed}, NEW now \in Time,
         Return(k, record, now), UNCHANGED <<clock, isVars, forgotAt>>,
         record \in Record => record.rev <= registry[k].rev
  PROVE  /\ IsHistory'
         /\ ResultKnown'
         /\ \A j \in Keys : \A rec, t : FreshSince(j, rec, t)' <=> FreshSince(j, rec, t)
<1>1. ResultKnown'
  BY ReaderAssumption DEF Return, ResultKnown, Answered, isVars
<1>2. \A j \in Keys : seen'[j].rev <= registry[j].rev
  BY ReaderAssumption DEF Return, TypeOK, IsHistory, Seen
<1> QED BY <1>1, <1>2 DEF IsHistory, FreshSince, LastCurrent, isVars

\* What is fresh when it is returned meets the bound.
LEMMA ReturnBounded ==
  ASSUME TypeOK, NEW k \in Keys, NEW record \in Record \cup {Failed}, NEW now \in Time,
         Return(k, record, now), UNCHANGED <<clock, isVars>>,
         \/ record = Failed
         \/ LastCurrent(k, record.rev) >= now
         \/ record.listed /\ now < LastCurrent(k, record.rev) + Ttl
  PROVE  BoundedStaleness'
<1> SUFFICES ASSUME Answered' PROVE BoundedStaleness'
  BY DEF BoundedStaleness, Answered
<1>1. result' = [key |-> k, record |-> record, now |-> now] /\ record \in Record
  BY DEF Return, Answered
<1>2. record # Failed
  BY <1>1, ReaderAssumption
<1> QED BY <1>1, <1>2 DEF BoundedStaleness, LastCurrent, isVars


\* The steps of IS and of the clock keep the invariant.
LEMMA OutsideStep ==
  ASSUME IndInv, Tick \/ (\E j \in Keys : IsChanges(j)),
         UNCHANGED <<cache, call, answer, result, seen, forgotAt>>
  PROVE  /\ IsHistory' /\ CacheFresh' /\ CallFresh'
         /\ ResultKnown' /\ BoundedStaleness'
<1> USE ReaderAssumption DEF IndInv
<1>0. clock <= clock' /\ clock \in Nat /\ clock' \in Nat
  BY DEF Tick, IsChanges, TypeOK, Time
<1>1. \A k \in Keys : /\ registry[k].rev <= registry'[k].rev
                      /\ registry[k].rev \in Nat /\ registry'[k].rev \in Nat
                      /\ seen[k].rev \in Nat /\ forgotAt[k] \in Nat
  <2>1. 0 \in 0..MaxRev /\ \A k \in Keys : registry[k].rev \in 0..MaxRev
    BY DEF TypeOK, Record
  <2>2. \A k \in Keys : seen[k].rev \in Nat
    BY DEF TypeOK, Seen
  <2> QED BY <2>1, <2>2, HistoryGrows DEF TypeOK
<1>2. IsHistory'
  <2>1. ASSUME NEW k \in Keys, NEW r \in 0..MaxRev
        PROVE  supersededAt'[k][r] <= clock'
    <3>1. supersededAt[k][r] <= clock /\ supersededAt[k][r] \in Nat
      BY DEF IsHistory, TypeOK, Time
    <3>2. supersededAt'[k][r] = supersededAt[k][r] \/ supersededAt'[k][r] = clock
      <4>1. CASE Tick
        BY <4>1 DEF Tick, isVars
      <4>2. ASSUME NEW j \in Keys, IsChanges(j)
            PROVE  supersededAt'[k][r] = supersededAt[k][r] \/ supersededAt'[k][r] = clock
        <5>1. CASE j = k
          BY <4>2, <5>1 DEF IsChanges, TypeOK
        <5>2. CASE j # k
          BY <4>2, <5>2 DEF IsChanges, TypeOK
        <5> QED BY <5>1, <5>2
      <4> QED BY <4>1, <4>2
    <3> QED BY <1>0, <3>1, <3>2
  <2> QED BY <1>1, <2>1 DEF IsHistory
<1>3. CacheFresh'
  <2>1. ASSUME NEW k \in Keys, cache[k] # Absent
        PROVE  /\ cache[k].record.listed /\ cache[k].fetchedAt <= clock'
               /\ FreshSince(k, cache[k].record, cache[k].fetchedAt)'
    <3>1. cache[k].record \in Record /\ cache[k].fetchedAt \in Time
      BY <2>1 DEF TypeOK, Entry
    <3>2. /\ cache[k].record.listed /\ cache[k].fetchedAt <= clock
          /\ FreshSince(k, cache[k].record, cache[k].fetchedAt)
      BY <2>1 DEF CacheFresh
    <3>3. FreshSince(k, cache[k].record, cache[k].fetchedAt)'
      BY <3>1, <3>2, StaysFresh DEF FreshSince, LastCurrent
    <3> QED BY <1>0, <3>1, <3>2, <3>3 DEF Time
  <2> QED BY <2>1 DEF CacheFresh, FreshSince, LastCurrent
<1>4. CallFresh'
  <2>1. call # Absent => call.now <= clock'
    BY <1>0 DEF CallFresh, TypeOK, Call, Time
  <2>2. ASSUME answer \in Record
        PROVE  FreshSince(call.key, answer, call.now)'
    <3>1. call.key \in Keys /\ call.now \in Time /\ FreshSince(call.key, answer, call.now)
      BY <2>2 DEF CallFresh, TypeOK, Call
    <3> QED BY <2>2, <3>1, StaysFresh DEF FreshSince, LastCurrent
  <2> QED BY <2>1, <2>2 DEF CallFresh, FreshSince, LastCurrent
<1>5. ResultKnown'
  <2>1. Answered => result.key \in Keys /\ result.record.rev \in Nat
    BY DEF Answered, TypeOK, Result, Record
  <2> QED BY <1>1, <2>1 DEF ResultKnown, Answered
<1>6. BoundedStaleness'
  BY StaysBounded DEF ResultKnown
<1> QED BY <1>2, <1>3, <1>4, <1>5, <1>6

\* Steps that leave IS, the clock, and what the caller has seen as they are, keep
\* the history.
LEMMA SameHistory ==
  ASSUME IsHistory, UNCHANGED <<clock, isVars, seen, forgotAt>>
  PROVE  /\ IsHistory'
         /\ \A k \in Keys : \A rec, t : FreshSince(k, rec, t)' <=> FreshSince(k, rec, t)
         /\ UNCHANGED result => /\ ResultKnown => ResultKnown'
                                /\ BoundedStaleness => BoundedStaleness'
BY DEF IsHistory, isVars, FreshSince, LastCurrent, ResultKnown, BoundedStaleness, Answered

\* Every step keeps the invariant.
LEMMA IndStep ==
  ASSUME IndInv, [Next]_vars PROVE IndInv'
<1>0. TypeOK /\ TypeOK'
  BY TypeStep DEF IndInv
<1> USE <1>0, ReaderAssumption DEF IndInv
<1>1. ASSUME NEW k \in Keys, GetHit(k)
      PROVE  IndInv'
  <2>1. cache[k] # Absent /\ cache[k] \in Entry /\ clock < cache[k].fetchedAt + Ttl
    BY <1>1 DEF GetHit, Fresh, FreshAt, TypeOK
  <2>2. PICK rec \in Record, t \in Time : rec = cache[k].record /\ t = cache[k].fetchedAt
    BY <2>1 DEF Entry
  <2>3. /\ rec.listed /\ t <= clock /\ FreshSince(k, rec, t) /\ clock < t + Ttl
        /\ LastCurrent(k, rec.rev) \in Nat /\ clock \in Time
    <3>1. rec.rev \in 0..MaxRev
      BY DEF Record
    <3>2. LastCurrent(k, rec.rev) \in Nat
      BY <3>1 DEF LastCurrent, TypeOK, Time
    <3> QED BY <2>1, <2>2, <3>2 DEF CacheFresh, TypeOK
  <2>4. LastCurrent(k, rec.rev) >= t
    BY <2>3 DEF FreshSince
  <2>5. Return(k, rec, clock) /\ UNCHANGED <<clock, isVars, forgotAt, cache, call, answer>>
    BY <1>1, <2>2 DEF GetHit
  <2>6. BoundedStaleness'
    <3>1. clock < LastCurrent(k, rec.rev) + Ttl
      BY <2>3, <2>4 DEF Time
    <3> QED BY <2>3, <2>5, <3>1, ReturnBounded
  <2>7. /\ IsHistory' /\ ResultKnown'
        /\ \A j \in Keys : \A r, u : FreshSince(j, r, u)' <=> FreshSince(j, r, u)
    BY <2>3, <2>5, ReturnKeepsFresh DEF FreshSince
  <2>8. CacheFresh'
    BY <2>2, <2>5, <2>7 DEF CacheFresh, TypeOK, Entry, FreshSince, LastCurrent
  <2>9. CallFresh'
    BY <1>1, <2>5 DEF GetHit, CallFresh
  <2> QED BY <2>6, <2>7, <2>8, <2>9
<1>2. ASSUME NEW k \in Keys, NEW force \in BOOLEAN, GetMiss(k, force)
      PROVE  IndInv'
  <2>1. CallFresh'
    BY <1>2 DEF GetMiss, CallFresh, TypeOK, Time
  <2>2. CacheFresh'
    BY <1>2 DEF GetMiss, CacheFresh, FreshSince, LastCurrent, isVars
  <2> QED BY <1>2, <2>1, <2>2, SameHistory DEF GetMiss
<1>3. CASE IsAnswers
  <2>1. CallFresh'
    BY <1>3 DEF IsAnswers, CallFresh, IsHistory, FreshSince, LastCurrent, isVars,
                TypeOK, Call, Record, Time
  <2>2. CacheFresh'
    BY <1>3 DEF IsAnswers, CacheFresh, FreshSince, LastCurrent, isVars
  <2> QED BY <1>3, <2>1, <2>2, SameHistory DEF IsAnswers
<1>4. CASE FetchFails
  <2>1. CallFresh'
    BY <1>4 DEF FetchFails, CallFresh
  <2>2. CacheFresh'
    BY <1>4 DEF FetchFails, CacheFresh, FreshSince, LastCurrent, isVars
  <2> QED BY <1>4, <2>1, <2>2, SameHistory DEF FetchFails
<1>5. CASE GetReturns
  <2>1. PICK k \in Keys, t \in Time, rec \in Record \cup {Failed} :
          k = call.key /\ t = call.now /\ rec = answer
    BY <1>5, AnswerTyped DEF GetReturns, TypeOK, Call
  <2>2. /\ rec \in Record => FreshSince(k, rec, t)
        /\ t <= clock
    BY <1>5, <2>1 DEF GetReturns, CallFresh
  <2>3. /\ Return(k, rec, t) /\ UNCHANGED <<clock, isVars, forgotAt>>
        /\ cache' = Stored(rec) /\ call' = Absent /\ answer' = Absent
    BY <1>5, <2>1 DEF GetReturns
  <2>4. BoundedStaleness'
    <3>1. rec = Failed \/ LastCurrent(k, rec.rev) >= t
      BY <2>2 DEF FreshSince
    <3> QED BY <2>3, <3>1, ReturnBounded
  <2>5. /\ IsHistory' /\ ResultKnown'
        /\ \A j \in Keys : \A r, u : FreshSince(j, r, u)' <=> FreshSince(j, r, u)
    BY <2>2, <2>3, ReturnKeepsFresh DEF FreshSince
  <2>6. CacheFresh'
    <3>1. CASE rec = Failed \/ ~rec.listed
      <4>1. cache' = cache
        BY <2>3, <3>1 DEF Stored
      <4> QED BY <2>3, <2>5, <3>1, <4>1
              DEF CacheFresh, TypeOK, Entry, FreshSince, LastCurrent
    <3>2. CASE rec # Failed /\ rec.listed
      <4>1. rec \in Record /\ FreshSince(k, rec, t)'
        BY <2>2, <2>5, <3>2
      <4>2. \A j \in Keys : cache'[j] =
              IF j = k THEN [record |-> rec, fetchedAt |-> t] ELSE cache[j]
        BY <2>1, <2>3, <3>2 DEF Stored, TypeOK
      <4>3. ASSUME NEW j \in Keys, cache'[j] # Absent
            PROVE  /\ cache'[j].record.listed /\ cache'[j].fetchedAt <= clock'
                   /\ FreshSince(j, cache[j].record, cache[j].fetchedAt)'
        <5>1. CASE j = k
          BY <2>2, <2>3, <3>2, <4>1, <4>2, <5>1 DEF FreshSince, LastCurrent
        <5>2. CASE j # k
          BY <2>3, <2>5, <4>2, <4>3, <5>2
             DEF CacheFresh, TypeOK, Entry, FreshSince, LastCurrent
        <5> QED BY <5>1, <5>2
      <4> QED BY <4>3 DEF CacheFresh
    <3> QED BY <3>1, <3>2
  <2>7. CallFresh'
    BY <2>3 DEF CallFresh
  <2> QED BY <2>4, <2>5, <2>6, <2>7
<1>6. CASE (\E k \in Keys : Invalidate(k)) \/ ClearCache
  <2>1. /\ UNCHANGED <<clock, isVars, call, answer, result, seen>> /\ call = Absent
        /\ \A k \in Keys :
             \/ cache'[k] = cache[k] /\ forgotAt'[k] = forgotAt[k]
             \/ cache'[k] = Absent /\ forgotAt'[k] = registry[k].rev
    BY <1>6 DEF Invalidate, ClearCache, TypeOK
  <2>2. IsHistory'
    <3>1. \A k \in Keys : registry[k].rev \in Nat
      BY DEF TypeOK, Record
    <3> QED BY <2>1, <3>1 DEF IsHistory, isVars
  <2>3. CacheFresh' /\ CallFresh'
    BY <2>1 DEF CacheFresh, CallFresh, FreshSince, LastCurrent, isVars
  <2>4. ResultKnown' /\ BoundedStaleness'
    BY <2>1 DEF ResultKnown, BoundedStaleness, Answered, LastCurrent, isVars
  <2> QED BY <2>1, <2>2, <2>3, <2>4
<1>7. CASE Tick \/ \E k \in Keys : IsChanges(k)
  <2>1. UNCHANGED <<cache, call, answer, result, seen, forgotAt>>
    BY <1>7 DEF Tick, IsChanges
  <2> QED BY <1>7, <2>1, OutsideStep
<1>8. CASE UNCHANGED vars
  <2>1. CacheFresh' /\ CallFresh'
    BY <1>8 DEF vars, isVars, CacheFresh, CallFresh, FreshSince, LastCurrent
  <2> QED BY <1>8, <2>1, SameHistory DEF vars, isVars
<1> QED BY <1>1, <1>2, <1>3, <1>4, <1>5, <1>6, <1>7, <1>8 DEF Next

\* The invariant holds initially.
LEMMA IndInit == Init => IndInv
<1> SUFFICES ASSUME Init PROVE IndInv
  OBVIOUS
<1>1. TypeOK
  BY TypeInit
<1>2. IsHistory
  <2>1. ASSUME NEW k \in Keys
        PROVE  /\ seen[k].rev <= registry[k].rev
               /\ forgotAt[k] <= registry[k].rev
               /\ \A r \in 0..MaxRev : supersededAt[k][r] <= clock
    <3>1. registry[k] \in {[rev |-> 0, listed |-> TRUE], [rev |-> 0, listed |-> FALSE]}
      BY DEF Init
    <3>2. registry[k].rev = 0
      BY <3>1
    <3>3. seen[k].rev = 0 /\ forgotAt[k] = 0 /\ clock = 0
      BY DEF Init
    <3>4. \A r \in 0..MaxRev : supersededAt[k][r] = 0
      BY DEF Init
    <3> QED BY <3>2, <3>3, <3>4
  <2> QED BY <2>1 DEF IsHistory
<1>3. CacheFresh
  BY DEF Init, CacheFresh
<1>4. CallFresh
  BY ReaderAssumption DEF Init, CallFresh
<1>5. ~Answered
  BY DEF Init, Answered
<1> QED BY <1>1, <1>2, <1>3, <1>4, <1>5 DEF IndInv, ResultKnown, BoundedStaleness

\* What get() returns was true at IS less than ttl_seconds before the call, or
\* during it (InstrumentReader.get).
THEOREM Bounded == Spec => []BoundedStaleness
<1>1. IndInv /\ [Next]_vars => IndInv'
  BY IndStep
<1>2. IndInv => BoundedStaleness
  BY DEF IndInv
<1> QED BY IndInit, <1>1, <1>2, PTL DEF Spec

\* A fresh entry is not older than the last answer, unless that was a 404 given
\* beside it; the call under way will not leave one behind unsaid; and what IS
\* answered to it is no older than what it answered before.
SeenBehind ==
  /\ \A k \in Keys :
       Fresh(k) => seen[k].rev <= cache[k].record.rev \/ seen[k].leftFresh
  /\ answer \in Record => seen[call.key].rev <= answer.rev

\* Every step keeps that, and goes back only after such a 404.
LEMMA SeenStep ==
  ASSUME IndInv, SeenBehind, [Next]_vars
  PROVE  /\ SeenBehind'
         /\ \A k \in Keys : seen'[k].rev < seen[k].rev => seen[k].leftFresh
<1> USE ReaderAssumption DEF IndInv
<1>0. /\ TypeOK /\ TypeOK' /\ clock \in Nat /\ clock' \in Nat /\ Ttl \in Nat
      /\ \A k \in Keys : seen[k].rev \in Nat /\ seen'[k].rev \in Nat
  <2>1. TypeOK /\ TypeOK'
    BY TypeStep
  <2>2. clock \in Nat /\ clock' \in Nat
    BY <2>1 DEF TypeOK, Time
  <2>3. \A k \in Keys : seen[k] \in Seen /\ seen'[k] \in Seen
    BY <2>1 DEF TypeOK
  <2>4. \A s \in Seen : s.rev \in Nat
    BY DEF Seen
  <2> QED BY <2>1, <2>2, <2>3, <2>4
<1>1. ASSUME NEW k \in Keys, GetHit(k)
      PROVE  /\ SeenBehind'
             /\ \A j \in Keys : seen'[j].rev < seen[j].rev => seen[j].leftFresh
  <2>1. cache[k] \in Entry /\ cache[k].record \in Record /\ cache[k].record # Failed
    BY <1>0, <1>1 DEF GetHit, Fresh, FreshAt, TypeOK, Entry
  <2>2. /\ \A j \in Keys : seen'[j].rev = IF j = k THEN cache[k].record.rev ELSE seen[j].rev
        /\ \A j \in Keys : j # k => seen'[j] = seen[j]
        /\ cache' = cache /\ clock' = clock /\ call = Absent /\ answer' = answer
    BY <1>0, <1>1, <2>1 DEF GetHit, Return, TypeOK, Seen
  <2>3. answer' \notin Record
    BY <2>2 DEF CallFresh, TypeOK
  <2>4. \A j \in Keys : Fresh(j)' <=> Fresh(j)
    BY <2>2 DEF Fresh, FreshAt
  <2>5. cache[k].record.rev \in Nat
    BY <2>1 DEF Record
  <2> QED BY <1>0, <1>1, <2>2, <2>3, <2>4, <2>5 DEF SeenBehind, GetHit
<1>2. CASE IsAnswers
  <2>1. seen[call.key].rev <= registry[call.key].rev
    BY <1>2 DEF IsAnswers, IsHistory, TypeOK, Call
  <2>2. UNCHANGED <<cache, clock, seen, call>> /\ answer' = registry[call.key]
    BY <1>2 DEF IsAnswers
  <2> QED BY <1>0, <2>1, <2>2 DEF SeenBehind, Fresh, FreshAt
<1>3. CASE GetReturns
  <2>1. call \in Call /\ call.key \in Keys /\ call.now \in Nat /\ call.now <= clock
        /\ answer \in Record \cup {Failed}
    BY <1>0, <1>3, AnswerTyped DEF GetReturns, TypeOK, Call, CallFresh, Time
  <2>2. clock' = clock /\ answer' \notin Record
    BY <1>3 DEF GetReturns
  <2>3. CASE answer = Failed
    <3>1. cache' = cache /\ seen' = seen
      BY <1>3, <2>3 DEF GetReturns, Return, Stored
    <3> QED BY <1>0, <2>2, <3>1 DEF SeenBehind, Fresh, FreshAt
  <2>4. CASE answer # Failed
    <3>1. answer \in Record /\ answer.rev \in Nat /\ seen[call.key].rev <= answer.rev
      BY <2>1, <2>4 DEF SeenBehind, Record
    <3>2. \A j \in Keys : seen'[j] =
            IF j = call.key
            THEN [rev |-> answer.rev, leftFresh |-> ~answer.listed /\ FreshAt(call.key, call.now)]
            ELSE seen[j]
      BY <1>0, <1>3, <2>1, <2>4 DEF GetReturns, Return, TypeOK
    <3>3. ASSUME NEW j \in Keys, Fresh(j)'
          PROVE  seen'[j].rev <= cache'[j].record.rev \/ seen'[j].leftFresh
      <4>1. CASE j # call.key
        <5>1. cache'[j] = cache[j]
          BY <1>0, <1>3, <4>1 DEF GetReturns, Stored, TypeOK
        <5> QED BY <2>2, <3>2, <3>3, <4>1, <5>1 DEF SeenBehind, Fresh, FreshAt
      <4>2. CASE j = call.key /\ answer.listed
        <5>1. cache'[j].record = answer
          BY <1>0, <1>3, <2>1, <2>4, <4>2 DEF GetReturns, Stored, TypeOK
        <5> QED BY <3>1, <3>2, <4>2, <5>1
      <4>3. CASE j = call.key /\ ~answer.listed
        <5>1. cache' = cache
          BY <1>3, <4>3 DEF GetReturns, Stored
        <5>2. cache[j] # Absent /\ clock < cache[j].fetchedAt + Ttl
          BY <2>2, <3>3, <5>1 DEF Fresh, FreshAt
        <5>3. cache[j].fetchedAt \in Nat
          BY <1>0, <5>2 DEF TypeOK, Entry, Time
        <5>4. FreshAt(call.key, call.now)
          BY <1>0, <2>1, <4>3, <5>2, <5>3 DEF FreshAt
        <5>5. seen'[j].leftFresh = (~answer.listed /\ FreshAt(call.key, call.now))
          BY <3>2, <4>3
        <5> QED BY <4>3, <5>4, <5>5
      <4> QED BY <4>1, <4>2, <4>3
    <3>4. \A j \in Keys : ~(seen'[j].rev < seen[j].rev)
      BY <1>0, <3>1, <3>2
    <3> QED BY <2>2, <3>3, <3>4 DEF SeenBehind
  <2> QED BY <2>3, <2>4
<1>4. CASE \/ (\E k \in Keys : \/ Invalidate(k) \/ IsChanges(k)
                               \/ \E force \in BOOLEAN : GetMiss(k, force))
           \/ FetchFails \/ ClearCache \/ Tick \/ UNCHANGED vars
  <2>1. /\ seen' = seen /\ clock <= clock'
        /\ \A k \in Keys : cache'[k] = cache[k] \/ cache'[k] = Absent
        /\ answer' = Failed \/ (answer' = answer /\ (call' = call \/ call = Absent))
    BY <1>0, <1>4 DEF Invalidate, IsChanges, GetMiss, FetchFails, ClearCache, Tick, vars, TypeOK
  <2>2. \A k \in Keys : Fresh(k)' => Fresh(k) /\ cache'[k] = cache[k]
    <3>1. \A k \in Keys : cache[k] # Absent => cache[k].fetchedAt \in Nat
      BY <1>0 DEF TypeOK, Entry, Time
    <3> QED BY <1>0, <2>1, <3>1 DEF Fresh, FreshAt
  <2>3. answer' \in Record => answer \in Record /\ call' = call
    BY <2>1 DEF CallFresh
  <2> QED BY <1>0, <2>1, <2>2, <2>3 DEF SeenBehind
<1> QED BY <1>1, <1>2, <1>3, <1>4 DEF Next

\* What a caller is told of an instrument, delistings included, goes back to an
\* earlier revision only after a forced call that got a 404 beside a fresh entry
\* (InstrumentReader.get).
THEOREM Monotone == Spec => MonotoneReads
<1>1. Init => IndInv /\ SeenBehind
  BY IndInit, ReaderAssumption DEF Init, SeenBehind, Fresh, FreshAt
<1>2. IndInv /\ SeenBehind /\ [Next]_vars =>
        /\ (IndInv /\ SeenBehind)'
        /\ [\A k \in Keys : seen'[k].rev < seen[k].rev => seen[k].leftFresh]_vars
  BY IndStep, SeenStep
<1> QED BY <1>1, <1>2, PTL DEF Spec, MonotoneReads

\* After invalidate(k), get(k) returns nothing IS had replaced by then.
THEOREM Forgotten == Spec => ForgottenStaysForgotten
<1>1. ASSUME IndInv, [Next]_vars, result' # result, Answered'
      PROVE  result'.record.rev >= forgotAt[result'.key]
  <2>1. (\E k \in Keys : GetHit(k)) \/ GetReturns
    BY <1>1 DEF Next, GetMiss, IsAnswers, FetchFails, Invalidate, ClearCache,
                IsChanges, Tick, vars
  <2>2. ASSUME NEW k \in Keys, GetHit(k)
        PROVE  result'.record.rev >= forgotAt[result'.key]
    <3>1. FreshSince(k, cache[k].record, cache[k].fetchedAt)
      BY <1>1, <2>2 DEF GetHit, Fresh, FreshAt, IndInv, CacheFresh
    <3>2. result'.key = k /\ result'.record = cache[k].record
      BY <2>2 DEF GetHit, Return
    <3> QED BY <3>1, <3>2 DEF FreshSince
  <2>3. CASE GetReturns
    <3>1. result'.key = call.key /\ result'.record = answer
      BY <2>3 DEF GetReturns, Return
    <3>2. answer \in Record
      BY <1>1, <2>3, <3>1, AnswerTyped DEF GetReturns, IndInv, Answered
    <3>3. FreshSince(call.key, answer, call.now)
      BY <1>1, <3>2 DEF IndInv, CallFresh
    <3> QED BY <3>1, <3>3 DEF FreshSince
  <2> QED BY <2>1, <2>2, <2>3
<1>2. IndInv /\ [Next]_vars =>
        IndInv' /\ [result' # result /\ Answered' =>
                     result'.record.rev >= forgotAt[result'.key]]_vars
  BY <1>1, IndStep
<1> QED BY IndInit, <1>2, PTL DEF Spec, ForgottenStaysForgotten
=============================================================================
