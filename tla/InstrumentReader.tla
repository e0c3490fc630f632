--------------------------- MODULE InstrumentReader ---------------------------
(***************************************************************************)
(* InstrumentReader (greeks_service/inputs/instrument_reader.py), the TTL  *)
(* cache in front of the instruments-service (IS) HTTP API, and the part   *)
(* of IS it sees: one record per instrument key, revised and delisted      *)
(* while calls are under way.                                              *)
(*                                                                         *)
(* A process has one reader and one thread, so that calls do not overlap;  *)
(* IS and the clock move at any time, also between the answer IS gives and *)
(* its arrival.                                                            *)
(***************************************************************************)
EXTENDS Naturals

CONSTANTS Keys,      \* instrument keys
          Ttl,       \* ttl_seconds
          Absent,    \* no cache entry, no call, no answer, no result
          Failed,    \* the answer of a fetch that raised
          MaxRev,    \* bound: the last revision of a record
          MaxClock   \* bound: the last reading of the clock

VARIABLES
  clock,         \* time.monotonic(), shared with the history of IS
  registry,      \* IS: the revision of each record, and if it is listed
  supersededAt,  \* history: when a revision was replaced
  cache,         \* _cache: key -> entry
  call,          \* the get() that is fetching: its key, its `now`
  answer,        \* what IS answered to it
  result,        \* what the last get() returned
  seen,          \* history: the revision get() last answered from for each key, and
                 \* if that was a 404 that left a fresh entry in the cache
  forgotAt       \* history: IS's revision when the caller last invalidated a key

isVars == <<registry, supersededAt>>
vars == <<clock, registry, supersededAt, cache, call, answer, result, seen, forgotAt>>

Time == 0..MaxClock
Record == [rev : 0..MaxRev, listed : BOOLEAN]
\* Only a record is cached: None, the 404 of a delisted one, is not.
Entry == [record : {r \in Record : r.listed}, fetchedAt : Time]
Call == [key : Keys, now : Time]
Seen == [rev : 0..MaxRev, leftFresh : BOOLEAN]
Result == [key : Keys, record : Record \cup {Failed}, now : Time]

ASSUME ReaderAssumption ==
  /\ Ttl \in Nat /\ MaxRev \in Nat /\ MaxClock \in Nat
  /\ Failed # Absent /\ Failed \notin Record
  /\ Absent \notin Entry \cup Call \cup Record \cup Result

Init ==
  /\ clock = 0
  /\ registry \in [Keys -> {[rev |-> 0, listed |-> TRUE], [rev |-> 0, listed |-> FALSE]}]
  /\ supersededAt = [k \in Keys |-> [r \in 0..MaxRev |-> 0]]
  /\ cache = [k \in Keys |-> Absent]
  /\ call = Absent
  /\ answer = Absent
  /\ result = Absent
  /\ seen = [k \in Keys |-> [rev |-> 0, leftFresh |-> FALSE]]
  /\ forgotAt = [k \in Keys |-> 0]

\* (now - entry.fetched_at) < self._ttl
FreshAt(k, now) == cache[k] # Absent /\ now < cache[k].fetchedAt + Ttl
Fresh(k) == FreshAt(k, clock)

\* The caller gets what the record says if it is listed, None otherwise.
Return(k, record, now) ==
  /\ result' = [key |-> k, record |-> record, now |-> now]
  /\ seen' = IF record = Failed THEN seen
             ELSE [seen EXCEPT ![k] = [rev |-> record.rev,
                                       leftFresh |-> ~record.listed /\ FreshAt(k, now)]]

\* get() answers from the cache.
GetHit(k) ==
  /\ call = Absent
  /\ Fresh(k)
  /\ Return(k, cache[k].record, clock)
  /\ UNCHANGED <<clock, isVars, cache, call, answer, forgotAt>>

\* get() finds no fresh entry, or does not look for one, and calls IS.
GetMiss(k, forceRefresh) ==
  /\ call = Absent
  /\ forceRefresh \/ ~Fresh(k)
  /\ call' = [key |-> k, now |-> clock]
  /\ UNCHANGED <<clock, isVars, cache, answer, result, seen, forgotAt>>

\* IS answers the request with the record it has, or with 404.
IsAnswers ==
  /\ call # Absent /\ answer = Absent
  /\ answer' = registry[call.key]
  /\ UNCHANGED <<clock, isVars, cache, call, result, seen, forgotAt>>

\* Timeout, 5xx, an answer that does not validate or is lost: _fetch_http logs
\* it and returns None.
FetchFails ==
  /\ call # Absent
  /\ answer' = Failed
  /\ UNCHANGED <<clock, isVars, cache, call, result, seen, forgotAt>>

\* Fault seeded in Stored: the entry is dated when the answer arrives.
StoredOnArrival(record) ==
  IF record # Failed /\ record.listed
  THEN [cache EXCEPT ![call.key] = [record |-> record, fetchedAt |-> clock]]
  ELSE cache

\* Fault seeded in Stored: None is cached like a record.
StoredAlways(record) ==
  [cache EXCEPT ![call.key] = [record |-> record, fetchedAt |-> call.now]]

\* Fault seeded in Stored: a fetch that gives nothing makes an older entry last
\* for another TTL.
StoredStale(record) ==
  IF record # Failed /\ record.listed
  THEN [cache EXCEPT ![call.key] = [record |-> record, fetchedAt |-> call.now]]
  ELSE [cache EXCEPT ![call.key] =
          IF @ = Absent THEN @ ELSE [@ EXCEPT !.fetchedAt = call.now]]

\* A record is cached under the time get() began; None is not cached, and leaves
\* an older entry where it is.
Stored(record) ==
  IF record # Failed /\ record.listed
  THEN [cache EXCEPT ![call.key] = [record |-> record, fetchedAt |-> call.now]]
  ELSE cache

\* _fetch returns, and get() with it.
GetReturns ==
  /\ call # Absent /\ answer # Absent
  /\ cache' = Stored(answer)
  /\ Return(call.key, answer, call.now)
  /\ call' = Absent /\ answer' = Absent
  /\ UNCHANGED <<clock, isVars, forgotAt>>

\* Fault seeded in Invalidate: the entry stays.
InvalidateNothing(k) ==
  /\ call = Absent
  /\ forgotAt' = [forgotAt EXCEPT ![k] = registry[k].rev]
  /\ UNCHANGED <<clock, isVars, cache, call, answer, result, seen>>

Invalidate(k) ==
  /\ call = Absent
  /\ cache' = [cache EXCEPT ![k] = Absent]
  /\ forgotAt' = [forgotAt EXCEPT ![k] = registry[k].rev]
  /\ UNCHANGED <<clock, isVars, call, answer, result, seen>>

ClearCache ==
  /\ call = Absent
  /\ cache' = [k \in Keys |-> Absent]
  /\ forgotAt' = [k \in Keys |-> registry[k].rev]
  /\ UNCHANGED <<clock, isVars, call, answer, result, seen>>

\* IS revises, lists or delists the instrument.
IsChanges(k) ==
  /\ registry[k].rev < MaxRev
  /\ \E listed \in BOOLEAN :
       registry' = [registry EXCEPT ![k] = [rev |-> @.rev + 1, listed |-> listed]]
  /\ supersededAt' = [supersededAt EXCEPT ![k][registry[k].rev] = clock]
  /\ UNCHANGED <<clock, cache, call, answer, result, seen, forgotAt>>

Tick == /\ clock < MaxClock
        /\ clock' = clock + 1
        /\ UNCHANGED <<isVars, cache, call, answer, result, seen, forgotAt>>

Next ==
  \/ \E k \in Keys : \/ GetHit(k)
                     \/ \E force \in BOOLEAN : GetMiss(k, force)
                     \/ Invalidate(k)
                     \/ IsChanges(k)
  \/ IsAnswers
  \/ FetchFails
  \/ GetReturns
  \/ ClearCache
  \/ Tick

Spec == Init /\ [][Next]_vars

-----------------------------------------------------------------------------
(* Properties *)

TypeOK ==
  /\ clock \in Time
  /\ registry \in [Keys -> Record]
  /\ supersededAt \in [Keys -> [0..MaxRev -> Time]]
  /\ cache \in [Keys -> Entry \cup {Absent}]
  /\ call \in Call \cup {Absent}
  /\ answer \in Record \cup {Failed, Absent}
  /\ result \in Result \cup {Absent}
  /\ seen \in [Keys -> Seen]
  /\ forgotAt \in [Keys -> 0..MaxRev]

\* The last moment at which revision r of k was what IS would answer.
LastCurrent(k, r) == IF registry[k].rev = r THEN clock ELSE supersededAt[k][r]

Answered == result # Absent /\ result.record # Failed

\* What get() returns was true at IS less than ttl_seconds before the call, or
\* during it, however long the fetch took; and a None that IS meant (404) was
\* true during the call, since it is never cached.
BoundedStaleness ==
  Answered =>
    LET last == LastCurrent(result.key, result.record.rev) IN
    \/ last >= result.now
    \/ result.record.listed /\ result.now < last + Ttl

\* "force next get() to re-fetch" (instrument_reader.py:108): once a key has been
\* invalidated, get() returns nothing that IS had replaced by then.
ForgottenStaysForgotten ==
  [][result' # result /\ Answered' =>
       result'.record.rev >= forgotAt[result'.key]]_vars

\* What a caller is told of an instrument goes back to an earlier revision in one
\* case only: a forced call that got a 404 left the older entry in the cache
\* (instrument_reader.py:72), where a plain call still finds it.  Any other mix of
\* cached, expired, forced, failed and invalidated calls moves forward, a delisting
\* told once included.
MonotoneReads == [][\A k \in Keys : seen'[k].rev < seen[k].rev => seen[k].leftFresh]_vars
=============================================================================
