# greeks-service: a TLA+ model of the service, its checks and its proofs

greeks-service pulls mark updates from a Pub/Sub subscription, computes option
greeks for them (Black-Scholes, with the implied volatility the update carries), and
writes one `LedgerRow` per update to the
PricingLedger, a hive-partitioned set of parquet objects in a bucket. A batch
mode replays archived mark updates through the same handler. The code is under
`src/greeks_service/`; this directory holds TLA+ modules translated from it, the
TLC configurations that check them and TLAPS proofs about them. `PROJECT.json`
maps each definition to the lines it stands for.

## 1. Inventory

| Component | State it keeps | Operations | What makes it correct |
|---|---|---|---|
| Mark-update subscriber, `inputs/mark_update_sub.py` | none between calls; `ack_ids` and the rest of the batch during one | `pull_and_dispatch`, `decode_mark_update` | a message is acknowledged only once it has been handled; a message that raises does not stop or acknowledge its neighbours |
| Poll loop, `__main__.py` | `consecutive_empty` | `MarkUpdateOperation.run` | it keeps polling; a bad batch does not stop it |
| Mark-update handler, `handlers/mark_update_handler.py` | none | `handle`, `_make_event_id`, `_resolve_option_inputs`, `_compute_greeks` | one row per update, under a stable event id; greeks are None where the instrument is no live option or the volatility is missing, and zeros where it is one and a price or strike is degenerate |
| PricingLedger writer, `outputs/pricing_ledger_writer.py` | none; the bucket | `write` | a row reaches the partition of its `asset_group` and day and stays there |
| Instrument reader, `inputs/instrument_reader.py` | `_cache`: key to (record, `fetched_at`) | `get`, `invalidate`, `clear_cache` | what it returns is recent, and goes back to an earlier revision only after a forced 404 |
| Backfill, `batch/backfill.py` | `dispatched_count`, `skip_count` during a run | `process_date`, `run_backfill` | the count it returns is true; what fails or is malformed costs no other row; it leaves live rows alone |
| Black-Scholes and implied volatility, `kernels/black_scholes.py` | none | `compute`, `implied_vol_from_price` | the greeks are those of one option: they solve its equation, with its price, and obey parity and duality; degenerate inputs give zeros; the bisection keeps its bracket |
| IV surface, `kernels/iv_surface.py` | none | `assemble_iv_surface` | rows and columns of the surface line up; a missing leg is absent |
| Health API, `api/main.py` | last processed date | `_data_freshness`, `set_last_processed_date` | it reports what was processed |
| Configuration, `config.py`, `config_reloaders.py` | a settings singleton | constants here | |

How they interact:

    MTDS --publish--> subscription --pull--> subscriber --msg--> handler --row--> writer --put--> bucket
                            ^                    |                   |                              ^
                            +----acknowledge-----+                   +--get--> reader --HTTP--> IS  |
    archive (parquet) --read--> backfill --msg--> handler --row--> writer --------------------------+

Within a process everything is sequential: one thread, one call after the other.
The hard behaviours come from outside it:

- *At-least-once delivery*: leases that lapse while a batch is being handled,
  acknowledgements that come late, are lost or are applied in part.
- *Several processes* that share the subscription and the bucket, and the
  backfill beside them. The writer's objects are shared and are replaced whole.
- *Failure*: `pull` and `acknowledge` may raise and then end the process; a
  message may raise in decoding, in handling or in the upload; an upload may
  raise after it took effect; a process may end between any two of these.
- *Time*: the partition is that of the day of the write, not of the update; the
  reader's cache ages while a fetch (up to 5 s) is under way.
- *Swallowed failures*: the backfill goes on after an unreadable shard, a broken
  listing or a failed row, and returns normally; the reader turns every failure
  into None.

`PROJECT.json` lists each of these as a hazard at the line where it bites, with
the property that would catch it, or a note where the code has it wrong and no run
is spent on it.

## 2. Modules

| Module | Stands for | Built on |
|---|---|---|
| `PricingLedger` | the writer and the bucket | |
| `MarkUpdateBus` | the subscription, as the service uses it (external: `unified_trading_library` is not in the repository) | |
| `LiveService` | poll loop, subscriber and handler in each of several workers | `MarkUpdateBus`, `PricingLedger` |
| `AtLeastOnce` | abstract: what the live service promises MTDS | |
| `InstrumentReader` | the TTL cache and the HTTP API behind it | |
| `MarkUpdateMessage` | what each of the two adapters makes of a payload | |
| `MarkUpdateHandler` | one update, from payload to row | `InstrumentReader`, `MarkUpdateMessage` |
| `BlackScholes` | `compute` and `_bs_price` | |
| `Backfill` | the batch job | `PricingLedger` |
| `ImpliedVol` | the bisection of `implied_vol_from_price` | |
| `IVSurface` | `assemble_iv_surface` | |
| `BatchAndLive` | both at once on one bucket | `LiveService`, `Backfill` |
| `MC*` | instances for TLC: constants and symmetry | the module named |
| `*_proofs` | theorems and their proofs | the module named, `TLAPS` |

### PricingLedger

`ledger` maps a path to the set of rows in the object there. `PathFor` is the
path rule of `write`: `asset_group`, the date (today if none is given) and the
suffix. `Uploaded` is the store after an upload: *the object is replaced*, since
`write` builds a table of its argument alone and uploads the whole file, and
nothing is uploaded for no rows. `WriteRaises` leaves open whether the upload
took effect. Parquet and the columns of a row are abstracted to an event id and
whether greeks are there.

### MarkUpdateBus

`lease[m]` is the worker that holds the delivery of `m`. `Deliver` hands any set
of at most `MaxMessages` available messages to a worker; order is arbitrary.
`AcknowledgeAll` settles what the worker still leases, and whatever part of the
rest the subscription chooses to honour. `LeaseLapses` makes a message available
again.

### LiveService

`pc[w]` follows a worker round its loop; `todo`, `inflight`, `ackIds` and `idle`
are the rest of the batch, the message in `handle()` with the row made of it,
`ack_ids` and `consecutive_empty`.

| Action | Code |
|---|---|
| `Pull`, `PullRaises` | `self._bus.pull`; nothing catches what it raises, so the process ends |
| `BeginHandle` | `decode_mark_update` and `handle()` up to the writer: event id, option inputs, greeks or None |
| `Skip` | the `except` branch for a message that raises before any upload (undecodable, or a NaN volatility compared with 0) |
| `UploadReturns` | `write()` returns, then `ack_ids.append` |
| `UploadRaises` | `write()` logs and re-raises; the `except` branch withholds the ack |
| `Acknowledge`, `AcknowledgeRaises`, `NothingToAck` | `if ack_ids: acknowledge(...)`, then the count and the sleep in `run()` |
| `Wake`, `Crash`, `Restart` | the `while` loop, the process ending and being started again |
| `MtdsPublishes`, `Lapse`, `Midnight` | the environment |

`handle()` is two steps because a process may end, a lease may lapse and midnight
may pass between the row and its upload (an HTTP call with a 5 s timeout lies in
the first part). `emitted[m]` is a history variable: the event ids of the rows
uploaded for `m`.

### InstrumentReader

`get()` is one step when it hits (`GetHit`), and otherwise `GetMiss`, the answer
(`IsAnswers` or `FetchFails`) and `GetReturns`; the clock and the record at
instruments-service may change between them. `now` is read when `get()` begins
and is what the entry is dated with. `force_refresh` is the second argument of
`GetMiss`. `invalidate` and `clear_cache` are public operations that nothing in
the package calls; they are actions all the same. `mock_fetcher`, a test hook, is
left out. `supersededAt`, `seen` and `forgotAt` are history variables. `seen` moves
with every answer, a 404 (`listed` is false) included, and notes of a 404 whether it
came beside an entry that is still fresh (`leftFresh`): only a forced call can do that.
The older entry stays then (`instrument_reader.py:72`), and a plain call gives the
delisted record again. What is cached is a listed record, by the type of `Entry`.

### MarkUpdateMessage and MarkUpdateHandler

A payload has a price, a volatility, a rate (one stands for the six carry rates,
which are read alike), a source id and a place (which stands for `venue_id` and for
`asset_group`, read alike too), each of which may be missing, null, NaN,
junk, zero, or a number that breaks the kernel (`tiny`, `huge`). `Rejected`,
`Number` and `Text` say what `decode_mark_update` and `_row_to_message` do with
each: they differ for NaN, junk, zero prices, missing places and null texts.

`handle` is `HandleHit` when the record is cached, and otherwise `HandleMiss`, then
an answer or an `Outage`, then `HandleFetched`: the reader's own actions, with the
row made in the step in which `get` returns. `Emit` makes it: `Instrument` (None for
unlisted and for failed alike), `LiveOption`, `HandleRaises` (NaN compared with 0),
`ComputeGreeks`, `Compute` (zeros, None or values), `LedgerRow` with the event id,
which is the source's or one of `EventIds("")`: a uuid4 that the row before does not
have. A value of the greeks is kept as what it was computed from. `Replaced` ends the process and
starts another, live or batch, with an empty cache. `row` keeps the last row with
what it was made from, and `failedAt` the last outage: history. `invalidate` and
`clear_cache`, which nothing calls, are not steps here.

### BlackScholes

`market` is the input of a call of `compute`, `greeks` its answers for the four
spellings of `right`. Formulas are the code's, term by term, in integers: units
are such that products are exact, and a quotient is a pair of a numerator and a
denominator, compared by cross-multiplication. `Log`, `Disc`, `Cdf` and `Pdf`
stand for `log`, `exp`, `_norm_cdf` and `_norm_pdf`; all that is assumed of them
(`KernelAssumption`) is log(a/b) = -log(b/a), that discount factors are not
negative, and that `_norm_cdf(x) + _norm_cdf(-x)`, each rounded to 15 digits, is 1 up
to a last digit. `Compute` gives `Zero` for degenerate inputs, `Raised` where
squaring the volatility overflows Decimal, `Zero` again where one of the four
exceptions is caught, and the greeks otherwise; in the order in which the code meets
them. What raises is spot / strike that as a float is 0.0 (`Vanishing`: log raises) or
inf (`Endless`: 0 times infinity in vanna), and a discount factor that `math.exp`
has no float for (`Overflowing`). `_bs_price` is 0 for the first and the last.

### Backfill and BatchAndLive

`process_date` over shards and rows: `ReadShard`, `ShardUnreadable`,
`ListingEnds`, `ListingRaises` (the generator swallows the exception and ends),
`SkipRow` (`_row_to_message` returned None), `HandleRow`, `BatchUploadReturns`,
`BatchUploadRaises`, `ShardDone`; `Start` and `BatchCrash` begin and end a run,
which keeps nothing. `batchWritten`, `batchEvents` and `excused` are history:
`excused` has the rows of the shards that could not be read or that a broken listing
did not get to, and those whose own upload failed.
`BatchAndLive` interleaves the job with the live service; they share `ledger`
and `today` and nothing else.

### ImpliedVol

One call of `implied_vol_from_price`, one round of its loop a step: `Reject`,
`EnterLoop`, `Hit` (the price at the middle is within `tol`), `Halve` (narrow the
bracket, return if it is narrower than `tol`), `GiveUp`. The option, that is, its
price as a function of the volatility, is an argument, so that nothing is said of
the formula. Volatilities are a grid over which the interval can be halved `Steps`
times; `Widths` are the widths of the bracket on the way. The code's interval
(0.001 to 10) takes 30 halvings down to its tolerance and its `_IV_MAX_ITER` is 100.

### IVSurface

`assemble_iv_surface` leg by leg: `DropLeg` for one without a volatility,
`TakeLeg` for one with, `Sort` for the three sorts and the return, `NoSpot` for the
early return. `SortedBy` is a stable sort, as `list.sort` is: the n-th of the sorted list
is the element that n - 1 others come before, by key or, for equal keys, by place
(`Rank`, `Nth`). What the fit of a leg gives is a field of the leg.

### Operators named after a fault

A few operators (`SkipAcks`, `UploadSwallowed`, `StoredOnArrival`, ...) stand
before the definition they are a wrong version of, and say so in a comment
("Fault seeded in ..."). They are in no next-state relation. Each is a plausible
slip in the code; putting it in the place of the right definition makes TLC find
the property listed with it in `PROJECT.json` (`mutants`) violated, which is how
we know the property says something.

## 3. Runs

| Run | Instance | Shows |
|---|---|---|
| `live_safety` | 2 workers, 3 messages (one with a NaN volatility, one without `source_event_id`), pulls of 2, 2 asset groups, 2 days, 2 faults | `TypeOK`: among the types, a worker that polls or sleeps holds neither messages nor ack ids. `AckedWasWritten`: nothing is settled without an upload. `CollectedWasWritten`: the single acknowledge of a batch is safe. `RowsTraceable`: a row in a partition is of a message of its asset group. `OneMoreRowPerFault`: a message is written at most once more than there were faults. `ImplementsAtLeastOnce` |
| `live_liveness` | 2 workers, a good, a NaN and an undecodable message, pulls of 2, 1 fault, `FairSpec` | `GoodIsSettled`: poison messages, which fill pulls for ever, do not keep good ones from being settled. `PoisonComesBack`: an undecodable message is never dropped |
| `reader` | 2 keys, TTL 2, 3 revisions, not both records at the last, clock to 3 | `BoundedStaleness`: age of what is returned. `MonotoneReads`: it goes back only after a forced 404. `ForgottenStaysForgotten`: not behind an invalidation |
| `batch_and_live` | a job of 2 shards of 2 rows, one malformed, 2 runs, 2 faults, 2 days, beside 1 worker with 1 message and 1 fault | `SharedRowsTraceable`: a row in a partition is of its group, whoever uploaded last. `CountIsHonest`: what a run returns is true. `FailureCostsOnlyItsOwn`: a shard or row that fails, or is malformed, takes no other with it |
| `implied_vol` | 17 volatilities, `tol` of 2 units, nondecreasing prices that rise 3 times, flat or on a slope of 1; every mark; `max_iter` of 2 and of 4 | `Bracketed`, `FittedPricesTheMark`, `NoneOnlyOutOfBounds`, `RoundTrip` |
| `iv_surface` | chains of up to 4 legs out of 7 kinds | `VenueTakesPrecedence`: a point says of its leg what the venue published, if it did. `OnePointPerUsableLeg`: no leg is lost, repeated or invented. `IndexesAgree`: the two indexes list the points in the order of the flat list |
| `handler` | 1 instrument with 3 revisions, 6 updates (good ones, and ones with NaN, junk, null, missing, tiny or huge fields), 2 uuids, TTL 2, clock to 3, live and batch, outages | `GreeksOnlyForLiveOptions`: greeks are of what was an option alive, within the TTL. `NoneHasACause`: a row without them has a cause in its own handling. `SameRecordSameRow`: both adapters, and a redelivery, give the same columns, but for the event id of an update that brought none |
| `black_scholes` | 5 prices, 4 rates, 4 volatilities, 3 times, 4 spellings | `PricingEquation`, `PutCallDuality`, `PutCallParity` (of price, delta and rho), `VolgaFollowsMoneyness` (vega, vanna and volga by gamma, forward moneyness and variance) |
| `ledger_append`, `idempotent_handling`, `batch_isolation`, `batch_is_live` | the smallest instances that show them | findings, section 4 |

Bounds, and why they are enough for what the runs ask:

- `MaxFaults`, `MaxBatchFaults` count crashes, failed calls and leases that lapse
  on a slow worker. Two allow a fault during the recovery from another (a lapse,
  then a crash of the second worker). Liveness runs need them bounded: it is the
  statement "once faults stop".
- `MaxDay` is 1 where midnight matters: a row built on one day and uploaded on the
  next.
- `IdleCap` caps `consecutive_empty`, which the code lets grow. It is read only in
  the sleep, `min(5 * n, 30)`, which is constant from 6 on; the length of a sleep
  is not modelled, so any cap gives the same behaviours.
- `Uuids` is the supply of fresh uuid4 values; `TakenIds` keeps them distinct. When
  it runs out a message without a source id cannot be handled; three values for one
  such message and two faults are never used up. In `handler` two are enough, since a
  uuid need only differ from that of the row before, the one row it is compared with.
- `MaxRev`, `MaxClock`, `Ttl`: an entry can be fetched, superseded twice, expire and
  be fetched again. Time is discrete; the code's comparison is strict and so is the
  model's. `MCFewRevisions` stops one of the two records of `reader` before its last
  revision: entries of different keys do not interact, and the other goes all the way.
- `MaxIters` has a value that suffices and one that does not, so that `GiveUp`
  happens; flat prices make marks that no volatility gives exactly, and slopes
  make the precondition of `RoundTrip` true.
- `MaxLegs` is 4: two points of one node and two others, in every order.
- `MaxRuns` is 2: a run after one that crashed or returned short.
- `handler` has an option whose terms change (another right and expiry) and which then
  is no option any more, and marks before, between and after the two expiries: each may
  be handled with a record older or newer than the mark.
- `black_scholes` has prices, volatilities and times at 0 and above, rates on both sides
  of 0, a volatility whose square is too large, quotients that vanish or are endless
  (one with an inverse that is neither), a rate that overflows, and a distribution that
  is off by one in its last digit for some points. The theorems of section 5 have no bounds.
- Two workers are enough for a delivery to move from one holder to another, and
  batches of 2 for a good message to share one with a poison one.

Symmetry is used on workers, uuids and keys, and in safety runs only.
`implied_vol`, `black_scholes` and `iv_surface` do not check deadlock: they are
functions that return. All others do check it.

### Fairness

`FairSpec` assumes, and the code justifies:

- `WF(WorkerStep(w))`: the `while` loop and the `for` loop go on while the process
  is up, every call in them has a timeout or returns, and a process that ended is
  restarted by its platform. It says nothing of which message is handled next.
- `WF` of `Lapse(m)` when its holder has dropped `m`: an acknowledgement deadline
  always comes. It is not assumed of a message still held.
- `SF` that the subscription includes `m` in a pull: Pub/Sub does not pass over an
  available message for ever. It has to be strong, because another worker may hold
  the message, or no worker be polling, again and again. Without it `MaxMessages`
  poison messages could fill every pull.

No fairness is assumed of faults, of publication or of midnight.

## 4. Where the code and its documentation disagree

1. **The ledger is replaced, not appended to** (`ledger_append`,
   `LedgerAppends`). `pricing_ledger_writer.py:3` says "Appends LedgerRow ...
   batches". `write` uploads the rows of one call as the whole object, at a path
   that depends on asset group, day and suffix only, and `handle` calls it with one
   row and no suffix. The second update of an asset group on a day removes the row
   of the first, which has been acknowledged. TLC's trace has one worker, two
   messages and no fault.
2. **Handling is not idempotent without a source id** (`idempotent_handling`,
   `IdempotentHandling`). `mark_update_sub.py:10` says "handler must be idempotent".
   `_make_event_id` draws a fresh uuid4 when there is no `source_event_id`, so a
   message delivered again after a crash is emitted as another event.
3. **The backfill is not isolated from the live service** (`batch_isolation`,
   `BatchIsolation`). `backfill.py:10` promises a "batch filename_suffix for
   concurrent write isolation". The backfill calls the live handler, which gives the
   writer no suffix and no event date: its rows go to today's live object, and
   replace it.
4. **A replay is not what was live** (`batch_is_live`, `BatchIsLive`).
   `backfill.py:10` says "Same kernels, same handler, same LedgerRow output". The
   handler asks instruments-service for the record of the moment, not of the mark: an
   option revised or delisted since gets other greeks, or none.
   `SameRecordSameRow` says when the docstring is right: if both got the same record.

Six more were met on the way. The models have what the code does, and no run is
spent on them:

- *The tolerance of a fit is on the price*. `black_scholes.py:344` says "Convergence
  tolerance on IV". The loop also returns as soon as the price is within `tol` of the
  mark, so that where vega is small the result may be far off. `RoundTrip` says when
  the docstring is right: if vega is at least 1.
- *A null source id becomes the id "None"*. `mark_update_sub.py:51` says "Source event
  ID from MTDS". `str(raw.get(...))` of a JSON null is `"None"`, which is not empty: it
  is the row's parent, and every such row has the event id `None.greeks`. `Text` has
  this, and `SameRecordSameRow` leaves null texts out.
- *A null venue is "None" live and "" in a backfill*. `mark_update_sub.py:130-131` has
  `str(None)`, `backfill.py:78-79` `str(... or "")`; the row's venue and its partition
  differ, for all that `backfill.py:10` says. A missing one the live adapter rejects
  and the backfill reads as "". `Text` and `Rejected` have this, too.
- *Volga may be negative*. `test_black_scholes.py:583` says "Volga is always non-negative
  (convexity of vega w.r.t. vol)" and asserts it of five strikes. It has the sign of d1 d2,
  and is negative where the log of forward to strike is less than half the variance, that
  is, near the money; none of the five is there. `VolgaFollowsMoneyness` has the sign.
- *compute may raise*. `black_scholes.py:212` says "never raises". `decimal.Overflow`,
  from the square of a volatility beyond 1e500000 or so, is none of the exceptions it
  catches (`Raised`). The handler catches it, and gives None where other degenerate
  inputs give zeros.
- *The health API never reports fresh data*. `api/main.py:26` says of the setter
  "called by greeks-computation pipeline post-write". Nothing calls it, and the process
  that serves HTTP is not the one that handles updates.

Because of the first, the properties of the ledger that hold say what was uploaded
(`emitted`, a history) and what a row in a partition may be, never that a row is
still there.

## 5. Proofs

Eight modules hold proofs, for every value of the constants that satisfies the
assumptions of the modules (`LedgerAssumption`, `BusAssumption`,
`LiveAssumption`, `ReaderAssumption`, `MessageAssumption`, `HandlerAssumption`,
`BackfillAssumption`, `IVAssumption`, `KernelAssumption`, `SurfaceAssumption`). Those say
that
bounds are naturals, that marker values such as `Nobody` are not members of
the sets they are marked off from, that the functions are total, and that a
message with a NaN volatility is not priced; and of `ImpliedVol`, that `Widths`
halve down to one unit and `tol` is more than that; of `BlackScholes`, the
symmetries listed in section 2. Nothing bounds the number of workers,
messages, keys or faults.

| Theorem | Says |
|---|---|
| `LiveService_proofs!TypeCorrect` | `Spec => []TypeOK` |
| `LiveService_proofs!NothingLost`, `CollectedIsWritten` | `AckedWasWritten`, `CollectedWasWritten` |
| `LiveService_proofs!Implements` | `Spec => ImplementsAtLeastOnce` |
| `LiveService_proofs!Traceable`, `RowPerFault` | `RowsTraceable`, `OneMoreRowPerFault` |
| `InstrumentReader_proofs!TypeCorrect`, `Bounded`, `Monotone`, `Forgotten` | the reader's four properties |
| `Backfill_proofs!Honest`, `CostsOnlyItsOwn`, `BatchTypeCorrect` | `CountIsHonest`, `FailureCostsOnlyItsOwn`, `BatchTypeOK` |
| `BatchAndLive_proofs!SharedTraceable` | `SharedRowsTraceable` |
| `BatchAndLive_proofs!SharedImplements`, `SharedRowPerFault`, `SharedTypeCorrect`, `SharedHonest`, `SharedCostsOnlyItsOwn` | `ImplementsAtLeastOnce`, `OneMoreRowPerFault`, `BatchTypeOK`, `CountIsHonest`, `FailureCostsOnlyItsOwn` of the two on one bucket (`SharedSpec`) |
| `IVSurface_proofs!SurfaceTypeCorrect`, `Precedence`, `OnePoint`, `Indexes` | the four properties of `iv_surface`, for chains of any length |
| `MarkUpdateHandler_proofs!HandlerTypeCorrect`, `Live`, `Caused`, `SameRow` | the four properties of `handler`, for every set of updates and every history of the records |
| `BlackScholes_proofs!Equation`, `Duality`, `Parity`, `VolgaMoneyness` | the four properties of `black_scholes`, for all numbers and functions |
| `ImpliedVol_proofs!TypeCorrect`, `BracketKept`, `Fitted`, `Converges`, `Recovered` | the five properties of `implied_vol`, for every grid, tolerance and price function |

How they go:

- *NothingLost*. `AckedWasWritten` alone is not inductive: `acknowledge` settles
  whatever is in `ackIds`, so one must know what that holds. `IndInv` adds
  `CollectedWasWritten`, that what a worker holds was published, and that what was
  written was published. `emitted` only grows, so both survive every other step.
- *Implements*. The refinement mapping reads the status of a message off `acked`,
  `emitted` and `published`, in that order. An upload maps to `Write` if it is the
  message's first and to a stutter otherwise; an acknowledgement to `Settle`, which
  needs `IndInv` for its guard; all else to a stutter.
- *Traceable*. An upload puts into a partition one row, of a message of that
  partition's group, and records its id; the rest of the store is unchanged and
  `emitted` grows. What is in flight is typed, which is `OwnTypeOK`: `TypeOK` without the
  ledger. It is kept by every step of `[Next]_ownVars`, one that may do anything to the
  ledger, as are `IndInv` and the next invariant.
- *RowPerFault*. The bound on the rows of a message is not inductive: it holds where several
  workers are about to upload the message, or where it is to be delivered again, and it
  may break in the next steps. `WithinBudget(m)` counts those too: the
  rows, the workers that may write one of `m` from what they hold (`Handling`), and one more
  if `m` is to be delivered again (`Loose`: not settled, and nobody who could settle it
  holds its lease) are together at most `1 + faults`. A delivery turns the last into the
  second, an upload the second into the first; only a fault adds, and it pays. `Handling`
  is finite by the same count, so no bound on the workers is assumed. `MemoryOK` is
  what makes an upload a turn and not an addition: no worker has a message both in
  `todo` and in flight, and one that polls holds nothing. A lapse is where it is
  subtle: one on a message its holder has dropped is no fault, and there `m` was loose
  already.
- *Reader*. `IndInv` says that no revision was replaced in the future and that
  neither what a caller saw nor what it forgot is ahead of instruments-service
  (`IsHistory`); that a cached record is listed and was still current at the moment
  its entry is dated (`CacheFresh`); and the same of an answer under way and the
  moment its `get` began (`CallFresh`). Dating the entry when the call *begins* is what
  makes `GetReturns` keep `CacheFresh`. Both also carry that the record is no older
  than what was forgotten. `MonotoneReads` takes one more invariant, `SeenBehind`: a
  fresh entry is no older than the last answer, unless that was a 404 given beside it,
  and what instruments-service has answered is no older either (`SeenStep`).
- *Backfill*. `OnePlace` says that a row is in at most one of the shards to come, the
  rows of this one, the handler, and what is written. With it every upload counts a
  new row, so cardinalities and counters move together. `Accounted` says of a run that
  each well-formed row is written, excused, or left to be done (`Left`), of which there
  is nothing at the return. `BatchTypeOK` bounds their sum:
  each row counted leaves `Left`, and none enters it but at the start of a run.
- *BatchAndLive*. `Apart`: a step of the backfill changes nothing of the live service but
  the ledger, so it is a stutter on `ownVars`, and one of the live service is a stutter on
  `batchVars`. Since no invariant of either but those on rows mentions the ledger,
  all carry over (`LiveInvariance`, `BatchInvariance`), and with them the refinement, the
  bound on rows and the honesty of the count. `TypeOK` itself does not: a row of the
  backfill may lie in a partition of the live service. `SharedTraceable` is as
  *Traceable*, twice, over a ledger of the rows of both.
- *Handler*. On the reader's `IndInv`, `RowSound` says that a row is what `LedgerRow`
  makes of its payload, record and event (`RowMade`; with a payload not rejected, which
  keeps junk, and the NaN and the zero prices of an archive, out), that a record in it was current when the reader
  promises, and that a failed one was noted; `HandlingSound` says that the payload in
  hand is the one the fetch is for, and was not rejected, and that a failure came after
  the question. A step of the handler is a step of the reader (`ReaderSteps`), so that
  the reader's invariant needs no second proof, but for `Replaced`. `SameRow` then is about
  pure functions: on a clean payload the two adapters agree; and a uuid is not the one
  before (`RowIsNew`).
- *BlackScholes*. An answer is `Compute` of the market (an invariant), and each
  property of `Compute` is an identity of polynomials: exact for a call, and for a
  put up to `Cdf[x] + Cdf[Neg(x)] - One`, which is at most a unit. `Duality` needs that the
  d1 of an option is minus the d2 of its dual, which follows from that of `Log`.
  `VolgaMoneyness` is that d1 and d2 are the doubled log of forward to strike plus and
  minus the variance, over one divisor.
- *ImpliedVol*. `Halved` says that after n rounds the bracket is `Widths[n]` wide and
  not yet narrower than `tol`, so the middle is strictly inside it and the loop ends
  before `Widths` does; `Bracketed` and it keep each other. No monotony of the price
  is needed. `Recovered` follows from `FittedPricesTheMark` alone.

- *IVSurface*. No induction over lists is needed. Places of a list are totally
  ordered by key and place, so `Rank` is an injection of `1..n` into itself, hence onto
  (`Ranks`, `Places`), and `SortedBy` permutes. `PointPerLeg` says that the points are,
  one to one and in the order of the chain, those of the usable legs so far; `Lists` that
  each index has, in the order of the flat list, its share of it. `TakeLeg` extends
  all three at their ends. `Sort` orders the flat list by (expiry, strike, right) and an
  index by two of these: among points of one expiry, or of one strike, the orders are
  the same (`KeysAgree`), ties included, because all three sorts are stable and started
  from lists in one order (`ListsSorted`).

Only model-checked: the liveness properties (`GoodIsSettled`, `PoisonComesBack`), which
need fairness and `ENABLED`; and the four violations. Every other property of every run
is a theorem.

## 6. Not modelled

- *The values of transcendental functions*. `exp`, `log` and the normal distribution are
  out of reach of TLC and TLAPS; `BlackScholes` has their symmetries, so that a
  relation between greeks is checked and the size of one is not.
- *Decimal rounding*: in the bisection, in the greeks (but for `_norm_cdf`'s last digit),
  and moneyness in a surface.
- *Columns that are copied or constant* (account, client, symbol, timestamps), and
  `row_id`, the event id with a suffix: `LedgerRow` has those a property tells apart.
  `place` stands for venue and asset group, `classified` for the asset class.
- *Parquet encoding* of the writer: every Decimal becomes its text and the file its
  bytes; nothing reads them back in this repository.
- *The health API*: its one variable is never set, so there is no step to model; the
  rest is FastAPI wiring.
- *Configuration* is constants of the models; `get_greeks_config` reads them once, and
  `config_reloaders.py` only raises `NotImplementedError`. *Build, CI, scripts*: no
  state of the running service.
- *Durations*: sleeps and timeouts are steps that may take any time.
- The writer's `event_date` and `filename_suffix` are parameters of `PathFor`, and no
  code passes them.
- *The live service with the whole handler inside it*: `LiveService` has a row as an
  event id and whether greeks are there, and `MarkUpdateHandler` has one process. Their
  product is beyond TLC, and no property needs both.

## 7. How it was built, and what is left

In this order: `PricingLedger`, `MarkUpdateBus`, `LiveService` with `AtLeastOnce`;
`InstrumentReader`; `Backfill`, `BatchAndLive`; `ImpliedVol`; their proofs; `IVSurface`;
`MarkUpdateMessage` and `MarkUpdateHandler`; `BlackScholes`; their proofs.

The bound on rows was first proved for a service with no fault, and `IVSurface` only
model-checked; both were then done in full, and the backfill beside the live service.

No safety property is left unproved. The hazards without a property have a note in
`PROJECT.json` that says why.
