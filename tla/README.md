# Verification of Paro

Paro records what happens on production lines (downtime events, production
counts) through an HTTP API, corrects it under optimistic concurrency with an
audit log, and computes OEE (availability x performance x quality) from it. A
simulator posts a synthetic factory into the same API, once (acceptance runs)
or as a rolling live feed.

This directory holds TLA+ models of that code, the TLC runs that check them and
the TLAPS proofs about them. Section 1 is the inventory of the system, section 2
the plan, sections 3 to 6 describe what exists today.

## 1. Inventory

| Component | Source | State it keeps | Operations |
|---|---|---|---|
| Downtime write API | `api/routers/downtime.py`, `db/repositories.py`, `db/models.py` | `downtime_event`, `audit_log`; one session (transaction) per request | POST (create or recognise), PATCH (correct) |
| Production write API | `api/routers/production.py`, `db/repositories.py` | `production_record` | POST |
| Write gate | `api/auth.py`, `api/rate_limit.py`, `main.py`, `config.py` | limiter window, settings read at start-up | authorize, limit, exempt trusted ingest, readiness |
| Interval algebra | `domain/intervals.py` | none (pure) | clip, union, subtract, durations |
| OEE engine | `domain/oee.py`, `domain/warnings.py` | none (pure) | `calculate_oee` |
| OEE query, read API | `application/oee_query.py`, `api/routers/oee.py`, `api/routers/demo.py` | none (reads three tables) | find the shift with data, count, check the row limit, load, compute |
| Simulator client and transport | `scripts/simulator/client.py`, `transport.py` | attempt counter per request, worker pool | post, patch, resend on 429 and transport errors |
| Rolling live feed | `scripts/simulator/rolling.py`, `scripts/run_live_demo.py` | none between runs: the plan is recomputed from the clock and the database | one window per run: records to post, events to open, open events to close |
| Production simulator | `scripts/simulator/generator.py`, `shift.py`, `rng.py`, `model.py`, `config.py` | random generator seeded per day | one day of events and buckets |
| Simulator QA | `scripts/simulator/qa.py`, `scripts/qa_simulator.py` | report | smoke and acceptance runs |
| Bootstrap, demo seed | `scripts/simulate_production.py`, `scripts/seed_demo.py` | lines, machines, shifts, reasons | look up or insert, commit, post |
| Migrations, analytics views | `alembic/` | schema | outside the models, except the constraints the program relies on |
| Logging, web demo, Power BI, deployment | | | presentation, not modelled |

How they interact: FastAPI runs every sync handler in a thread of a pool, each
with its own session; handlers meet only in the database. Clients (the
simulator, the feed, operators) resend a request whose response did not come.
The OEE query reads in several statements while writers commit. The feed is a
scheduled job without memory: whatever it knows about its earlier runs it reads
from the database.

What is hard, and the properties that make each component correct:

* **Downtime writes** - two deliveries of one POST racing for the idempotency
  key; PATCHes racing between the handler's read and its conditional UPDATE;
  validation done on a row that has changed since; responses lost after the
  commit; deaths anywhere. Correct means: one row per key; no correction lost,
  applied twice or audited as something it was not; a refused request leaves
  nothing; a success is there to stay; every waiting handler ends.
* **OEE** - half-open intervals that touch or nest, open events cut at `as_of`,
  planned stops over unplanned ones. Correct means: planned time is partitioned
  into run time and downtime, nothing is counted twice, the ratios stay in range.
* **OEE query** - the limit is checked on a count that is stale when the rows
  are loaded; downtime and production come from two statements; the overview's
  window from yet another. Correct means: an answer lies between the states it
  has mixed, is exact when nobody wrote, and is about the shift it names.
* **Generator** - stops that outlast their shift, the next one, the day; shift
  windows cut at the ends of a run; cycles on bucket boundaries. Correct means:
  a machine does one thing at a time, shifts agree with the clock, the next day
  finds every machine idle, and no bucket holds more than there was time for.
* **Live feed** - missed runs, delayed runs, overlapping runs, operator
  corrections in between, calls served late. Correct means: nothing of the
  future is stored, a success stays complete, what is lost for good is noticed,
  what an operator enters stands against the runs that had planned before, and
  the feed catches up when faults stop.
* **Client, transport, gate** - retries against a rate limit others use too,
  windows that begin with their first call, workers in any order, processes that
  restart with other settings. Correct means: bounded bursts, refused calls that
  cost nothing, a client that only gives up when others crowd it out.
* **Bootstrap, QA** - look up and insert without a lock, in different orders;
  external ids shared by windows that differ. Correct means: no natural key
  twice, a pass means that everything is stored, and every script gets through.

`PROJECT.json` lists every hazard at its line with the properties that cover it.

## 2. Plan

| Step | Modules | Abstract specification | Runs | Theorems |
|---|---|---|---|---|
| 1 (done) | `DowntimeRows`, `EventLedger`, `DowntimeEvents` | `EventLedger` | `corrections`, `retries`, `coarse_clock`, `post_again`, `patch_again` | type correctness, unique keys, refinement, audit chain; what an answer says about the tables |
| 2 (done) | `Intervals`, `Oee` | sets of instants | `downtimes`, `subsecond` | type correctness, loop invariants, partition of the window; durations nest, no result is unexplained |
| 3 (done) | `OeeQuery`, with writers between its statements | the committed states it lies between | `reads` | answers are of their time, overviews show the shift, add up and never go back |
| 4 (done) | `LiveFeed`, with production records and operators | | `feed` | every safety invariant and the corrections |
| 5 (done) | `WriteGate`, with the retrying client | | `gate` | refusals cost nothing, bursts are bounded, only the crowded give up |
| 6 (done) | `Generator`, `SimulatorQa`; `Bootstrap` with transport and QA | | `generator`, `bootstrap` | one thing at a time, shifts, days are handed over, generated runs pass the QA; no natural key twice, a pass can be believed |

How the modules compose. `DowntimeEvents` shows that each request to the write
API takes effect at one step or not at all, so `LiveFeed`, `Bootstrap` and
`OeeQuery` let a request (or a writer's commit) be one step. `Oee` shows that
planned and run time are the instants the downtimes leave, in the longest
possible stretches, so `OeeQuery` takes them to be those and cuts each stretch
to whole seconds as `duration_seconds` does. `Generator` shows that a day's events end with the day and
that neighbouring days do not meet, which `LiveFeed` assumes of the events it
posts (`EventsEndWithTheirDay`). `WriteGate` shows what the rate limiter does to
the calls whose failures `LiveFeed` and `Bootstrap` allow at any point.

## 3. Modules

* `DowntimeRows` - the two tables' data: fields, rows, constraints, the
  difference between two rows, a change set and its merge.  `reason_id` stands
  for every patchable column that only a foreign key constrains (`machine_id`,
  `is_planned` and `operator_note` behave no differently), `line_id` for what a
  PATCH can never change.
* `EventLedger` - what the write API promises: rows are recorded once per key
  and corrected one at a time, each correction leaving exactly its own
  difference in the audit log and a later `updated_at`. No requests, no locks.
* `DowntimeEvents` - the handlers. A client operation `o` is delivered up to
  `MaxAttempts[o]` times, always with the same body (`_request_with_retry`
  sends the same JSON again, or the user presses the button again); a delivery
  `<<o, n>>` is a process whose `pc` runs through

      POST   sent -> insert -> commit -> respond -> done
                            -> conflict -> (409 | respond -> done)
      PATCH  sent -> update -> commit -> respond -> done
                            -> stale -> (409)

  with early ends for 404, 409, 422 and 500, and `Fail` from anywhere (the
  session is closed, so an open transaction is rolled back). A delivery that died
  ends as `failed`, or as `lost` if its transaction was already over and only the
  response did not arrive. One action is one
  stretch between two accesses to data that another request can change:

  | Action | Code |
  |---|---|
  | `PostReceive` | validation, the 404 checks, up to the INSERT |
  | `PostInsert` | the INSERT in its savepoint, with PostgreSQL's wait on an uncommitted key |
  | `PostConflict` | the SELECT of the existing row and the comparison |
  | `PatchRead` | `db.get`, all checks, the token check, the diff, `datetime.now` |
  | `PatchUpdate` | the conditional UPDATE, with the wait on a locked row, and the `AuditLog` row |
  | `PatchStale` | the SELECT of the version that is reported |
  | `Commit`, `Respond` | `db.commit()`, and the re-read that builds the response |

  The database is PostgreSQL under READ COMMITTED, the default of the
  production engine; `KeyLocked` and `RowLocked` are its locks. The rows of
  `production_line` and `downtime_reason` never change while the API runs.
  `UniqueStamps` says whether two calls of `datetime.now(UTC)` may return the
  same microsecond.
* `MCDowntimeEvents` - the bodies and bounds of the runs.
* `Intervals` - half-open intervals of ticks (a tick is the resolution of a
  timestamp, a second has `TicksPerSecond` of them), `clip`, and the bodies of
  the loops of `union` and `subtract`. `SortingsOf` is Python's `sorted`, by its
  result.
* `Oee` - `calculate_oee` as a sequential program: `call` says which of its
  calls is being evaluated, `pc` in which loop it is.

  | Action | Code |
  |---|---|
  | `Reject`, `Begin` | the refusals; resolving the spans and their warning |
  | `UnionNext`, `UnionReturns` | the loop of `union`, for `subtract` and for `duration_seconds` |
  | `SubtractNext` | the loop of `subtract` |
  | `SumNext` | the sum in `duration_seconds` |
  | `PlannedReturns`, `PlannedMeasured` | `planned_production_segments` and its duration |
  | `UnplannedReturns` | one round of `_run_time_segments` |
  | `RunMeasured` | run time, components and warnings |

  The reference it is compared with, `Stopped`, is the set of instants at which
  a downtime lasts. Ratios are pairs, so the rounding of `Decimal` is left out.
* `MCOee` - the windows, downtimes and counts of the runs.
* `OeeQuery` - one request after another, each a sequence of statements between
  which writers commit:

      GET /oee            (422) -> line -> count -> limit -> load -> loaded -> 200
      GET /demo/overview  data_through -> line -> ...                       -> 200

  with 404, 422 and 503 on the way. Time is in ticks, and every stretch and every
  clipped event is cut to whole seconds where the code does it: `Seconds` is
  `Interval.seconds`, `SecondsOf` is `duration_seconds`, `SecondsIn` is the clip
  of `demo_overview`. The writers store records and events, and `CorrectEvent` is
  a PATCH: it closes, reopens, moves or reclassifies any event (`machine_id` and
  `operator_note`, which the reads do not look at, are left out), and
  `updated_at` tells its versions apart. `CountDowntime` and `CountProduction` are
  the two counts the limit is checked on, `LoadDowntime` and `LoadProduction`
  the two SELECTs; `ReadDataThrough` finds the latest `interval_end` and from it
  the shift (`CompletedShiftWindow`). `began` keeps the rows of the moment the
  query began and how much had been committed by then, for the properties.
* `Generator` - `generate()`: `NextMachine` is the loop over the machines,
  `SkipWindow`, `ChangeOver`, `ResumeShift` and `LeaveWindow` the loop over the
  shift windows, `RunCycle` one round of the cycle loop with the failure, micro
  stop or neither that follows it, `CountProduction` the bucketing. What the
  random generators return is chosen by `\E` from sets of positive lengths, so
  a behaviour exists for every sequence of draws.
* `SimulatorQa` - the structural checks of `qa.py` and the mean cycle time of
  its statistical bands, on the output of `Generator`; `MCGenerator` has the
  instance.
* `LiveFeed` - runs of `run_live_demo.main`. `Plan` reads the database and makes
  the list of calls (missing records, missing events, closings); `Answered`,
  `GoesWrong`, `ServeStray` are a call that is answered, one that is lost,
  refused for another reason or resent, and one the server gets to when its
  client is gone; `Exit` and `Killed` end a run; `Correct` is an operator. An
  event's `version` stands for `updated_at`, an event is its place in the
  deterministic past: start, end and production day. A call keeps, as history,
  the row it was planned from (`saw`): `CorrectionsStand` compares it, column by
  column, with the row the feed writes into, so the version is tested by what it
  is there for. What an operator enters before a run plans is no different to the
  feed from its own rows: an event that was reopened is closed again by the next
  run (`rolling.py:190`), and `CatchesUp` says so. `Plan` is one step, where
  `build_rolling_plan` runs several SELECTs (see section 6). `MCLiveFeed` has the
  instance.
* `Bootstrap` - `seed_demo`, `simulate_production` and `qa_simulator` as lists of
  statements (`get`, `insert`, `create`, `ensure`, `resolve`, `commit`) that each
  script executes in its transaction, with the unique keys, the waits on
  uncommitted keys (`Waits`) and the database's choice of a victim (`Deadlock`);
  then `Post` and `PostInTrouble` for the transport and `EndOfTransport` for the
  smoke and acceptance stages of a QA run with `check_idempotency`. A crashed or
  killed script is started again (`Run`), one that has returned may be
  (`RunAgain`). `MCBootstrap` has the instance.
* `WriteGate` - a process (`Start`, `Stop`) with the settings it was started
  with, the limiter's windows, workers that send a call and wait before they send
  it again (`Begin`, `Attempt`, `AttemptInVain`), other callers (`OtherCall`),
  and time (`Tick`), kept as what is left of a window and of a wait. `recent` and
  `breaches` are history. `MCWriteGate` has the instance.
* `DowntimeEventsProofs`, `EventLedgerProofs`, `OeeProofs`, `OeeQueryProofs`,
  `GeneratorProofs`, `LiveFeedProofs`, `WriteGateProofs`,
  `BootstrapProofs` - see section 5.

Operators whose comment starts with "Mutant" are plausible bugs of the action
they precede, in its place; each property is violated when one of them replaces it.

## 4. Runs

| Run | Instance | Checks | Shows |
|---|---|---|---|
| `corrections` | 3 operations, each once; 5 POST bodies (3 accepted shapes, an empty period, an unknown reason), 7 change sets (3 accepted, 4 refused) | `TypeOK`, `NoServerError`, `SuccessIsDurable`, `RefusedLeavesNoTrace`, `LedgerSpec` | whatever three concurrent requests do, die or are refused, the tables evolve as the ledger allows, and neither a refusal nor a death before the end of the transaction leaves a trace |
| `retries` | 3 operations, one delivered twice; two bodies of one key; both ends of a write skew | `AppliedAtMostOnce`, `StaleReportsANewerRow`, `ConflictMeansCorrected`, `AuditChain` | resending is safe, and a conflict always has the reason it gives |
| `coarse_clock` | 3 operations, repeating timestamps, `FairSpec` | `OneRowPerKey`, `HandlersFinish` | the key needs no clock; handlers waiting for locks end |
| `post_again` (violation) | | `SamePayloadReturnsExisting` | POST, PATCH, the same POST: 409, where the docstring says the existing row is returned |
| `patch_again` (violation) | | `StaleMeansSomeoneElse` | a PATCH resent after a lost response is refused as stale though nobody else wrote |
| `downtimes` | up to three downtimes, planned or not, closed or open, in any order, over 7 instants around a window of 4; two ticks to a second; with up to one downtime also refused, empty and excessive counts and an explicit `as_of` | `TypeOK`, `TimeIsAccountedFor`, `NothingIsCountedTwice`, `DurationsAreNested`, `WarningsExplainTheResult` | planned and run time are what the downtimes leave, to the tick; what is cut to whole seconds still nests; a missing component has its warning |
| `generator` | one line of two machines, runs of 8 ticks that begin with a shift, inside one, or before the day's first; three shifts to a day of 12, buckets of 3; two cycle times, changeovers of 1 or 2, stops of 1, 3 and 5 | `TypeOK`, `OneThingAtATime`, `CyclesRunInTheirShift`, `ShiftsBeginWithAChangeover`, `NothingReachesTheNextDay`, `StructuralCheckPasses`, `CountsFitTheRunTime` | for every sequence of draws a run is possible production, and passes the checks its own QA makes |
| `feed` | two runs that may overlap, two workers, two events of neighbouring days, a window of two buckets, five instants, one trouble or correction, `Fairness` | `TypeOK`, `NothingFromTheFuture`, `SuccessIsComplete`, `LossIsNoticed`, `FailuresHaveAReason`, `CorrectionsStand`, `CatchesUp` | the feed is never early, never loses anything in silence, never undoes what an operator entered after its plan, and catches up |
| `reads` | three windows, one of them empty and refused, and the overview, two sources, three ticks to a second, up to four commits of records, events and corrections between the statements, `MaxRows` within reach | `AnswersAreBetween`, `WindowIsTheShiftSoFar`, `OverviewAddsUp`, `OverviewGrows` | an answer mixed from several states stays between them although every stretch is cut to whole seconds, it is bounded in size, and the overview does not take back what it has shown |
| `bootstrap` | an empty database; two seeds and a simulator, or a seed, a simulator and a QA run, at once; one trouble (kill, lost answer, failed call, another run) | `NoDuplicates`, `PassMeansStored`, `BootstrapsConverge` | races, deadlocks and kills only delay a script, and a pass can be believed |
| `gate` | two workers and other callers on one budget; three environments, four pairs of headers; a limit of 2 per window of 3, 4 attempts after 1, 2 and 3 | `BurstIsBounded`, `RefusalsCostNothing`, `GivingUpIsOutnumbered` | at most two windows' worth in any minute, refused calls are free, only a crowded client gives up |
| `subsecond` (violation) | at most one downtime, two ticks to a second | `DurationSumsAreExact` | each stretch is cut to whole seconds by itself, so that a planned time of exactly n seconds may be reported as less |

Why these bounds are enough, for the write API: every hazard of the component needs at most three
actors on one row (a writer, a second writer, and either a repeat of one of them
or a reader of what both did) and one key. Three operations with one of them
repeated give all orders of four handlers. Values: two instants and NULL per end
of the period make every outcome of the CHECK reachable, and a value equal to
the current one (the no-op) occurs. The clock only moves when a stamp is taken,
so it needs no bound of its own.

For OEE: two intervals have thirteen relative positions, and a step of a loop
compares one interval with the last one merged or with the cursor, which comes
from at most one other; three downtimes over seven instants contain all
positions of two, in a context of a third. That longer lists bring nothing new
is proved, not checked.

For the generator: every boundary that matters (start of the run, of a shift, of
a day, of a bucket, end of the run) falls inside, on and outside the others in
one of the three periods; a stop of 5 outlasts the shortest shift (3) with its
changeover. About 250 000 states.

For the feed: what can go wrong needs one run that planned before another wrote,
or one call that comes late, and one event that ends between them; the second
event is one that its production day cuts. The window is as long as a production
day, so a record falls out of it within the run. One trouble at a time is
enough to make each property fail in one of its mutants; a second one multiplies
the states beyond what can be searched. About 900 000 states.

`Patience` bounds how long a run may last, and `RunsEndWithinTheWindow` says
that it is no longer than the catch-up window. In the code the longest a call
lasts is its attempts and the waits between them, so that a run lasts minutes,
and the window (`CATCH_UP_HOURS`) is 48 hours. The bound is tight: TLC finds no
violation of `LossIsNoticed` with runs as long as the window, and one with runs
one instant longer, where a run that planned a window ago is still posting and
stores a record behind which later runs do not look.

For the reads: an answer mixes at most five states (one per statement), the
properties compare the first with the last, and four commits put one before,
between and after any two statements, and one more. Three ticks to a second let
a stretch lose one or two, and bounds of events fall on, before and after whole
seconds and the edges of the window; a day has six seconds in three shifts. The
four PATCHes close an event (open or closed), reopen it, move its start and
reclassify it. About 1 000 000 states.

For the bootstrap: a deadlock needs two transactions and two keys, a lost race
one key, the recovery from both a third script that holds them up. One reason
more or one topology row more only lengthens the lists. About 130 000 states.

For the gate: the timers are the code's to scale. The client waits 1, 2, 4, 8,
16, 32 and 60 seconds, 123 in all, and a window is 60: the waits before the
last but one attempt add up to a window, and the last wait is one. So is it
with 1, 2, 3 and a window of 3. About 2 100 000 states; deadlock is checked,
since time always passes.

`CHECK_DEADLOCK FALSE` in the generator, feed and bootstrap runs: `generate()`
returns, the feed's clock stops at `LastTick` (with the runs at rest), and
scripts return.

Fairness, in `coarse_clock`: `WF` of each handler's steps. The pool runs an admitted request to its
end or its thread dies (`Fail`, for which nothing is assumed); a lock is held by
a request that itself goes on. Nothing is assumed of clients. In `feed`: cron
starts runs (`render.yaml`, every quarter of an hour), a run that is not killed
goes on, time passes, and a call on its way is served in the end; nothing is
assumed of operators or of faults. In `bootstrap`: a script executes its next
statement unless it waits, the database resolves deadlocks, and a crashed script
is started again, but only when the sessions it ran into have ended (`behind`).
That last condition is an assumption on whoever restarts it (cron does so a
quarter of an hour later): without it TLC finds two scripts that are restarted
at once into the same deadlock forever, since the seed inserts the reasons in
the order of its catalogue and `_ensure_reason_catalog` in the order of their
codes.

Symmetry: operations are interchangeable in `corrections`, and the two that are
not repeated in `retries`; neither run checks liveness.

What the runs show of the code beyond their properties:

* The acceptance tier of `qa_simulator` never passes on a database: its ids
  (`sim-<machine>-<index>`, `sim-line<line>-<index>`) do not name their window,
  so it meets the rows of the smoke run, which it makes first, with other
  payloads under its ids, and gets 409; so does any second QA run at another
  time. `PassMeansStored` says that it reports the failure, as it should.
* A client with several workers can use up its attempts on 429 answers only
  after two full windows of calls of others were admitted since its first
  attempt; its own other workers are among the others.
* A call that passed the gate is charged to the budget whatever its handler
  answers: a 404 or 409 counts like a 201 (the model's 500 stands for all of them).

## 5. Proofs

The theorems about the write API hold for every number of operations, deliveries, keys, values and
bodies. They assume only what the modules assume of their constants
(`MarkersAreDistinct`, `BodiesAreTyped`, `NoneIsNoRecord`: markers such as NULL
are no data, bodies are well typed), which TLC evaluates on every run.

* `TypeCorrect`. `TypeOK` is not inductive: that a handler about to commit has a
  write, one that found a conflict an existing row, one that answers a row to
  answer with, is what `ControlInv` adds, label by label.
* `KeysStayUnique` (`Spec => []OneRowPerKey`), whatever the clock does. `KeyInv`
  adds that uncommitted writes hold different rows and different keys, and that
  a key being inserted is in no committed row.
* `HandlersImplementTheLedger` (`Spec => LedgerSpec`) and `ConstraintsNeverFire`
  (`Spec => []NoServerError`), if timestamps are unique. The argument is about
  versions: `StampInv` says that every stamp taken is older than the clock, not
  in the table, and nobody else's; `TokenInv` that no stamp in flight equals a
  token about to be compared, hence that a token which still matches means that
  the row is the one that was read, and what was validated and diffed on it is
  still true; between the UPDATE and the commit the row lock keeps it so.
  `DowntimeRows` lemmas show that the audited difference is what the merge does.
* `RefusalsLeaveNothing` and `ConflictsAreCorrections` (`Spec =>
  []RefusedLeavesNoTrace`, `Spec => []ConflictMeansCorrected`), whatever the
  clock does. The first is about deliveries that were refused and about those that
  died before their transaction was over; `TraceInv` says that only a delivery past
  its commit has left a row or an audit entry, and that one past its commit that
  dies is `lost`, not `failed`. For the second, `ConflictInv` says that a row
  holds the payload of its POST until an audit entry says otherwise, and that
  behind every 409 there is such a row: of the same key, with another payload or
  audited.
* `CorrectionsApplyOnce`, `StaleIsNewer` and `SuccessLasts` (`AppliedAtMostOnce`,
  `StaleReportsANewerRow`, `SuccessIsDurable`), if timestamps are unique.
  `SpentInv` says that an audited correction has replaced the version its client
  had read, so that its token is in no row again; `StaleInv` that a token is the
  version a row has or had, hence that a delivery on its way to 409 has met a
  later one; `AnswerInv` that the row which was answered is in the table, or an
  earlier version of the one that is.
* `LedgerKeepsItsPromises`: any ledger keeps its audit chain and its unique
  keys (`Chain` is shown to survive an append, per event and field), and
  `AuditLogExplainsTheRows` carries the chain over by the refinement.

The strengthened invariants of this and of the other components were checked by
TLC, on the instance of the run, before they were proved. Without unique timestamps
the ledger does not hold (two corrections within one microsecond share a token;
`docs/downtime-corrections.md` accepts this), so the assumption is needed.

For OEE, for every window, all lists of downtimes of any length and any counts,
assuming that a second is a positive number of ticks (`TimeIsDiscrete`), that
the arguments are well typed (`InputsAreTyped`) and that `None` is no name of a
call and no ratio (`NoneIsNoCall`, `NoneIsNoRatio`):

* `TypeCorrect` (of `OeeProofs`): no loop builds an empty or inverted interval,
  which `Interval.__post_init__` would refuse in the middle of a report, and no
  ratio has a zero denominator.
* `TimeIsPartitioned` (`Spec => [](TimeIsAccountedFor /\ NothingIsCountedTwice)`).
  `LoopInv` holds the three loop invariants: what `union` has merged is separated
  and covers what it has read (`UnionInv`); what `subtract` has kept is what the
  blocks read so far leave of the base up to the cursor, behind which they do not
  reach (`SubtractInv`); the run time is what the unplanned downtimes leave of
  the segments dealt with (`RunInv`). Each loop's end hands its invariant to the
  next call. The first part of `OeeProofs` has the facts about one iteration. They
  need no induction over lists: the loops do it.
* `NothingCountedTwice` is its second half.
* `DurationsNest` (`Spec => []DurationsAreNested`). Every stretch is cut to whole
  seconds by itself, so run time and planned time are two sums over two lists, cut
  in different places. `SecondsInv` relates them: what `subtract` hands over is
  in order and apart, so that the union inside `duration_seconds` has nothing to
  merge (`NothingToMerge`); a sum so far is at most the seconds of what it has
  measured, and short of them by less than a second for each stretch (`SumInv`);
  and the run time is charged, stretch by stretch, to the planned segment the
  stretch lies in (`RunSumInv`): `PrefixSums` are the whole seconds of the first
  segments, a recursive function of which only one step at a time is used.
* `NoResultIsUnexplained` (`Spec => []WarningsExplainTheResult`). `WarningsInv`
  says of each label which warnings have been found by then and what they stand
  for; that there is no run time without planned time is `DurationsNest`.

For the reads, for any shifts, windows, rows and number of commits, assuming that
constants are typed (`QueryConstants`), that rows keep the tables' constraints
(`DraftsAreValid`) and that NULL is no number and no source (`NoneIsNoData`):
`AnswersAreOfTheirTime`, `OverviewsShowTheShift`, `SecondsAddUp` and
`OverviewsNeverGoBack`, hence each property of the run.

* Totals are sums that a library operator folds over a set in an order nobody
  knows. `SumsAreWeights` shows that such a sum of natural numbers is the number
  of pairs <<x, i>> with 1 <= i <= g[x] (`Weight`), by the smallest subset for
  which the two would differ; so a sum grows with its set, and `PiecesCover`: what
  pieces cover is no larger than their sum.
* `RowsInv` says that rows are valid, finitely many and older than the next
  commit, and that no two versions are of one commit. From there `StepsOfRows` and `StepsOfRequests` reduce the steps to
  what they do to the rows, and to the request.
* `OverviewsShowTheShift`. `ShiftSoFar` is about the arithmetic: among the
  beginnings of shifts on the day of an instant and the day before there is a
  latest one that is not after it, it is the beginning of a shift, and no shift
  begins between the two. `RequestInv` carries the window through the statements.
* Seconds are the delicate part, since each stretch is cut for itself and two
  sets of instants are cut in different places. `SecondsFit`: whole seconds of
  two sets that have nothing in common fit into any set that has both (each
  second counted in one of the two reaches over the last tick of a whole second
  of the larger set, a `Mark`, and no two reach over the same). `SecondsOfSets`, by `CutToSeconds`:
  a set has no more instants than its seconds have, and less than a second more
  for each of its stretches.
* `AnswersAreOfTheirTime`. A PATCH may change any field of any event, closed ones
  too, so nothing is known of an event but that a version of it is of one commit
  and never comes back (`CommitsMoveOn`). Against the moment the query began
  (`Past`): no record is gone, and each record and each version is older than
  the next commit. `Flight` follows the statements: of the rows that had been
  there when the query began, no more are loaded than were counted
  (`OldEvents`, `OldRecords`); what else is loaded is of later commits, no two of
  the same one, hence the bound on the load (`LoadIsBounded`); every event
  that stayed as it was is loaded; and with no commit since the beginning what
  was loaded is what is there. `GivenBetween` is the answer when it is given,
  `StaysBetween` that commits do not change what it claims.
* `OverviewsNeverGoBack`. `LastInv` says that the record with which the last
  overview's window ended is still there, that a request on its way reaches at
  least as far, and that what the last one counted is at most what its window has
  now.
* `SecondsAddUp`. The ticks of the events in a window are the pairs of an instant
  and an event that stops it (`TicksArePairs`), their seconds these pairs but for
  less than a second an event (`PairsInSeconds`). A stretch of run time begins
  with the window or where an event ends, so there is at most one more of them
  than of events (`RunsBeginAtEnds`); `LossIsBounded` adds up what is lost on
  either side to at most two seconds an event. That no event is longer than the
  line stood is `SecondsFit`, of the event and the run time in the window.
  `TopIsFull` numbers the reasons by how many have more seconds than they (ties
  by name): different numbers for different reasons, below their number, so each
  number is taken and the list is full.

For the generator, for any machines, shift times, periods and draws, assuming
that the configuration is one `generate()` accepts (`AcceptedConfig`), that
every draw is a positive number of ticks (`DrawsArePositive`) and that a day has
some (`TimeIsDiscrete`): `MachinesDoOneThingAtATime` and `DaysAreHandedOver`.
`OneThingAtATime` is not inductive: the strengthening (`IInv` of
`GeneratorProofs`) adds that the clock has left behind all that was recorded of
the machine being simulated, that machines still to come have nothing recorded,
and that no event begins behind the end of the period (a changeover or a cycle
begins inside a window, and windows are cut there). `Records` says what a step
may record, and `RecordingKeepsIInv` that this keeps the invariant; each action
is then shown to record no more.

* `TypeCorrect` (of `GeneratorProofs`): `TypeOK`; `TypeInv` adds that the cycles
  of a machine are finitely many, which counting them into buckets needs.
* `RatesAreTheShifts` (`CyclesRunInTheirShift`): every window lies between two
  neighbouring shift boundaries, so no boundary is inside one
  (`OneShiftInAWindow`), and the shift that the window is of is that of each of
  its cycles.
* `EveryShiftIsOpened` (`ShiftsBeginWithAChangeover`): `ShiftsInv` says that each
  shift the loop has left behind was opened by one changeover, or lies within one
  stop, and that the clock is only carried past a shift's end by a stop that
  began before it, however long.
* `GeneratedRunsPass` (`StructuralCheckPasses`), if the micro stops are cut below
  the boundary at which failures begin, as in `config.py` (`StopsAreClassed`).
  `StopsInv` says of which class a stop is, `RecordsInv` that the records are those
  of the events and cycles there are.
* `UnitsFitTheirTime` (`CountsFitTheRunTime`), if a warm-up makes no cycle shorter
  (`WarmupIsSlower`). `PaceInv` adds that a cycle takes at least the shortest time.
  `CyclesTakeTime` maps tick i of cycle c to the instant c.start + i: the mapping is
  injective, since cycles are apart, and reaches only instants at which no machine
  of the line stands, since only undisturbed cycles count. `TotalsAddUp` shows that
  the records of the first n buckets add up to their cycles: the recursive function
  is the cardinality, by the least n at which the two would differ.

For the feed, for any buckets, events, operators' corrections, number of runs
and workers, assuming that constants are typed (`FeedConstants`), that an event
ends with its production day (`EventsEndWithTheirDay`, which `Generator` shows of
the events it makes) and that a run lasts no longer than the catch-up window
(`RunsEndWithinTheWindow`, which only the fourth needs): `FeedIsTyped`, `FutureStaysOut`,
`SuccessMeansComplete`, `NothingIsLostUnnoticed`, `FailuresAreExplained` and
`FeedKeepsCorrections` (the action property `CorrectionsStand`), hence each
property of the run but `CatchesUp`. For the last of these, `FeedInv` says of every
call on its way, given up or not, that versions only grow and that a row which
still has the version the call expects is the row the call was planned from
(`WrittenAsPlanned`); so the server's test of the version is a test of every
column, also of a row that was closed and opened again in between. Three inductive invariants carry them.
`FeedInv`: one row of an event, no call before its time, closings that name a
version which was open, and with it the row they were planned from (`saw`). `PlanInv`: as long as a run has not failed, what it
planned is stored or still among its calls (`PlanIsCovered`), every call is of
its plan and no two are of one event (`CallsArePlanned`), and what an undisturbed
run planned is still right (`PlanStillHolds`). `WindowInv`: the windows of the
runs that succeeded or still may leave no bucket out between them, unless a run
has failed or found a gap (`WindowsOverlap`); a run's cutoff is within its
patience of now (`RunsAreRecent`), so that the next window begins before the
last one ends.

For the gate, for any environments, credentials, budgets and workers
(`GateConstants`): `RefusedCallsCostNothing`. The strengthening says that a
process that answers was started with one environment and not with production
and no key, so that whoever `require_api_key` lets pass may write.

`BurstsAreBounded` and `OnlyTheCrowdedGiveUp`, for any limit and window. A section
on sums shows of the community modules' `SumFunctionOnSet` that the order of
summation does not matter, and that it is the last of the prefix sums. `CallsAreCounted` speaks of prefix sums by age: the calls since the present
window was opened are those it has let pass, and those before are at most the
limit. `ClientsAreCrowded` follows a client from its first 429: what is let pass
in the present window is of others, or the window began before so much was
waited; before the last attempt one window of others has passed. The second
theorem needs that the waits outlast the window (`WaitsOutlastTheWindow`): those
before the last but one attempt add up to one, and the last is one. The code's do,
with 63 and 60 seconds against 60.

For the bootstrap, for any scripts (any number of seeds and simulators at once),
topologies and catalogues, assuming that constants are typed and keys of
different tables differ (`BootstrapConstants`, `KeysAreApart`): `KeysStaySingle`
(`Spec => []NoDuplicates`). For the unique keys it says that no two open
transactions hold the same one and that none holds a key with a committed row
(`KeysAreHeld`). The shift has no constraint. That two seeds never both insert it
needs three more facts: a seed is at some place of its script and finds what it
looked for before that place (`SeedsAreInOrder`); a transaction that holds the
shift holds the seed's line, and the two are committed together
(`ShiftComesWithLine`); simulators touch neither (`SimulatorsKeepAway`). So a seed
that does not find the shift has inserted the line itself, which only one open
transaction can.

`PassesCanBeBelieved` (`Spec => []PassMeansStored`), if `None` is no key as well
(`NoneIsNoKey`). What a pass says is pieced
together stage by stage: `StagesAddUp` says for each stage of a simulator or a QA
run that a draft which was answered is stored as its window generates it, and,
unless there is a finding, all drafts of the stages before; `PassesHold` that
this is still so when the script has returned; `EnsureIsLast` and
`NothingIsSkipped` that nobody posts before the rows of its list are committed.

Only model-checked: liveness under fairness (`HandlersFinish`, `CatchesUp`,
`BootstrapsConverge`), which is out of the prover's reach. Every other property
of the runs that pass is proved.

## 6. Not modelled

* The statistical bands of the QA other than the mean cycle time, the
  distributions of the draws and the derivation of seeds: a model checker has
  possibilities, not frequencies.
* The statements of `build_rolling_plan`, as such: `Plan` reads at one step what
  the code reads in three SELECTs under READ COMMITTED (records, events, the latest
  record of each line). An operator's correction, or a run's write, between them is in the model before
  or after all of them.
* Calls refused with 422 by request validation before the handler runs, in
  `WriteGate`, and that slowapi counts by URL path, so that the PATCHes of each
  event have a budget of their own: the model's budget is that of one path.
* The freshness flag of the overview (it compares `data_through` with the clock)
  and the demo's pages.
* The separate budget of GET /oee under the same limiter; headers, CORS and
  request logging, which keep no state another component reads.
* A POST without `source` or `external_id`: it has no idempotency key, the code
  promises none, and no client in the repository sends one. The refusal of naive
  timestamps, and `total_seconds`, which nothing calls.
* Migrations and analytics views, except the constraints the program relies on;
  JSON conversion, the web demo, Power BI, deployment.
* The rounding of `Decimal`: ratios are pairs of numerator and denominator.
* The SQLite dialect, which only tests and local development use (one writer at
  a time: a subset of the interleavings here).
