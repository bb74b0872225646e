------------------------------- MODULE LiveFeed -------------------------------
(***************************************************************************)
(* The rolling live feed: run_live_demo.main, which plans with             *)
(* build_rolling_plan what the database lacks of a deterministic past,     *)
(* posts it through transport() and then closes, one by one, the events    *)
(* that have ended. Runs are started by cron and may overlap, be late,     *)
(* fail in part or be killed; calls and answers may be lost, resent and    *)
(* late; operators correct events of the feed through the same API.        *)
(*                                                                         *)
(* Each call is one step at the server: DowntimeEvents shows that a POST   *)
(* or PATCH takes effect at once or not at all. An event's version stands  *)
(* for updated_at.                                                         *)
(***************************************************************************)
EXTENDS Integers, SequencesExt

CONSTANTS
  Lines,            (* numbered in the order of their codes                    *)
  EventOrder,       (* external ids of the deterministic downtime events, by   *)
                    (* machine and started_at                                  *)
  EventStart,       (* their started_at,                                       *)
  EventEnd,         (* and ended_at, cut where the production day ends         *)
  EventDay,         (* the production day from whose seed they are drawn       *)
  Day,              (* ticks in a production day; 0 is the start of one        *)
  Bucket,           (* PRODUCTION_BUCKET_MINUTES                               *)
  CatchUp,          (* CATCH_UP_HOURS                                          *)
  Attempts,         (* RETRY_MAX_ATTEMPTS                                      *)
  Patience,         (* bound: ticks a run may last                             *)
  Workers,          (* max_workers of transport()                              *)
  Runs,             (* how many runs may overlap                               *)
  LastTick,         (* bound: the clock stops here                             *)
  MaxTroubles,      (* bound: lost, late and failed calls, killed runs and     *)
                    (* operators' PATCHes                                      *)
  CorrectedStarts,  (* the started_at and                                      *)
  CorrectedEnds,    (* ended_at operators send                                 *)
  Open              (* ended_at is NULL                                        *)

Events == Range(EventOrder)

ASSUME FeedConstants ==
  /\ {Day, Bucket, CatchUp, Attempts, Patience, Workers} \subseteq Nat \ {0}
  /\ {LastTick, MaxTroubles} \subseteq Nat
  /\ Lines \subseteq Nat /\ IsFiniteSet(Lines) /\ EventOrder \in Seq(Events)
  /\ EventStart \in [Events -> Nat] /\ EventEnd \in [Events -> Nat]
  /\ CorrectedStarts \subseteq Nat /\ CorrectedEnds \subseteq Nat
  /\ Open \notin Int

ASSUME EventsEndWithTheirDay ==
  /\ EventDay \in [Events -> Nat]
  /\ \A e \in Events :
       /\ EventDay[e] * Day <= EventStart[e] /\ EventStart[e] <= EventEnd[e]
       /\ EventEnd[e] <= (EventDay[e] + 1) * Day

(* No run outlasts the window it has planned.                              *)
ASSUME RunsEndWithinTheWindow == Patience <= CatchUp

VARIABLES
  now,
  stored,           (* production_record rows of the feed                      *)
  event,            (* Events -> the downtime_event row, or {}                 *)
  run,              (* Runs -> a run of main                                   *)
  stray,            (* calls a client gave up that the server has yet to serve *)
  troubles,         (* how many there have been                                *)
  disturbed,        (* history: runs in whose time somebody else wrote, or     *)
                    (* one of whose calls went wrong                           *)
  succeeded,        (* history: cutoffs of the runs that returned 0            *)
  alarm             (* history: a run failed, was killed or reported a gap     *)

history == <<disturbed, succeeded, alarm>>
vars == <<now, stored, event, run, stray, troubles, history>>

(* event[e] is a set of at most one row. *)
Exists(e) == event[e] # {}
Row(e)    == CHOOSE r \in event[e] : TRUE

NotRunning == [pc |-> "idle", cutoff |-> 0, failed |-> FALSE,
               calls |-> << >>, gap |-> FALSE]

Running == {r \in Runs : run[r].pc = "posting"}

-----------------------------------------------------------------------------
(* The plan. *)

LatestClosedBucket(t) == t - (t % Bucket)

ProductionDay(t) == t \div Day

DayRuns(horizon, cutoff) ==
  {e \in Events : EventDay[e] \in ProductionDay(horizon)..ProductionDay(cutoff)}

IntersectsWindow(e, horizon, cutoff) ==
  EventStart[e] < cutoff /\ EventEnd[e] > horizon

PlannedEvents(cutoff) ==
  {e \in DayRuns(cutoff - CatchUp, cutoff) : IntersectsWindow(e, cutoff - CatchUp, cutoff)}

PlannedRecords(cutoff) ==
  {r \in Lines \X (0..(LastTick \div Bucket)) :
     r[2] * Bucket >= cutoff - CatchUp /\ (r[2] + 1) * Bucket <= cutoff}

(* saw is history: the row of the event when the plan was made.            *)
Call(kind, what, end, expected, saw) ==
  [kind |-> kind, what |-> what, end |-> end, expected |-> expected, saw |-> saw,
   attempt |-> 1]

MissingRecords(cutoff) == PlannedRecords(cutoff) \ stored

(* Mutant: an event would be posted with the end it will have. *)
VisibleAtOnce(e, cutoff) == EventEnd[e]

VisibleEnd(e, cutoff) == IF EventEnd[e] <= cutoff THEN EventEnd[e] ELSE Open

(* Mutant: an event that is there already would be posted again. *)
AllEvents(cutoff) == PlannedEvents(cutoff)

MissingEvents(cutoff) == {e \in PlannedEvents(cutoff) : ~Exists(e)}

(* Mutant: an event that ends with the cutoff would be left for later. *)
ClosingsBefore(cutoff) ==
  {e \in PlannedEvents(cutoff) : Exists(e) /\ Row(e).end = Open /\ EventEnd[e] < cutoff}

Closings(cutoff) ==
  {e \in PlannedEvents(cutoff) : Exists(e) /\ Row(e).end = Open /\ EventEnd[e] <= cutoff}

RecordBefore(x, y) == x[1] < y[1] \/ (x[1] = y[1] /\ x[2] < y[2])

EventBefore(e, f) ==
  \E i, j \in DOMAIN EventOrder : i < j /\ EventOrder[i] = e /\ EventOrder[j] = f

(* S in its order. *)
Listed(S, Before(_, _)) ==
  {q \in [1..Cardinality(S) -> S] :
     Range(q) = S /\ \A i, j \in DOMAIN q : i < j => Before(q[i], q[j])}

RecordCalls(q) == [i \in DOMAIN q |-> Call("record", q[i], Open, 0, {})]

EventCalls(q, cutoff) ==
  [i \in DOMAIN q |-> Call("event", q[i], VisibleEnd(q[i], cutoff), 0, {})]

CloseCalls(q) ==
  [i \in DOMAIN q |-> Call("close", q[i], EventEnd[q[i]], Row(q[i]).version, event[q[i]])]

(* Mutant: the window would be taken for a bucket longer. *)
GapDetectedLate(cutoff) ==
  /\ stored # {}
  /\ \E line \in Lines : \A r \in stored :
       r[1] = line => (r[2] + 1) * Bucket < cutoff - CatchUp - Bucket

(* A line whose latest bucket, if any, is behind the window. *)
GapDetected(cutoff) ==
  /\ stored # {}
  /\ \E line \in Lines : \A r \in stored :
       r[1] = line => (r[2] + 1) * Bucket < cutoff - CatchUp

(* main up to transport(): the topology is in the database, the plan reads it *)
(* and the run's session ends before the first call.                          *)
Plan(r) ==
  LET cutoff == LatestClosedBucket(now) IN
  /\ run[r].pc = "idle"
  /\ \E records \in Listed(MissingRecords(cutoff), RecordBefore),
        events \in Listed(MissingEvents(cutoff), EventBefore),
        ended \in Listed(Closings(cutoff), EventBefore) :
       run' = [run EXCEPT ![r] =
         [pc |-> "posting", cutoff |-> cutoff, failed |-> FALSE,
          calls |-> RecordCalls(records) \o EventCalls(events, cutoff) \o CloseCalls(ended),
          gap |-> GapDetected(cutoff)]]
  /\ UNCHANGED <<now, stored, event, stray, troubles, history>>

-----------------------------------------------------------------------------
(* The server. An outcome is the answer with the rows after it. *)

Unchanged == [stored |-> stored, event |-> event]

PostRecord(c) ==
  [ok |-> TRUE, after |-> [stored |-> stored \union {c.what}, event |-> event]]

FeedRow(e, end) ==
  [started |-> EventStart[e], end |-> end, version |-> 1, by |-> "feed"]

(* The columns of an idempotent POST must equal those of the row. *)
SamePayload(row, c) ==
  row.started = EventStart[c.what] /\ row.end = c.end

(* Mutant: no unique index on (source, external_id). *)
PostEventAgain(c) ==
  [ok |-> TRUE, after |-> [stored |-> stored,
     event |-> [event EXCEPT ![c.what] = @ \union {FeedRow(c.what, c.end)}]]]

PostEvent(c) ==
  IF c.end # Open /\ c.end <= EventStart[c.what]
    THEN [ok |-> FALSE, after |-> Unchanged]
    ELSE IF Exists(c.what)
      THEN [ok |-> SamePayload(Row(c.what), c), after |-> Unchanged]
      ELSE [ok |-> TRUE, after |-> [stored |-> stored,
              event |-> [event EXCEPT ![c.what] = {FeedRow(c.what, c.end)}]]]

PatchedRow(row, end) ==
  [started |-> row.started, end |-> end, version |-> row.version + 1, by |-> "feed"]

(* Mutant: a PATCH would ask whether the event is open, not for its version. *)
PatchIfOpen(c) ==
  LET row == Row(c.what) IN
  IF c.end > row.started /\ row.end = Open
    THEN [ok |-> TRUE, after |-> [stored |-> stored,
            event |-> [event EXCEPT ![c.what] = {PatchedRow(row, c.end)}]]]
    ELSE [ok |-> FALSE, after |-> Unchanged]

PatchEvent(c) ==
  LET row == Row(c.what) IN
  IF c.end > row.started /\ c.expected = row.version
    THEN [ok |-> TRUE, after |-> [stored |-> stored,
            event |-> [event EXCEPT ![c.what] = {PatchedRow(row, c.end)}]]]
    ELSE [ok |-> FALSE, after |-> Unchanged]

Outcome(c) ==
  CASE c.kind = "record" -> PostRecord(c)
    [] c.kind = "event"  -> PostEvent(c)
    [] c.kind = "close"  -> PatchEvent(c)

(* The rows after c; every other run has been written into, if c wrote. *)
Serve(c, r) ==
  LET after == Outcome(c).after IN
  /\ stored' = after.stored
  /\ event' = after.event
  /\ disturbed' = IF after = Unchanged THEN disturbed ELSE disturbed \union (Running \ {r})

-----------------------------------------------------------------------------
(* The client. *)

(* The pool's workers take the posts in order, and a worker keeps its post *)
(* until it is done with it; the closings follow one by one.               *)
InFlight(r) ==
  {i \in DOMAIN run[r].calls :
     IF run[r].calls[i].kind = "close" THEN i = 1 ELSE i <= Workers}

Done(r, i, fails) ==
  run' = [run EXCEPT ![r] =
            [run[r] EXCEPT !.calls = RemoveAt(@, i), !.failed = @ \/ fails]]

Again(r, i) ==
  LET c == run[r].calls[i] IN
  run' = [run EXCEPT ![r] =
            [run[r] EXCEPT !.calls = ReplaceAt(@, i, [c EXCEPT !.attempt = @ + 1])]]

(* Mutant: a conflict would be taken for a row that is there already. *)
ConflictIsFine(c) == FALSE

(* 200 and 201 are success. *)
Fails(c) == ~Outcome(c).ok

MayRetry(c) == c.attempt < Attempts

(* A call is answered. A failure of one draft does not stop the others. *)
Answered(r) ==
  /\ \E i \in InFlight(r) :
       LET c == run[r].calls[i] IN Serve(c, r) /\ Done(r, i, Fails(c))
  /\ UNCHANGED <<now, stray, troubles, succeeded, alarm>>

(* No answer (a transport error: the same body again, unless that was the last  *)
(* attempt), or a 5xx or unreadable one (no retry). The server has served the   *)
(* call, never will, or will later.                                             *)
GoesWrong(r) ==
  /\ troubles < MaxTroubles
  /\ \E i \in InFlight(r) :
       LET c     == run[r].calls[i]
           after == Outcome(c).after
       IN
       /\ (MayRetry(c) /\ Again(r, i)) \/ Done(r, i, TRUE)
       /\ \/ /\ stored' = after.stored
             /\ event' = after.event
             /\ disturbed' = disturbed \union (IF after = Unchanged THEN {r} ELSE Running)
             /\ UNCHANGED stray
          \/ /\ stray' \in {stray, stray \union {c}}
             /\ disturbed' = disturbed \union {r}
             /\ UNCHANGED <<stored, event>>
  /\ troubles' = troubles + 1
  /\ UNCHANGED <<now, succeeded, alarm>>

ServeStray ==
  /\ \E c \in stray :
       LET after == Outcome(c).after IN
       /\ stored' = after.stored
       /\ event' = after.event
       /\ disturbed' = IF after = Unchanged THEN disturbed ELSE Running
       /\ stray' = stray \ {c}
  /\ UNCHANGED <<now, run, troubles, succeeded, alarm>>

(* main returns. *)
Exit(r) ==
  /\ run[r].pc = "posting"
  /\ run[r].calls = << >>
  /\ run' = [run EXCEPT ![r] = NotRunning]
  /\ succeeded' = IF run[r].failed THEN succeeded ELSE succeeded \union {run[r].cutoff}
  /\ alarm' = (alarm \/ run[r].failed \/ run[r].gap)
  /\ disturbed' = disturbed \ {r}
  /\ UNCHANGED <<now, stored, event, stray, troubles>>

(* The process is killed; calls in flight may still reach the server. *)
Killed(r) ==
  /\ run[r].pc = "posting"
  /\ troubles < MaxTroubles
  /\ troubles' = troubles + 1
  /\ run' = [run EXCEPT ![r] = NotRunning]
  /\ \E left \in SUBSET InFlight(r) :
       stray' = stray \union {run[r].calls[i] : i \in left}
  /\ alarm' = TRUE
  /\ disturbed' = disturbed \ {r}
  /\ UNCHANGED <<now, stored, event, succeeded>>

-----------------------------------------------------------------------------
(* An operator corrects, closes or reopens an event, having read its row. *)
Correct(e) ==
  /\ troubles < MaxTroubles
  /\ Exists(e)
  /\ \E started \in CorrectedStarts \union {Row(e).started},
        end \in CorrectedEnds \union {Row(e).end, Open} :
       /\ end # Open => started < end
       /\ <<started, end>> # <<Row(e).started, Row(e).end>>
       /\ event' = [event EXCEPT ![e] =
            {[started |-> started, end |-> end, version |-> Row(e).version + 1,
              by |-> IF end = Row(e).end THEN Row(e).by ELSE "operator"]}]
  /\ troubles' = troubles + 1
  /\ disturbed' = Running
  /\ UNCHANGED <<now, stored, run, stray, succeeded, alarm>>

Tick ==
  /\ now < LastTick
  /\ \A r \in Running : now < run[r].cutoff + Patience
  /\ now' = now + 1
  /\ UNCHANGED <<stored, event, run, stray, troubles, history>>

Init ==
  /\ now = 0
  /\ stored = {}
  /\ event = [e \in Events |-> {}]
  /\ run = [r \in Runs |-> NotRunning]
  /\ stray = {} /\ troubles = 0
  /\ disturbed = {} /\ succeeded = {} /\ alarm = FALSE

Next ==
  \/ Tick \/ ServeStray
  \/ \E e \in Events : Correct(e)
  \/ \E r \in Runs : Plan(r) \/ Answered(r) \/ GoesWrong(r) \/ Exit(r) \/ Killed(r)

(* Cron keeps starting runs and a run that is not killed goes on. *)
Fairness ==
  /\ WF_vars(Tick) /\ WF_vars(ServeStray)
  /\ \A r \in Runs : WF_vars(Plan(r)) /\ WF_vars(Answered(r) \/ Exit(r))

Spec == Init /\ [][Next]_vars /\ Fairness

-----------------------------------------------------------------------------
(* Every variable has its type. *)
TypeOK ==
  /\ now \in 0..LastTick
  /\ stored \subseteq Lines \X Nat
  /\ \A e \in Events : \A r \in event[e] :
       /\ Cardinality(event[e]) = 1
       /\ r.started \in Nat /\ r.end \in Nat \union {Open} /\ r.by \in {"feed", "operator"}
  /\ \A r \in Runs : /\ run[r].pc \in {"idle", "posting"}
                     /\ \A i \in DOMAIN run[r].calls :
                          run[r].calls[i].attempt \in 1..Attempts
  /\ troubles \in 0..MaxTroubles
  /\ disturbed \subseteq Runs /\ succeeded \subseteq Int /\ alarm \in BOOLEAN

(* The deterministic future stays out of the database, however runs overlap *)
(* and calls are delayed: no bucket is stored before it is over, no event   *)
(* before it began, and the feed ends none before it has ended.             *)
NothingFromTheFuture ==
  /\ \A r \in stored : (r[2] + 1) * Bucket <= now
  /\ \A e \in Events : Exists(e) =>
       /\ EventStart[e] < now
       /\ Row(e).by = "feed" /\ Row(e).end # Open => Row(e).end = EventEnd[e] /\ EventEnd[e] <= now

(* What a run that returned 0 claims stays true: every bucket and event of  *)
(* its window is in the database, and an event that had ended is closed     *)
(* unless an operator has reopened it. A stale call of another run cannot   *)
(* take that back.                                                          *)
SuccessIsComplete ==
  \A c \in succeeded :
    /\ PlannedRecords(c) \subseteq stored
    /\ \A e \in PlannedEvents(c) :
         /\ Exists(e)
         /\ EventEnd[e] <= c => Row(e).end # Open \/ Row(e).by = "operator"

(* Nothing is lost without a sign. What no later run will look at again -   *)
(* a bucket behind a stored one, an event that ended after one - is in the  *)
(* database, and closed, or some run failed, was killed or printed          *)
(* gap_detected=True.                                                       *)
LossIsNoticed ==
  Running = {} /\ stray = {} /\ ~alarm =>
    \A c \in succeeded, old \in stored :
      /\ \A line \in Lines, i \in old[2]..(c \div Bucket) :
           (i + 1) * Bucket <= c - CatchUp => <<line, i>> \in stored
      /\ \A e \in Events :
           /\ EventStart[e] < EventEnd[e]
           /\ (old[2] + 1) * Bucket < EventEnd[e] /\ EventEnd[e] <= c - CatchUp
           => Exists(e) /\ (Row(e).end # Open \/ Row(e).by = "operator")

(* Drafts no run can get stored: an event cut to nothing at the end of its  *)
(* day, and the closing of one whose start an operator has moved behind its *)
(* end.                                                                     *)
Hopeless(e) ==
  \/ EventStart[e] = EventEnd[e]
  \/ /\ Exists(e)
     /\ Row(e).end = Open
     /\ EventEnd[e] <= Row(e).started

(* A run fails only for a reason: some call of its own went wrong, somebody *)
(* else wrote while it ran, or its plan holds a draft that the API refuses. *)
FailuresHaveAReason ==
  \A r \in Runs :
    run[r].failed => r \in disturbed \/ \E e \in PlannedEvents(run[r].cutoff) : Hopeless(e)

(* The calls that a step of a run or of the server may have served.        *)
ServedCalls ==
  {c \in stray : c \notin stray'} \union
  UNION {{run[r].calls[i] : i \in InFlight(r)} : r \in {q \in Runs : run'[q] # run[q]}}

(* What an operator enters after a run has planned stands against that run, *)
(* even against a call that is resent or late: the feed writes into a row   *)
(* that exists only to end it, and only if the row is still, column by      *)
(* column, the open one that the call was planned from. (What was entered   *)
(* before is no different from the feed's own: an event an operator has     *)
(* reopened is closed again by the next run, rolling.py:190.)               *)
FeedWrites ==
  \A e \in Events :
    Exists(e) /\ event'[e] # event[e] /\ ~UNCHANGED <<run, stray>> =>
      /\ Row(e).end = Open
      /\ Row(e)'.started = Row(e).started /\ Row(e)'.end = EventEnd[e]
      /\ \E c \in ServedCalls : c.kind = "close" /\ c.what = e /\ c.saw = event[e]

CorrectionsStand == [][FeedWrites]_vars

(* When faults and corrections stop, the feed catches up by itself: from    *)
(* some time on all of the last window is stored and every event in it that *)
(* can be closed is, whatever hopeless drafts make the runs fail.           *)
CaughtUp ==
  /\ PlannedRecords(LatestClosedBucket(LastTick)) \subseteq stored
  /\ \A e \in PlannedEvents(LatestClosedBucket(LastTick)) :
       ~Hopeless(e) => Exists(e) /\ (EventEnd[e] <= LatestClosedBucket(LastTick) => Row(e).end # Open)

CatchesUp == <>[]CaughtUp
=============================================================================
