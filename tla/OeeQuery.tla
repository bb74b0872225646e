------------------------------- MODULE OeeQuery -------------------------------
(***************************************************************************)
(* GET /api/v1/oee and GET /api/v1/demo/overview: query_line_oee, the      *)
(* handlers around it, and the writers that commit between its statements. *)
(* Under READ COMMITTED each SELECT of a request sees what is committed    *)
(* when it runs. One request after another is enough: requests that only   *)
(* read do not see each other.                                             *)
(*                                                                         *)
(* Instants are ticks, counted from a local midnight of the plant; bounds   *)
(* of events may be finer than the seconds the answers are given in. What   *)
(* calculate_oee leaves of a window are the instants at which no event      *)
(* stops it, in the longest possible intervals (Oee!TimeIsAccountedFor,     *)
(* Oee!NothingIsCountedTwice), and each interval is cut to whole seconds.   *)
(***************************************************************************)
EXTENDS Integers, FiniteSetsExt

CONSTANTS
  TicksPerSecond,
  Day,              (* ticks in a day                                          *)
  ShiftStart,       (* _SHIFT_BOUNDARIES: shift code |-> time of day           *)
  Sources,          (* values of the column source,                            *)
  DemoSource,       (* and settings.demo_source                                *)
  Reasons,          (* names of downtime reasons, in the order of their names  *)
  TopReasons,       (* how many the overview lists                             *)
  IdealCycleTime,   (* of every record                                         *)
  MaxRows,          (* MAX_OEE_QUERY_ROWS                                      *)
  MaxWindow,        (* MAX_OEE_WINDOW                                          *)
  Windows,          (* the windows GET /oee is asked for                       *)
  RecordDrafts,     (* what the writers may record,                            *)
  EventDrafts,
  Patches,          (* and the fields they may send in a PATCH                 *)
  MaxCommits,       (* bound: what the writers commit                          *)
  None              (* SQL NULL, no line, no answer                            *)

ASSUME QueryConstants ==
  /\ {TicksPerSecond, Day, MaxRows, MaxWindow, TopReasons} \subseteq Nat \ {0}
  /\ DemoSource \in Sources
  /\ DOMAIN ShiftStart # {} /\ ShiftStart \in [DOMAIN ShiftStart -> 0..(Day - 1)]
  /\ Reasons \subseteq Nat
  /\ \A w \in Windows : w.start \in Int /\ w.end \in Int

(* The constraints valid_period and valid_counts of the two tables. *)
ASSUME DraftsAreValid ==
  /\ \A r \in RecordDrafts : /\ {r.start, r.end, r.total, r.good} \subseteq Int
                             /\ r.start < r.end /\ 0 <= r.good /\ r.good <= r.total
                             /\ r.source \in Sources
  /\ \A e \in EventDrafts : /\ e.start \in Int /\ e.end \in Int \union {None}
                            /\ e.end # None => e.start < e.end
                            /\ e.reason \in Reasons /\ e.source \in Sources
                            /\ e.is_planned \in BOOLEAN
  /\ \A p \in Patches : /\ "start" \in DOMAIN p => p.start \in Int
                        /\ "end" \in DOMAIN p => p.end \in Int \union {None}
                        /\ "reason" \in DOMAIN p => p.reason \in Reasons
                        /\ "is_planned" \in DOMAIN p => p.is_planned \in BOOLEAN

ASSUME NoneIsNoData == None \notin Int /\ None \notin Sources

VARIABLES
  line,             (* whether the line is there                               *)
  production,       (* committed rows of production_record,                    *)
  downtime,         (* and of downtime_event, of the line                      *)
  commits,
  request,          (* the request being served                                *)
  began,            (* history: the rows when query_line_oee began             *)
  last              (* history: the last overview                              *)

rows == <<line, production, downtime>>
vars == <<rows, commits, request, began, last>>

Window(s, e) == [start |-> s, end |-> e]
Instants(w)  == w.start..(w.end - 1)

(* Interval.seconds, cut to whole seconds. *)
Seconds(i) == (i.end - i.start) \div TicksPerSecond

(* The longest intervals in a set of instants, which is what subtract leaves  *)
(* and union makes of what is left.                                           *)
Stretches(T) ==
  {i \in [start : {t \in T : t - 1 \notin T}, end : {t + 1 : t \in T} \ T] :
     i.start < i.end /\ Instants(i) \subseteq T}

(* duration_seconds: each stretch is cut for itself. *)
SecondsOf(T) == SumFunction([i \in Stretches(T) |-> Seconds(i)])

-----------------------------------------------------------------------------
(* query_line_oee. *)

(* An open event lasts until the end of the window. *)
EndOf(e, w) == IF e.end = None THEN w.end ELSE e.end

FromSource(set, source) == {r \in set : source = None \/ r.source = source}

DowntimeFilter(w, source) ==
  {e \in FromSource(downtime, source) :
     e.start < w.end /\ (e.end # None => e.end > w.start)}

ProductionFilter(w, source) ==
  {r \in FromSource(production, source) : r.start < w.end /\ r.end > w.start}

(* Mutant: a record that overlaps the window counts in full. *)
IncludedIfOverlapping(w, loaded) == loaded

Included(w, loaded) == {r \in loaded : r.start >= w.start /\ r.end <= w.end}

Total(rs)  == SumFunction([r \in rs |-> r.total])
Good(rs)   == SumFunction([r \in rs |-> r.good])

IdealTimeTotal(rs) == SumFunction([r \in rs |-> IdealCycleTime * r.total])

(* calculate_oee: planned downtimes are taken off the window, unplanned ones *)
(* off what is left.                                                         *)
Stopped(w, es) == {t \in Instants(w) : \E e \in es : e.start <= t /\ t < EndOf(e, w)}

Result(w, events, loaded) ==
  LET counted == Included(w, loaded)
      planned == Instants(w) \ Stopped(w, {e \in events : e.is_planned})
  IN  [planned |-> SecondsOf(planned),
       run     |-> SecondsOf(planned \ Stopped(w, {e \in events : ~e.is_planned})),
       total   |-> Total(counted), good |-> Good(counted),
       ideal   |-> IdealTimeTotal(counted),
       partial |-> counted # loaded]

-----------------------------------------------------------------------------
(* The overview. *)

(* Mutant: the instant of data_through itself would decide on the shift. *)
ShiftWindowAtEnd(through) ==
  LET started == {<<d * Day + ShiftStart[s], s>> :
                    d \in {(through \div Day) - 1, through \div Day}, s \in DOMAIN ShiftStart}
      latest  == CHOOSE b \in {x \in started : x[1] <= through} :
                   \A c \in {x \in started : x[1] <= through} : c[1] <= b[1]
  IN  [shift |-> latest[2], window |-> Window(latest[1], through)]

(* The shift of the last instant with data, from its start to there. *)
CompletedShiftWindow(through) ==
  LET effective == through - 1
      started == {<<d * Day + ShiftStart[s], s>> :
                    d \in {(effective \div Day) - 1, effective \div Day},
                    s \in DOMAIN ShiftStart}
      latest  == CHOOSE b \in {x \in started : x[1] <= effective} :
                   \A c \in {x \in started : x[1] <= effective} : c[1] <= b[1]
  IN  [shift |-> latest[2], window |-> Window(latest[1], through)]

(* Mutant: an event counts whole, within the window or not. *)
SecondsUnclipped(e, w) == Seconds(Window(e.start, EndOf(e, w)))

(* clip(Interval(started_at, ended_at or window.end), window).seconds *)
SecondsIn(e, w) ==
  Seconds(Window(Max({e.start, w.start}), Min({EndOf(e, w), w.end})))

SecondsByReason(w, events) ==
  [r \in {e.reason : e \in events} |->
     SumFunction([e \in {x \in events : x.reason = r} |-> SecondsIn(e, w)])]

(* The reasons with the most seconds, ties by name. *)
Top(seconds) ==
  {r \in DOMAIN seconds :
     Cardinality({q \in DOMAIN seconds :
        seconds[q] > seconds[r] \/ (seconds[q] = seconds[r] /\ q < r)}) < TopReasons}

(* What the overview adds to the OEE of its window. *)
Overview(w, shift, events, run) ==
  LET seconds == SecondsByReason(w, events) IN
  [shift |-> shift, data_through |-> w.end, events |-> events, seconds |-> seconds,
   line_seconds |-> Seconds(w) - run, top |-> Top(seconds)]

-----------------------------------------------------------------------------
(* The requests. *)

(* pc is the statement that comes next, answer the response.                 *)
Idle == [pc |-> "idle", kind |-> None, window |-> None, source |-> None, shift |-> None,
         counted |-> None, events |-> None, answer |-> None]

Answer(a) ==
  /\ request' = [Idle EXCEPT !.pc = "answered", !.kind = request.kind, !.answer = a]
  /\ last' = IF request.kind = "overview" /\ a.status = 200 THEN a ELSE last

Refuse(status) == Answer([status |-> status, at |-> request.pc])

(* get_oee checks the window before it reads: end after start, and not too   *)
(* long.                                                                     *)
GetOee(w) ==
  /\ request.pc \in {"idle", "answered"}
  /\ IF w.end <= w.start \/ w.end - w.start > MaxWindow
       THEN request' = [Idle EXCEPT !.pc = "answered", !.kind = "oee",
                                    !.answer = [status |-> 422, at |-> "window"]]
       ELSE request' = [Idle EXCEPT !.pc = "line", !.kind = "oee", !.window = w]
  /\ UNCHANGED <<rows, commits, began, last>>

GetOverview ==
  /\ request.pc \in {"idle", "answered"}
  /\ request' = [Idle EXCEPT !.pc = "data_through", !.kind = "overview",
                              !.source = DemoSource]
  /\ UNCHANGED <<rows, commits, began, last>>

(* Mutant: the record stored last, instead of the latest. *)
SomeEnd == {r.end : r \in FromSource(production, DemoSource)}

LatestEnd ==
  LET ends == {r.end : r \in FromSource(production, DemoSource)} IN
  IF ends = {} THEN {} ELSE {Max(ends)}

(* The line by its code, the latest interval_end, and the window from it;    *)
(* without a line or without data the demo is unavailable.                   *)
ReadDataThrough ==
  /\ request.pc = "data_through"
  /\ \/ /\ ~line \/ LatestEnd = {}
        /\ Refuse(503)
     \/ /\ line
        /\ \E through \in LatestEnd :
             LET sw == CompletedShiftWindow(through) IN
             request' = [request EXCEPT !.pc = "line", !.window = sw.window,
                                        !.shift = sw.shift]
        /\ UNCHANGED last
  /\ UNCHANGED <<rows, commits, began>>

(* Interval(start, end) must not be empty (ValueError), the line must exist. *)
ReadLine ==
  /\ request.pc = "line"
  /\ IF request.window.start < request.window.end /\ line
       THEN request' = [request EXCEPT !.pc = "count"] /\ UNCHANGED last
       ELSE Refuse(IF request.kind = "oee" THEN 404 ELSE 503)
  /\ began' = [production |-> production, downtime |-> downtime, commits |-> commits]
  /\ UNCHANGED <<rows, commits>>

CountDowntime ==
  /\ request.pc = "count"
  /\ request' = [request EXCEPT !.pc = "limit",
                    !.counted = Cardinality(DowntimeFilter(request.window, request.source))]
  /\ UNCHANGED <<rows, commits, began, last>>

CountProduction ==
  /\ request.pc = "limit"
  /\ IF request.counted + Cardinality(ProductionFilter(request.window, request.source)) > MaxRows
       THEN Refuse(IF request.kind = "oee" THEN 422 ELSE 503)
       ELSE request' = [request EXCEPT !.pc = "load"] /\ UNCHANGED last
  /\ UNCHANGED <<rows, commits, began>>

LoadDowntime ==
  /\ request.pc = "load"
  /\ request' = [request EXCEPT !.pc = "loaded",
                                 !.events = DowntimeFilter(request.window, request.source)]
  /\ UNCHANGED <<rows, commits, began, last>>

(* The answer is computed from what has been loaded. The overview looks the  *)
(* names of the reasons up by their foreign keys, which changes nothing.     *)
LoadProduction ==
  /\ request.pc = "loaded"
  /\ LET w       == request.window
         records == ProductionFilter(w, request.source)
         result  == Result(w, request.events, records)
     IN  Answer([status |-> 200, window |-> w, source |-> request.source,
                 loaded |-> Cardinality(request.events) + Cardinality(records),
                 result |-> result,
                 overview |-> IF request.kind = "oee" THEN None
                              ELSE Overview(w, request.shift, request.events, result.run)])
  /\ UNCHANGED <<rows, commits, began>>

-----------------------------------------------------------------------------
(* The writers' commits: what the write API may leave behind. Nothing is      *)
(* deleted, and a production record never changes. An event's updated_at      *)
(* stands for its version. The machine and the note of an event are not read. *)
Committing == commits < MaxCommits /\ commits' = commits + 1

CreateLine ==
  /\ ~line /\ line' = TRUE
  /\ UNCHANGED <<production, downtime, commits, request, began, last>>

StoreRecord ==
  /\ line /\ Committing
  /\ \E r \in RecordDrafts :
       production' = production \union
         {[id |-> commits, start |-> r.start, end |-> r.end, total |-> r.total,
           good |-> r.good, source |-> r.source]}
  /\ UNCHANGED <<line, downtime, request, began, last>>

StoreEvent ==
  /\ line /\ Committing
  /\ \E e \in EventDrafts :
       downtime' = downtime \union
         {[id |-> commits, start |-> e.start, end |-> e.end, reason |-> e.reason,
           is_planned |-> e.is_planned, source |-> e.source, updated_at |-> commits]}
  /\ UNCHANGED <<line, production, request, began, last>>

(* The value of a field that a PATCH may have sent. *)
Sent(p, field, old) == IF field \in DOMAIN p THEN p[field] ELSE old

Patched(e, p) ==
  [id |-> e.id, start |-> Sent(p, "start", e.start), end |-> Sent(p, "end", e.end),
   reason |-> Sent(p, "reason", e.reason), is_planned |-> Sent(p, "is_planned", e.is_planned),
   source |-> e.source, updated_at |-> commits]

(* A PATCH closes, reopens, moves or reclassifies an event; one that changes  *)
(* nothing writes nothing.                                                    *)
CorrectEvent ==
  /\ Committing
  /\ \E e \in downtime, p \in Patches :
       LET patched == Patched(e, p) IN
       /\ patched.end # None => patched.start < patched.end
       /\ patched # [e EXCEPT !.updated_at = commits]
       /\ downtime' = (downtime \ {e}) \union {patched}
  /\ UNCHANGED <<line, production, request, began, last>>

Init ==
  /\ line \in BOOLEAN
  /\ production = {} /\ downtime = {} /\ commits = 0
  /\ request = Idle
  /\ began = None /\ last = None

Next ==
  \/ \E w \in Windows : GetOee(w)
  \/ GetOverview \/ ReadDataThrough \/ ReadLine
  \/ CountDowntime \/ CountProduction \/ LoadDowntime \/ LoadProduction
  \/ CreateLine \/ StoreRecord \/ StoreEvent \/ CorrectEvent

Spec == Init /\ [][Next]_vars

-----------------------------------------------------------------------------
Answered(kind) == request.pc = "answered" /\ request.kind = kind /\ request.answer.status = 200

Inside(r, w) == Instants(Window(r.start, r.end)) \subseteq Instants(w)

(* What an answer is about, in the rows of a committed state. *)
Counted(state, a)    == {r \in FromSource(state.production, a.source) : Inside(r, a.window)}
StandsAt(state, a, t) ==
  \E e \in FromSource(state.downtime, a.source) : t \in e.start..(EndOf(e, a.window) - 1)

Now == [production |-> production, downtime |-> downtime]

(* The events that nobody has touched meanwhile. *)
Unchanged == [downtime |-> began.downtime \intersect downtime]

Running(state, a) == {t \in Instants(a.window) : ~StandsAt(state, a, t)}

(* An answer is between the state when query_line_oee began and the state   *)
(* when it answered, though its statements read different states: its total *)
(* is between theirs, and no second of an event that stayed as it was is    *)
(* taken for run time. It holds no more rows than the limit and what was    *)
(* committed since the rows were first counted. If nothing was, it is       *)
(* exact, to the last second and unit.                                      *)
AnswersAreBetween ==
  \A kind \in {"oee", "overview"} : Answered(kind) =>
    LET a == request.answer
        o == a.result
    IN
    /\ began.commits = commits =>
         /\ o.run = SecondsOf(Running(Now, a))
         /\ o.partial <=> \E r \in FromSource(production, a.source) :
              ~Inside(r, a.window) /\ Instants(r) \intersect Instants(a.window) # {}
    /\ a.loaded <= MaxRows + (commits - began.commits)
    /\ Total(Counted(began, a)) <= o.total /\ o.total <= Total(Counted(Now, a))
    /\ Good(Counted(began, a)) <= o.good /\ o.good <= o.total
    /\ o.run <= SecondsOf(Running(Unchanged, a))
    /\ o.run <= o.planned

(* The overview's window ends with the last instant there are data for and  *)
(* is the part so far of the shift of that instant: never empty, even when  *)
(* the data end with a shift, and never reaching into another shift. So an  *)
(* overview that found data is answered, within the row limit.              *)
WindowIsTheShiftSoFar ==
  request.pc = "answered" /\ request.kind = "overview" =>
    LET a     == request.answer
        begin == a.window.start % Day
    IN
    IF a.status # 200
      THEN a.at \in {"data_through", "limit"}
      ELSE
        /\ a.window.start < a.window.end
        /\ begin = ShiftStart[a.overview.shift]
        /\ \A s \in DOMAIN ShiftStart, t \in Instants(a.window) :
             t > a.window.start => t % Day # ShiftStart[s]
        /\ \E r \in production : r.end = a.window.end /\ r.source = DemoSource

(* The seconds listed by reason and the line's downtime fit together, though *)
(* every event and every stretch of run time is cut to whole seconds: of     *)
(* the time that the window and the events of a reason have in common less   *)
(* than a second is lost per event, the line stood no shorter than any event *)
(* in the window, and longer than all of them together by at most two        *)
(* seconds per event. The listed reasons are those with the most.            *)
OverviewAddsUp ==
  Answered("overview") =>
    LET w == request.answer.window
        o == request.answer.overview
    IN
    /\ \A r \in DOMAIN o.seconds :
         LET ticks == Cardinality({x \in Instants(w) \X o.events :
                        x[2].reason = r /\ x[2].start <= x[1] /\ x[1] < EndOf(x[2], w)})
             lost  == ticks - o.seconds[r] * TicksPerSecond
         IN  lost \in 0..(Cardinality({e \in o.events : e.reason = r}) * (TicksPerSecond - 1))
    /\ \A e \in o.events : SecondsIn(e, w) <= o.line_seconds
    /\ o.line_seconds <= SumFunction(o.seconds) + 2 * Cardinality(o.events)
    /\ Cardinality(o.top) = Min({TopReasons, Cardinality(DOMAIN o.seconds)})
    /\ \A r \in o.top, q \in DOMAIN o.seconds \ o.top : o.seconds[q] <= o.seconds[r]

(* Whoever polls the overview never sees it go back: the data reach at least *)
(* as far, and within one shift the total grows.                             *)
OverviewGrows ==
  [][last # None /\ last' # last =>
       /\ last'.overview.data_through >= last.overview.data_through
       /\ last'.window.start = last.window.start =>
            last'.result.total >= last.result.total]_vars
=============================================================================
