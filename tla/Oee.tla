---------------------------------- MODULE Oee ----------------------------------
(***************************************************************************)
(* calculate_oee (paro.domain.oee) and the interval functions it calls,    *)
(* as the sequential program they are: one step per iteration of a loop.   *)
(* "call" names the function being evaluated and why:                      *)
(*                                                                         *)
(*   planned          subtract(window, planned downtimes)                  *)
(*   planned_seconds  duration_seconds(planned_production_segments)        *)
(*   unplanned        subtract(segment, unplanned downtimes), per segment  *)
(*   run_seconds      duration_seconds(run_time_segments)                  *)
(*                                                                         *)
(* and pc the loop it is in: union (both functions begin with one),        *)
(* subtract or sum. Ratios are pairs <<numerator, denominator>>.           *)
(***************************************************************************)
EXTENDS Intervals, Integers

CONSTANT Inputs   (* the arguments calculate_oee may be called with *)

(* An event may still be open: it has no end. *)
Span == [start : Nat, end : Nat \union {None}]

Input == [window : Interval, planned : Seq(Span), unplanned : Seq(Span),
          total : Int, good : Int, ideal : Int, as_of : Nat \union {None}]

ASSUME InputsAreTyped == Inputs \subseteq Input

SubtractCalls == {"planned", "unplanned"}
DurationCalls == {"planned_seconds", "run_seconds"}

ASSUME NoneIsNoCall == None \notin SubtractCalls \union DurationCalls

ASSUME NoneIsNoRatio == None \notin Nat \X Nat

ZeroPlannedTime    == "ZERO_PLANNED_TIME"
ZeroRunTime        == "ZERO_RUN_TIME"
ZeroTotalCount     == "ZERO_TOTAL_COUNT"
PerformanceOver100 == "PERFORMANCE_OVER_100"
OpenEventClipped   == "OPEN_EVENT_CLIPPED"

Warnings == {ZeroPlannedTime, ZeroRunTime, ZeroTotalCount,
             PerformanceOver100, OpenEventClipped}

VARIABLES
  input,        (* the arguments                                             *)
  pc,           (* start, union, subtract, sum, done or rejected             *)
  call,         (* the call being evaluated                                  *)
  list,         (* union: its sorted input                                   *)
  next,         (* the position of the loop                                  *)
  merged,       (* union: its result so far                                  *)
  base,         (* subtract: its first argument                              *)
  remaining,    (* subtract: its result so far                               *)
  cursor,       (* subtract: how far the base has been dealt with            *)
  sum,          (* duration_seconds: its result so far                       *)
  segments,     (* planned_production_segments                               *)
  segment,      (* the position in segments                                  *)
  run,          (* run_time_segments                                         *)
  planned_s,    (* planned_production_time_seconds                           *)
  run_s,        (* run_time_seconds                                          *)
  warnings,     (* warnings_found, in the order they are found               *)
  result        (* the components of the result, or None                     *)

unionVars == <<list, merged>>
subtractVars == <<base, remaining, cursor>>
timeVars == <<segments, segment, run>>
resultVars == <<planned_s, run_s, warnings, result>>
vars == <<input, pc, call, next, sum, unionVars, subtractVars, timeVars, resultVars>>

--------------------------------------------------------------------------------
AsOf == IF input.as_of = None THEN input.window.end ELSE input.as_of

Closed(span) == IF span.end = None THEN AsOf ELSE span.end

(* The intervals of the spans that are not empty once closed. *)
ResolveSpans(spans) ==
  [k \in {j \in DOMAIN spans : spans[j].start < Closed(spans[j])} |->
     [start |-> spans[k].start, end |-> Closed(spans[k])]]

AnyOpen(spans) == \E k \in DOMAIN spans : spans[k].end = None

CountsAreValid ==
  /\ 0 <= input.good /\ input.good <= input.total
  /\ input.ideal >= 0

CallUnion(name, f) ==
  /\ pc' = "union"
  /\ call' = name
  /\ list' \in SortingsOf(f)
  /\ next' = 1
  /\ merged' = <<>>

CallSubtract(name, from, f) ==
  /\ CallUnion(name, f)
  /\ base' = from
  /\ remaining' = <<>>
  /\ cursor' = from.start

(* Mutant: subtracts from the window, once per segment. *)
SubtractFromWindow(k, stretches) ==
  /\ segment' = k
  /\ IF k <= Len(segments)
       THEN CallSubtract("unplanned", input.window, ResolveSpans(input.unplanned))
       ELSE CallUnion("run_seconds", stretches) /\ UNCHANGED subtractVars

(* The loop of _run_time_segments, at segment k, given what it has so far. *)
SubtractFromSegment(k, stretches) ==
  /\ segment' = k
  /\ IF k <= Len(segments)
       THEN CallSubtract("unplanned", segments[k], ResolveSpans(input.unplanned))
       ELSE CallUnion("run_seconds", stretches) /\ UNCHANGED subtractVars

--------------------------------------------------------------------------------
Reject ==
  /\ pc = "start" /\ ~ CountsAreValid
  /\ pc' = "rejected"
  /\ UNCHANGED <<input, call, next, sum, unionVars, subtractVars, timeVars, resultVars>>

Begin ==
  /\ pc = "start" /\ CountsAreValid
  /\ warnings' = IF AnyOpen(input.planned) \/ AnyOpen(input.unplanned)
                   THEN <<OpenEventClipped>>
                   ELSE <<>>
  /\ CallSubtract("planned", input.window, ResolveSpans(input.planned))
  /\ UNCHANGED <<input, sum, timeVars, planned_s, run_s, result>>

UnionNext ==
  /\ pc = "union" /\ next \in DOMAIN list
  /\ merged' = UnionStep(merged, list[next])
  /\ next' = next + 1
  /\ UNCHANGED <<input, pc, call, list, sum, subtractVars, timeVars, resultVars>>

UnionReturns ==
  /\ pc = "union" /\ next \notin DOMAIN list
  /\ pc' = IF call \in SubtractCalls THEN "subtract" ELSE "sum"
  /\ next' = 1
  /\ sum' = 0
  /\ UNCHANGED <<input, call, unionVars, subtractVars, timeVars, resultVars>>

SubtractNext ==
  /\ pc = "subtract" /\ next \in DOMAIN merged
  /\ next' = next + 1
  /\ LET clipped == Clip(merged[next], base)
     IN  IF clipped = None
           THEN UNCHANGED <<remaining, cursor>>
           ELSE /\ remaining' = SubtractStep(remaining, cursor, clipped)
                /\ cursor' = Larger(cursor, clipped.end)
  /\ UNCHANGED <<input, pc, call, sum, unionVars, base, timeVars, resultVars>>

SumNext ==
  /\ pc = "sum" /\ next \in DOMAIN merged
  /\ next' = next + 1
  /\ sum' = sum + Seconds(merged[next])
  /\ UNCHANGED <<input, pc, call, unionVars, subtractVars, timeVars, resultVars>>

PlannedReturns ==
  /\ pc = "subtract" /\ next \notin DOMAIN merged
  /\ call = "planned"
  /\ segments' = WithTail(remaining, cursor, base)
  /\ CallUnion("planned_seconds", segments')
  /\ UNCHANGED <<input, sum, subtractVars, segment, run, resultVars>>

PlannedMeasured ==
  /\ pc = "sum" /\ next \notin DOMAIN merged
  /\ call = "planned_seconds"
  /\ planned_s' = sum
  /\ SubtractFromSegment(1, run)
  /\ UNCHANGED <<input, sum, segments, run, run_s, warnings, result>>

UnplannedReturns ==
  /\ pc = "subtract" /\ next \notin DOMAIN merged
  /\ call = "unplanned"
  /\ run' = run \o WithTail(remaining, cursor, base)
  /\ SubtractFromSegment(segment + 1, run')
  /\ UNCHANGED <<input, sum, segments, resultVars>>

WarningIf(condition, warning) == IF condition THEN <<warning>> ELSE <<>>

(* Mutant: takes any zero for missing data. *)
RatioOfNonZero(numerator, denominator) ==
  IF numerator = 0 \/ denominator = 0 THEN None ELSE <<numerator, denominator>>

Ratio(numerator, denominator) ==
  IF denominator = 0 THEN None ELSE <<numerator, denominator>>

Product(r, s) == <<r[1] * s[1], r[2] * s[2]>>

(* OEE is computed with the raw performance, not with the capped one. *)
Components(planned, running) ==
  LET availability == Ratio(running, planned)
      performance  == Ratio(input.ideal, running)
      quality      == Ratio(input.good, input.total)
  IN  [availability       |-> availability,
       performance_raw    |-> performance,
       performance_capped |-> IF running > 0 /\ input.ideal > running
                                THEN <<1, 1>> ELSE performance,
       quality            |-> quality,
       oee                |-> IF None \in {availability, performance, quality}
                                THEN None
                                ELSE Product(Product(availability, performance), quality)]

RunMeasured ==
  /\ pc = "sum" /\ next \notin DOMAIN merged
  /\ call = "run_seconds"
  /\ run_s' = sum
  /\ warnings' = warnings \o WarningIf(planned_s = 0, ZeroPlannedTime)
                          \o WarningIf(sum = 0, ZeroRunTime)
                          \o WarningIf(sum > 0 /\ input.ideal > sum, PerformanceOver100)
                          \o WarningIf(input.total = 0, ZeroTotalCount)
  /\ result' = Components(planned_s, sum)
  /\ pc' = "done"
  /\ UNCHANGED <<input, call, next, sum, unionVars, subtractVars, timeVars, planned_s>>

--------------------------------------------------------------------------------
Init ==
  /\ input \in Inputs
  /\ pc = "start" /\ call = None
  /\ list = <<>> /\ next = 1 /\ merged = <<>>
  /\ base = input.window /\ remaining = <<>> /\ cursor = input.window.start
  /\ sum = 0
  /\ segments = <<>> /\ segment = 0 /\ run = <<>>
  /\ planned_s = 0 /\ run_s = 0 /\ warnings = <<>> /\ result = None

Next ==
  \/ Reject \/ Begin
  \/ UnionNext \/ UnionReturns
  \/ SubtractNext \/ PlannedReturns \/ UnplannedReturns
  \/ SumNext \/ PlannedMeasured \/ RunMeasured

Spec == Init /\ [][Next]_vars

--------------------------------------------------------------------------------
Stretches == Seq(Interval)

Fraction == (Nat \X (Nat \ {0})) \union {None}

Result == [availability : Fraction, performance_raw : Fraction,
           performance_capped : Fraction, quality : Fraction, oee : Fraction]

(* Every variable has its type; between two calls what is left of the last *)
(* one keeps it.                                                           *)
TypeOK ==
  /\ input \in Input
  /\ pc \in {"start", "union", "subtract", "sum", "done", "rejected"}
  /\ call \in SubtractCalls \union DurationCalls \union {None}
  /\ list \in Stretches /\ merged \in Stretches /\ next \in Nat \ {0}
  /\ base \in Interval /\ remaining \in Stretches /\ cursor \in Nat
  /\ sum \in Nat
  /\ segments \in Stretches /\ segment \in Nat /\ run \in Stretches
  /\ planned_s \in Nat /\ run_s \in Nat
  /\ warnings \in Seq(Warnings)
  /\ result \in Result \union {None}

(* The instants of the window at which one of the spans had begun and had  *)
(* not ended. An open span lasts until as_of.                              *)
Stopped(spans) ==
  {t \in Instants(input.window) :
     \E k \in DOMAIN spans :
       /\ spans[k].start <= t
       /\ t < IF spans[k].end = None THEN AsOf ELSE spans[k].end}

(* The planned production time is what the planned downtimes leave of the  *)
(* window, to the tick, and the run time is what the unplanned downtimes   *)
(* leave of that, however the downtimes overlap, touch or stick out        *)
(* (oee.py:3-6).                                                           *)
TimeIsAccountedFor ==
  /\ call \in {"planned_seconds", "unplanned", "run_seconds"} =>
       Covered(segments) = Instants(input.window) \ Stopped(input.planned)
  /\ pc = "done" => Covered(run) = Covered(segments) \ Stopped(input.unplanned)

(* The stretches that are added up are sorted, disjoint and not adjacent:  *)
(* no second is added twice, and no stretch is cut where the line ran on,  *)
(* which would lose the fractions on both sides of the cut.                *)
NothingIsCountedTwice == Separated(segments) /\ Separated(run)

(* Although each stretch is cut to whole seconds by itself, run time never *)
(* exceeds planned time, nor planned time the window, and each stretch     *)
(* loses less than one second.                                             *)
DurationsAreNested ==
  pc = "done" =>
    /\ run_s <= planned_s
    /\ planned_s <= Seconds(input.window)
    /\ \A d \in {<<segments, planned_s>>, <<run, run_s>>} :
         LET lost == Cardinality(Covered(d[1])) - d[2] * TicksPerSecond
         IN  0 <= lost /\ lost <= Len(d[1]) * (TicksPerSecond - 1)

Listed(warning) == \E k \in DOMAIN warnings : warnings[k] = warning

(* A component is missing exactly when a warning says why, the OEE exactly *)
(* when a component is; without planned time there is no run time either;  *)
(* and only a performance over 100% makes an OEE over 100%.                *)
WarningsExplainTheResult ==
  pc = "done" =>
    /\ Listed(ZeroPlannedTime) <=> result.availability = None
    /\ Listed(ZeroRunTime) <=> result.performance_raw = None
    /\ Listed(ZeroTotalCount) <=> result.quality = None
    /\ Listed(ZeroPlannedTime) => Listed(ZeroRunTime)
    /\ result.oee = None <=> Listed(ZeroRunTime) \/ Listed(ZeroTotalCount)
    /\ result.performance_capped # result.performance_raw => Listed(PerformanceOver100)
    /\ result.oee # None /\ result.oee[1] > result.oee[2] => Listed(PerformanceOver100)
================================================================================
