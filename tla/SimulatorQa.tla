----------------------------- MODULE SimulatorQa -----------------------------
(***************************************************************************)
(* The checks of scripts.simulator.qa on a generated run, before it is     *)
(* posted: check_structural, and the run time and cycle count from which   *)
(* check_statistical_bands derives a line's mean cycle time. The other     *)
(* bands compare sample statistics with their expectation and are left out. *)
(***************************************************************************)
EXTENDS Generator

CONSTANT StopBoundary   (* MICRO_STOP_FAILURE_BOUNDARY_SECONDS *)

(* config.py: a micro stop is cut to MICRO_STOP_DURATION_MAX_SECONDS (299), *)
(* a failure begins at FAILURE_DURATION_MIN_SECONDS (300).                  *)
ASSUME StopsAreClassed ==
  /\ StopBoundary \in Int
  /\ \A d \in MicroStopTimes : d < StopBoundary
  /\ \A d \in FailureTimes : StopBoundary <= d

(* The draws of a cycle time come to an end, and a warm-up makes a cycle   *)
(* longer (WARMUP_CYCLE_TIME_MULTIPLIER is 1.15).                          *)
ASSUME WarmupIsSlower ==
  CycleTimes # {} /\ \A c \in CycleTimes : c <= Slowed[c]

(* The catalog's default_is_planned (config.REQUIRED_REASON_CATALOG). *)
DefaultIsPlanned(reason) == reason = Changeover

EventsOf(m) == {e \in events : e.machine = m}

(* The events of one machine in the order of their start, neighbours only. *)
OverlappingDowntimeEvents ==
  \E e, f \in events :
    /\ e # f /\ e.machine = f.machine /\ e.start <= f.start
    /\ \A g \in EventsOf(e.machine) \ {e, f} : g.start <= e.start \/ f.start <= g.start
    /\ f.start < e.end

IsPlannedMismatch == \E e \in events : e.is_planned # DefaultIsPlanned(e.reason)

ExpectedClass(e) == IF e.end - e.start < StopBoundary THEN MicroStop ELSE Failure

BoundaryMismatch ==
  \E e \in events : e.reason # Changeover /\ e.reason # ExpectedClass(e)

GoodCountExceedsTotal == \E r \in records : r.good > r.total

RecordsOf(line) == {r \in records : r.line = line}

BucketCountMismatch ==
  \E line \in Lines :
    /\ RecordsOf(line) # {}
    /\ Cardinality(RecordsOf(line)) # (period.end - period.start) \div Bucket

BucketMisaligned == \E r \in records : r.end - r.start # Bucket

(* Neighbours in the order of their start. *)
BucketGap ==
  \E r, s \in records :
    /\ r.line = s.line /\ r.start < s.start
    /\ \A q \in RecordsOf(r.line) : q.start <= r.start \/ s.start <= q.start
    /\ r.end # s.start

CheckStructural ==
  {f \in {"overlapping_downtime_events", "is_planned_mismatch", "boundary_mismatch",
          "good_count_exceeds_total", "bucket_count_mismatch", "bucket_misaligned",
          "bucket_gap"} :
     CASE f = "overlapping_downtime_events" -> OverlappingDowntimeEvents
       [] f = "is_planned_mismatch"         -> IsPlannedMismatch
       [] f = "boundary_mismatch"           -> BoundaryMismatch
       [] f = "good_count_exceeds_total"    -> GoodCountExceedsTotal
       [] f = "bucket_count_mismatch"       -> BucketCountMismatch
       [] f = "bucket_misaligned"           -> BucketMisaligned
       [] f = "bucket_gap"                  -> BucketGap}

(* The ticks of the first n buckets in which no machine of the line stands: *)
(* window.seconds less duration_seconds of the clipped stops.               *)
RunTime(line, n) ==
  Cardinality({t \in period.start..(period.start + n * Bucket - 1) :
                 \A e \in LineEvents(line) : ~(e.start <= t /\ t < e.end)})

(* cycles_by_line, over the first n buckets. *)
CyclesCounted(line, n) ==
  LET first == {r \in RecordsOf(line) : r.end <= period.start + n * Bucket}
      upTo[k \in 0..n] ==
        IF k = 0 THEN 0
        ELSE upTo[k - 1] +
             (CHOOSE r \in first : r.start = period.start + (k - 1) * Bucket).total
  IN  upTo[n]

ShortestCycle == CHOOSE c \in CycleTimes : \A d \in CycleTimes : c <= d

-----------------------------------------------------------------------------
(* Whatever is drawn, a generated run passes every structural check the QA  *)
(* runner makes of it (docs/simulator-spec.md, section 7).                  *)
StructuralCheckPasses == pc = "done" => CheckStructural = {}

(* A run never reports more units than its stops leave time for: at the end *)
(* of every bucket, the cycles counted so far fit, even at the shortest     *)
(* cycle time, into the time in which no machine of the line stood. So the  *)
(* mean cycle time of check_statistical_bands is never below what was       *)
(* drawn, and OEE's performance never exceeds what the machines could do.   *)
CountsFitTheRunTime ==
  pc = "done" =>
    \A line \in Lines, n \in 1..Buckets :
      CyclesCounted(line, n) * ShortestCycle <= RunTime(line, n)
=============================================================================
