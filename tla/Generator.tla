------------------------------ MODULE Generator ------------------------------
(***************************************************************************)
(* generate() of scripts.simulator.generator: the machines of a            *)
(* configuration are simulated one after the other over [start, end), each *)
(* shift window after shift window, cycle after cycle; then the cycles of  *)
(* each line's bottleneck that no stop of the line touches are counted     *)
(* into buckets. Draws are nondeterministic: every sequence of draws the   *)
(* random generators could return is a behaviour.                          *)
(*                                                                         *)
(* Instants are ticks since a local midnight (the plant's timezone has     *)
(* had one offset since 2022).                                             *)
(***************************************************************************)
EXTENDS Integers, FiniteSets

CONSTANTS
  Machines,         (* machine ids                                           *)
  LineOf,           (* the line of each machine                              *)
  Periods,          (* the [start, end) a run may be asked for               *)
  Day,              (* ticks in a day                                        *)
  ShiftStart,       (* SHIFT_BOUNDARIES_LOCAL: shift code |-> time of day    *)
  Bucket,           (* PRODUCTION_BUCKET_MINUTES                             *)
  CycleTimes,       (* what _draw_truncated_normal may return                *)
  Slowed,           (* a cycle time |-> the same cycle during warm-up        *)
  WarmupCycles,     (* WARMUP_CYCLE_COUNT                                    *)
  ChangeoverTimes,  (* what rng.uniform may return for a changeover          *)
  MicroStopTimes,   (* what _draw_micro_stop_duration may return             *)
  FailureTimes      (* what _draw_failure_duration may return                *)

Shifts == DOMAIN ShiftStart
Lines  == {LineOf[m] : m \in Machines}

(* _validate: the arguments generate() accepts. *)
ConfigIsValid ==
  /\ Machines \subseteq Nat
  /\ DOMAIN LineOf = Machines
  /\ \A p \in Periods : p.start \in Nat /\ p.end \in Nat /\ p.start < p.end

ASSUME AcceptedConfig == ConfigIsValid

(* The draws are bounded away from 0, cycle times by their truncation and  *)
(* durations by max(MIN, min(MAX, ..)).                                    *)
DrawsFit ==
  /\ CycleTimes \union ChangeoverTimes \union MicroStopTimes \union FailureTimes
       \subseteq Nat \ {0}
  /\ Slowed \in [CycleTimes -> Nat \ {0}]
  /\ WarmupCycles \in Nat

ASSUME DrawsArePositive == DrawsFit

ASSUME TimeIsDiscrete ==
  /\ Day \in Nat \ {0} /\ Bucket \in Nat \ {0}
  /\ ShiftStart \in [Shifts -> 0..(Day - 1)]

Changeover == "planned_changeover"
MicroStop  == "micro_stop"
Failure    == "failure"

VARIABLES
  period,           (* start and end                                         *)
  pc,               (* window, cycles, buckets or done                       *)
  todo,             (* the machines still to be simulated                    *)
  machine,          (* the machine being simulated                           *)
  window,           (* the shift window: its boundary and the next one       *)
  clock, event_index, warmup_remaining,
  events,           (* downtime_events                                       *)
  cycles,           (* cycles_by_machine of the bottlenecks; no other is read *)
  records           (* production_records                                    *)

machineVars == <<todo, machine, clock, event_index, warmup_remaining>>
vars == <<period, pc, machineVars, window, events, cycles, records>>

MaxOf(a, b) == IF a >= b THEN a ELSE b
MinOf(a, b) == IF a <= b THEN a ELSE b

-----------------------------------------------------------------------------
(* Shifts. *)

(* Mutant: a boundary would belong to the shift it ends. *)
ShiftForExclusive(t) ==
  LET started == {s \in Shifts : ShiftStart[s] < t % Day}
      from    == IF started # {} THEN started ELSE Shifts
  IN  CHOOSE s \in from : \A r \in from : ShiftStart[r] <= ShiftStart[s]

(* The latest boundary of the day that is not after the time of day; before *)
(* the first one, the shift that began yesterday.                           *)
ShiftFor(t) ==
  LET started == {s \in Shifts : ShiftStart[s] <= t % Day}
      from    == IF started # {} THEN started ELSE Shifts
  IN  CHOOSE s \in from : \A r \in from : ShiftStart[r] <= ShiftStart[s]

(* The boundaries from the day before start to the day after end. *)
ShiftBoundaries ==
  {d * Day + ShiftStart[s] :
     d \in ((period.start \div Day) - 1)..((period.end \div Day) + 1), s \in Shifts}

IsNext(b, n) ==
  /\ n \in ShiftBoundaries /\ n > b
  /\ \A x \in ShiftBoundaries : x > b => n <= x

IsFirst(b) == b \in ShiftBoundaries /\ \A x \in ShiftBoundaries : b <= x

WindowStart == MaxOf(window.boundary, period.start)
WindowEnd   == MinOf(window.next, period.end)

Bottleneck(line) ==
  CHOOSE m \in Machines : /\ LineOf[m] = line
                          /\ \A n \in Machines : LineOf[n] = line => m <= n

-----------------------------------------------------------------------------
(* One machine. *)

(* The variables as _simulate_machine sets them before its first window. *)
StartsMachine(m, left) ==
  /\ machine' = m
  /\ todo' = left
  /\ clock' = period.start
  /\ event_index' = 0
  /\ warmup_remaining' = 0
  /\ pc' = "window"
  /\ \E b, n \in ShiftBoundaries :
       IsFirst(b) /\ IsNext(b, n) /\ window' = [boundary |-> b, next |-> n]

(* On to the next window; after the last one to the next machine, in the *)
(* order of their ids, and after the last machine to the buckets.        *)
NextWindow ==
  \/ \E n \in ShiftBoundaries :
       /\ IsNext(window.next, n)
       /\ window' = [boundary |-> window.next, next |-> n]
       /\ pc' = "window"
       /\ UNCHANGED <<todo, machine>>
  \/ /\ \A n \in ShiftBoundaries : ~IsNext(window.next, n)
     /\ pc' = "machine"
     /\ UNCHANGED <<todo, machine, window>>

NextMachine ==
  /\ pc = "machine"
  /\ \/ \E m \in todo : /\ \A n \in todo : m <= n
                        /\ StartsMachine(m, todo \ {m})
     \/ /\ todo = {}
        /\ pc' = "buckets"
        /\ UNCHANGED <<machineVars, window>>
  /\ UNCHANGED <<period, events, cycles, records>>

Emit(from, to, reason, planned) ==
  /\ events' = events \union
       {[machine |-> machine, index |-> event_index, start |-> from, end |-> to,
         reason |-> reason, is_planned |-> planned]}
  /\ event_index' = event_index + 1
  /\ clock' = to

(* Windows outside [start, end), and windows that a stop has swallowed. *)
SkipWindow ==
  /\ pc = "window"
  /\ WindowStart >= WindowEnd \/ clock >= WindowEnd
  /\ NextWindow
  /\ UNCHANGED <<period, clock, event_index, warmup_remaining, events, cycles, records>>

(* Mutant: a changeover would be dropped if a stop reaches into the shift. *)
ChangeOverOnTimeOnly ==
  /\ pc = "window"
  /\ WindowStart < WindowEnd /\ clock < WindowEnd
  /\ window.boundary >= period.start
  /\ \/ /\ clock <= window.boundary
        /\ \E d \in ChangeoverTimes :
             Emit(window.boundary, window.boundary + d, Changeover, TRUE)
     \/ /\ clock > window.boundary
        /\ UNCHANGED <<clock, event_index, events>>
  /\ pc' = "cycles"
  /\ UNCHANGED <<period, todo, machine, window, warmup_remaining, cycles, records>>

(* Mutant: a window that a stop has swallowed would not be skipped. *)
ChangeOverAlways ==
  /\ pc = "window"
  /\ WindowStart < WindowEnd
  /\ window.boundary >= period.start
  /\ \E d \in ChangeoverTimes :
       LET from == MaxOf(window.boundary, clock) IN Emit(from, from + d, Changeover, TRUE)
  /\ pc' = "cycles"
  /\ UNCHANGED <<period, todo, machine, window, warmup_remaining, cycles, records>>

(* A shift that starts within [start, end) starts with a changeover, which *)
(* waits for a stop that is still going on.                                *)
ChangeOver ==
  /\ pc = "window"
  /\ WindowStart < WindowEnd /\ clock < WindowEnd
  /\ window.boundary >= period.start
  /\ \E d \in ChangeoverTimes :
       LET from == MaxOf(window.boundary, clock) IN Emit(from, from + d, Changeover, TRUE)
  /\ pc' = "cycles"
  /\ UNCHANGED <<period, todo, machine, window, warmup_remaining, cycles, records>>

(* A shift already in progress at start has had its changeover. *)
ResumeShift ==
  /\ pc = "window"
  /\ WindowStart < WindowEnd /\ clock < WindowEnd
  /\ window.boundary < period.start
  /\ pc' = "cycles"
  /\ UNCHANGED <<period, machineVars, window, events, cycles, records>>

CycleTime(c) == IF warmup_remaining > 0 THEN Slowed[c] ELSE c

(* The window is over, or the cycle that was drawn does not fit in it: its *)
(* tail stays idle.                                                        *)
LeaveWindow ==
  /\ pc = "cycles"
  /\ clock >= WindowEnd \/ \E c \in CycleTimes : clock + CycleTime(c) > WindowEnd
  /\ NextWindow
  /\ UNCHANGED <<period, clock, event_index, warmup_remaining, events, cycles, records>>

(* Mutant: the warm-up would be counted down after it is over. *)
WarmupRunsOn == warmup_remaining - 1

AfterCycle == IF warmup_remaining > 0 THEN warmup_remaining - 1 ELSE 0

(* Mutant: the stop after a cycle would not move the clock. *)
RunCycleKeepsGoing ==
  /\ pc = "cycles"
  /\ clock < WindowEnd
  /\ \E c \in CycleTimes :
       LET ends == clock + CycleTime(c) IN
         /\ ends <= WindowEnd
         /\ \/ \E d \in MicroStopTimes :
                 events' = events \union
                   {[machine |-> machine, index |-> event_index, start |-> ends,
                     end |-> ends + d, reason |-> MicroStop, is_planned |-> FALSE]}
            \/ UNCHANGED events
         /\ event_index' = event_index + 1
         /\ clock' = ends
         /\ warmup_remaining' = AfterCycle
         /\ UNCHANGED cycles
  /\ UNCHANGED <<period, pc, todo, machine, window, records>>

(* One cycle that fits, then a failure, a micro stop or nothing. The shift *)
(* of a cycle is the one whose scrap probability was used for it.          *)
RunCycle ==
  /\ pc = "cycles"
  /\ clock < WindowEnd
  /\ \E c \in CycleTimes, good \in BOOLEAN :
       LET ends == clock + CycleTime(c) IN
         /\ ends <= WindowEnd
         /\ IF machine = Bottleneck(LineOf[machine])
              THEN cycles' = cycles \union
                     {[machine |-> machine, start |-> clock, end |-> ends, good |-> good,
                       shift |-> ShiftFor(WindowStart)]}
              ELSE good /\ UNCHANGED cycles
         /\ \/ \E d \in FailureTimes :
                 /\ Emit(ends, ends + d, Failure, FALSE)
                 /\ warmup_remaining' = WarmupCycles
            \/ \E d \in MicroStopTimes :
                 /\ Emit(ends, ends + d, MicroStop, FALSE)
                 /\ warmup_remaining' = AfterCycle
            \/ /\ clock' = ends
               /\ warmup_remaining' = AfterCycle
               /\ UNCHANGED <<events, event_index>>
  /\ UNCHANGED <<period, pc, todo, machine, window, records>>

-----------------------------------------------------------------------------
(* The lines' production. *)

LineEvents(line) == {e \in events : LineOf[e.machine] = line}

(* Mutant: a stop that begins during a cycle would not be seen. *)
OverlapsAnEarlierEvent(cycle, stops) ==
  \E e \in stops : e.start < cycle.start /\ e.end > cycle.start

OverlapsAnyEvent(cycle, stops) ==
  \E e \in stops : e.start < cycle.end /\ e.end > cycle.start

LineCycles(line) ==
  {c \in cycles : /\ c.machine = Bottleneck(line)
                  /\ ~OverlapsAnyEvent(c, LineEvents(line))}

Buckets == (period.end - period.start) \div Bucket

(* Mutant: one bucket too many. *)
BucketLineAndOneMore(line) ==
  {[line |-> line, start |-> period.start + i * Bucket,
    end |-> period.start + (i + 1) * Bucket, total |-> 0, good |-> 0] :
   i \in 0..Buckets}

(* Empty buckets are written too. A cycle counts where it ends; one that  *)
(* ends behind the last bucket, or with it, is not counted.               *)
BucketLine(line) ==
  {LET made == {c \in LineCycles(line) : (c.end - period.start) \div Bucket = i} IN
     [line |-> line, start |-> period.start + i * Bucket,
      end |-> period.start + (i + 1) * Bucket,
      total |-> Cardinality(made), good |-> Cardinality({c \in made : c.good})] :
   i \in 0..(Buckets - 1)}

CountProduction ==
  /\ pc = "buckets"
  /\ records' = UNION {BucketLine(line) : line \in Lines}
  /\ pc' = "done"
  /\ UNCHANGED <<period, machineVars, window, events, cycles>>

-----------------------------------------------------------------------------
Init ==
  /\ period \in Periods
  /\ pc = "machine"
  /\ todo = Machines
  /\ machine = CHOOSE m \in Machines : TRUE
  /\ window = [boundary |-> 0, next |-> 0]
  /\ clock = 0 /\ event_index = 0 /\ warmup_remaining = 0
  /\ events = {} /\ cycles = {} /\ records = {}

Next == \/ NextMachine \/ SkipWindow \/ ChangeOver \/ ResumeShift
        \/ LeaveWindow \/ RunCycle \/ CountProduction

Spec == Init /\ [][Next]_vars

-----------------------------------------------------------------------------
Event == [machine : Machines, index : Nat, start : Int, end : Int,
          reason : {Changeover, MicroStop, Failure}, is_planned : BOOLEAN]

Cycle == [machine : Machines, start : Int, end : Int, good : BOOLEAN, shift : Shifts]

(* Every variable has its type. *)
TypeOK ==
  /\ period \in Periods
  /\ pc \in {"machine", "window", "cycles", "buckets", "done"}
  /\ todo \subseteq Machines
  /\ pc \in {"window", "cycles"} => machine \in Machines
  /\ window \in [boundary : Int, next : Int]
  /\ clock \in Int /\ event_index \in Nat /\ warmup_remaining \in Nat
  /\ events \subseteq Event /\ cycles \subseteq Cycle
  /\ \A r \in records : r.line \in Lines /\ {r.start, r.end, r.total, r.good} \subseteq Int

Disjoint(x, y) == x.end <= y.start \/ y.end <= x.start

(* A machine does one thing at a time, whatever is drawn and wherever the   *)
(* shifts begin: no two stops, no two cycles and no stop and cycle of one   *)
(* machine overlap, and each lasts. A stop may outlast its shift, the next  *)
(* shift and the run.                                                       *)
OneThingAtATime ==
  /\ \A e \in events : e.start < e.end
  /\ \A c \in cycles : c.start < c.end
  /\ \A e, f \in events : e.machine = f.machine => e = f \/ Disjoint(e, f)
  /\ \A c, d \in cycles : c.machine = d.machine => c = d \/ Disjoint(c, d)
  /\ \A e \in events, c \in cycles : e.machine = c.machine => Disjoint(e, c)

(* The scrap and stop rates used for a cycle are those of the shift it runs *)
(* in, from its first tick to its last, though the clock may be left in an  *)
(* earlier shift (a cycle that did not fit) or be carried far into a later  *)
(* one (a long stop).                                                       *)
CyclesRunInTheirShift ==
  \A c \in cycles : \A t \in c.start..(c.end - 1) : ShiftFor(t) = c.shift

(* Every shift that begins within the run has exactly one changeover on     *)
(* each machine, begun during the shift, unless one stop of the machine     *)
(* lasts through all of the shift.                                          *)
ShiftsBeginWithAChangeover ==
  pc = "done" =>
    \A m \in Machines, b \in ShiftBoundaries, n \in ShiftBoundaries :
      LET last == MinOf(n, period.end) IN
      IsNext(b, n) /\ period.start <= b /\ b < last =>
        \/ Cardinality({e \in events : /\ e.machine = m /\ e.reason = Changeover
                                       /\ b <= e.start /\ e.start < last}) = 1
        \/ \E e \in events : e.machine = m /\ e.start <= b /\ last <= e.end

(* rolling._daily_run: a day's events are cut where the next day begins. *)
HandedOver(e) == [e EXCEPT !.end = MinOf(e.end, period.end)]

(* The next day, which is generated by itself from its own seed, finds every *)
(* machine idle: nothing of this day is left behind its end, and no event    *)
(* that lasted is cut to nothing unless it began with the next day.          *)
NothingReachesTheNextDay ==
  \A e \in events :
    LET h == HandedOver(e) IN
      h.end <= period.end /\ (h.start < h.end \/ h.start = period.end)
=============================================================================
