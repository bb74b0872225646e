---------------------------- MODULE GeneratorProofs ----------------------------
(***************************************************************************)
(* Proofs about Generator and the checks of SimulatorQa, for any machines, *)
(* shifts, periods and draws.                                              *)
(***************************************************************************)
EXTENDS SimulatorQa, FiniteSetTheorems, WellFoundedInduction, TLAPS

(* The strengthening. The clock of the machine being simulated has left    *)
(* behind all that was recorded of it, and the machines still to come have *)
(* nothing recorded; the machine being simulated is not one of them.       *)
TimeIsTyped ==
  /\ period.start \in Int /\ period.end \in Int
  /\ clock \in Int
  /\ window.boundary \in Int /\ window.next \in Int

EventsLast ==
  \A e \in events : /\ e.start \in Int /\ e.end \in Int
                    /\ e.start < e.end /\ e.start <= period.end

CyclesLast == \A c \in cycles : c.start \in Int /\ c.end \in Int /\ c.start < c.end

ClockIsAhead ==
  /\ \A e \in events : e.machine = machine => e.end <= clock
  /\ \A c \in cycles : c.machine = machine => c.end <= clock

TodoIsUntouched ==
  /\ \A e \in events : e.machine \notin todo
  /\ \A c \in cycles : c.machine \notin todo
  /\ pc \in {"window", "cycles"} => machine \notin todo

IInv ==
  TimeIsTyped /\ EventsLast /\ CyclesLast /\ ClockIsAhead /\ TodoIsUntouched /\ OneThingAtATime

-----------------------------------------------------------------------------
(* Whatever is recorded from the clock on is disjoint from the past.       *)

LEMMA BoundariesAreInstants ==
  ASSUME period.start \in Int, period.end \in Int
  PROVE  ShiftBoundaries \subseteq Int
<1>1. Day \in Int /\ Day > 0 /\ \A s \in Shifts : ShiftStart[s] \in Int
  BY TimeIsDiscrete
<1>2. /\ (period.start \div Day) - 1 \in Int
      /\ (period.end \div Day) + 1 \in Int
  BY <1>1
<1>3. \A d \in ((period.start \div Day) - 1)..((period.end \div Day) + 1) : d \in Int
  BY <1>2
<1> QED
  BY <1>1, <1>3 DEF ShiftBoundaries

LEMMA DrawsAreInstants ==
  /\ \A d \in CycleTimes \union ChangeoverTimes \union MicroStopTimes \union FailureTimes :
       d \in Int /\ 0 < d
  /\ \A c \in CycleTimes : CycleTime(c) \in Int /\ 0 < CycleTime(c)
BY DrawsArePositive DEF DrawsFit, CycleTime

(* What a step may record of the machine: a cycle that ends at an instant  *)
(* the clock has not passed, and a stop from that instant to the new clock. *)
Records(from, stops, made) ==
  /\ pc \in {"window", "cycles"}
  /\ from \in Int /\ clock' \in Int /\ clock <= from /\ from <= clock'
  /\ events' = events \union stops /\ cycles' = cycles \union made
  /\ \A e, f \in stops : e = f
  /\ \A c, d \in made : c = d
  /\ \A e \in stops : /\ e.machine = machine /\ e.start \in Int /\ e.end \in Int
                      /\ from <= e.start /\ e.start <= period.end
                      /\ e.start < e.end /\ e.end <= clock'
  /\ \A c \in made : /\ c.machine = machine /\ c.start \in Int /\ c.end \in Int
                     /\ clock <= c.start /\ c.start < c.end /\ c.end <= from
  /\ UNCHANGED <<period, todo, machine, window>>

LEMMA RecordingKeepsIInv ==
  ASSUME IInv, NEW from, NEW stops, NEW made, Records(from, stops, made)
  PROVE  IInv'
<1> USE DEF Records
<1>1. TimeIsTyped'
  BY DEF IInv, TimeIsTyped
<1>2. EventsLast' /\ CyclesLast'
  BY DEF IInv, EventsLast, CyclesLast, TimeIsTyped
<1>3. ClockIsAhead'
  BY DEF IInv, ClockIsAhead, TimeIsTyped, EventsLast, CyclesLast
<1>4. TodoIsUntouched'
  BY DEF IInv, TodoIsUntouched
<1>5. ASSUME NEW e \in events, NEW f \in stops, e.machine = machine
      PROVE  Disjoint(e, f) /\ Disjoint(f, e)
  BY <1>5 DEF IInv, ClockIsAhead, TimeIsTyped, EventsLast, Disjoint
<1>6. ASSUME NEW c \in cycles, NEW d \in made, c.machine = machine
      PROVE  Disjoint(c, d) /\ Disjoint(d, c)
  BY <1>6 DEF IInv, ClockIsAhead, TimeIsTyped, CyclesLast, Disjoint
<1>7. ASSUME NEW e \in events, NEW c \in made, e.machine = machine
      PROVE  Disjoint(e, c)
  BY <1>7 DEF IInv, ClockIsAhead, TimeIsTyped, EventsLast, Disjoint
<1>8. ASSUME NEW e \in stops, NEW c \in cycles, c.machine = machine
      PROVE  Disjoint(e, c)
  BY <1>8 DEF IInv, ClockIsAhead, TimeIsTyped, CyclesLast, Disjoint
<1>9. ASSUME NEW e \in stops, NEW c \in made
      PROVE  Disjoint(e, c)
  BY DEF Disjoint
<1>10. OneThingAtATime'
  <2>1. \A e \in events' : e.start < e.end
    BY <1>2 DEF EventsLast
  <2>2. \A c \in cycles' : c.start < c.end
    BY <1>2 DEF CyclesLast
  <2>3. \A e, f \in events' : e.machine = f.machine => e = f \/ Disjoint(e, f)
    BY <1>5 DEF IInv, OneThingAtATime
  <2>4. \A c, d \in cycles' : c.machine = d.machine => c = d \/ Disjoint(c, d)
    BY <1>6 DEF IInv, OneThingAtATime
  <2>5. \A e \in events', c \in cycles' : e.machine = c.machine => Disjoint(e, c)
    BY <1>7, <1>8, <1>9 DEF IInv, OneThingAtATime
  <2> QED
    BY <2>1, <2>2, <2>3, <2>4, <2>5 DEF OneThingAtATime, Disjoint
<1> QED
  BY <1>1, <1>2, <1>3, <1>4, <1>10 DEF IInv

(* The stop that Emit records, from an instant on.                          *)
StopOf(from, to, reason, planned) ==
  [machine |-> machine, index |-> event_index, start |-> from, end |-> to,
   reason |-> reason, is_planned |-> planned]

LEMMA EmittingRecords ==
  ASSUME NEW from \in Int, NEW to \in Int, NEW reason, NEW planned,
         from < to, from <= period.end,
         Emit(from, to, reason, planned),
         NEW stop, stop = StopOf(from, to, reason, planned)
  PROVE  /\ events' = events \union {stop} /\ clock' = to
         /\ stop.machine = machine
         /\ stop.start \in Int /\ stop.end \in Int
         /\ from <= stop.start /\ stop.start <= period.end
         /\ stop.start < stop.end /\ stop.end <= clock'
<1>1. events' = events \union {stop} /\ clock' = to
  BY DEF Emit, StopOf
<1>2. stop.machine = machine /\ stop.start = from /\ stop.end = to
  BY DEF StopOf
<1> QED
  BY <1>1, <1>2

(* Bookkeeping: the clock and what was recorded stay.                       *)
LEMMA BookkeepingKeepsIInv ==
  ASSUME IInv, NextWindow,
         UNCHANGED <<period, clock, events, cycles>>,
         pc \in {"window", "cycles"}
  PROVE  IInv'
<1>1. /\ todo' = todo /\ machine' = machine
      /\ window' = window \/ \E n \in ShiftBoundaries :
            window' = [boundary |-> window.next, next |-> n]
  BY DEF NextWindow
<1>2. TimeIsTyped'
  BY <1>1, BoundariesAreInstants DEF IInv, TimeIsTyped
<1> QED
  BY <1>1, <1>2 DEF IInv, EventsLast, CyclesLast, ClockIsAhead, TodoIsUntouched,
                    OneThingAtATime, Disjoint

LEMMA NextMachineKeepsIInv ==
  ASSUME IInv, NextMachine PROVE IInv'
<1>1. CASE UNCHANGED <<machineVars, window>> /\ pc' = "buckets"
  BY <1>1 DEF NextMachine, machineVars, IInv, TimeIsTyped, EventsLast, CyclesLast, ClockIsAhead,
              TodoIsUntouched, OneThingAtATime, Disjoint
<1>2. ASSUME NEW m \in todo, StartsMachine(m, todo \ {m}) PROVE IInv'
  <2>1. /\ machine' = m /\ todo' = todo \ {m} /\ clock' = period.start
        /\ period' = period /\ events' = events /\ cycles' = cycles
    BY <1>2 DEF StartsMachine, NextMachine
  <2>2. TimeIsTyped'
    <3>1. PICK b \in ShiftBoundaries, n \in ShiftBoundaries :
            window' = [boundary |-> b, next |-> n]
      BY <1>2 DEF StartsMachine
    <3> QED
      BY <2>1, <3>1, BoundariesAreInstants DEF IInv, TimeIsTyped
  <2>3. ClockIsAhead' /\ TodoIsUntouched'
    BY <2>1 DEF IInv, TodoIsUntouched, ClockIsAhead
  <2> QED
    BY <2>1, <2>2, <2>3 DEF IInv, EventsLast, CyclesLast, OneThingAtATime, Disjoint
<1> QED
  BY <1>1, <1>2 DEF NextMachine

LEMMA WindowIsWithinThePeriod ==
  ASSUME TimeIsTyped
  PROVE  /\ WindowStart \in Int /\ WindowEnd \in Int /\ WindowEnd <= period.end
         /\ window.boundary <= WindowStart
BY DEF TimeIsTyped, WindowStart, WindowEnd, MaxOf, MinOf

LEMMA ChangeOverKeepsIInv ==
  ASSUME IInv, ChangeOver PROVE IInv'
<1>1. PICK d \in ChangeoverTimes :
        Emit(MaxOf(window.boundary, clock), MaxOf(window.boundary, clock) + d, Changeover, TRUE)
  BY DEF ChangeOver
<1> DEFINE from == MaxOf(window.boundary, clock)
<1>2. /\ from \in Int /\ clock <= from /\ from <= period.end
      /\ from + d \in Int /\ from < from + d
  BY DrawsAreInstants, WindowIsWithinThePeriod DEF ChangeOver, IInv, TimeIsTyped, MaxOf
<1>3. /\ pc = "window" /\ UNCHANGED <<period, todo, machine, window>>
      /\ cycles' = cycles \union {}
  BY DEF ChangeOver
<1>4. Emit(from, from + d, Changeover, TRUE)
  BY <1>1
<1> HIDE DEF from
<1> DEFINE stop == StopOf(from, from + d, Changeover, TRUE)
<1>5. /\ events' = events \union {stop} /\ clock' = from + d
      /\ stop.machine = machine
      /\ stop.start \in Int /\ stop.end \in Int
      /\ from <= stop.start /\ stop.start <= period.end
      /\ stop.start < stop.end /\ stop.end <= clock'
  BY <1>2, <1>4, EmittingRecords
<1> HIDE DEF stop
<1>6. Records(from, {stop}, {})
  BY <1>2, <1>3, <1>5 DEF Records, IInv, TimeIsTyped
<1> QED
  BY <1>6, RecordingKeepsIInv

LEMMA RunCycleKeepsIInv ==
  ASSUME IInv, RunCycle PROVE IInv'
<1>1. PICK c \in CycleTimes, good \in BOOLEAN :
        LET ends == clock + CycleTime(c) IN
         /\ ends <= WindowEnd
         /\ IF machine = Bottleneck(LineOf[machine])
              THEN cycles' = cycles \union
                     {[machine |-> machine, start |-> clock, end |-> ends, good |-> good,
                       shift |-> ShiftFor(WindowStart)]}
              ELSE good /\ UNCHANGED cycles
         /\ \/ \E d \in FailureTimes : Emit(ends, ends + d, Failure, FALSE)
            \/ \E d \in MicroStopTimes : Emit(ends, ends + d, MicroStop, FALSE)
            \/ clock' = ends /\ UNCHANGED events
  BY DEF RunCycle
<1> DEFINE ends == clock + CycleTime(c)
           cycle == [machine |-> machine, start |-> clock, end |-> ends, good |-> good,
                     shift |-> ShiftFor(WindowStart)]
           made == IF machine = Bottleneck(LineOf[machine]) THEN {cycle} ELSE {}
<1>2. /\ clock \in Int /\ ends \in Int /\ clock < ends /\ ends <= period.end
  BY <1>1, DrawsAreInstants, WindowIsWithinThePeriod DEF IInv, TimeIsTyped
<1>3. /\ cycles' = cycles \union made
      /\ \A x, y \in made : x = y
      /\ \A x \in made : x.machine = machine /\ x.start = clock /\ x.end = ends
  BY <1>1
<1>4. \A x \in made : /\ x.machine = machine /\ x.start \in Int /\ x.end \in Int
                      /\ clock <= x.start /\ x.start < x.end /\ x.end <= ends
  BY <1>2, <1>3
<1>5. pc = "cycles" /\ UNCHANGED <<period, todo, machine, window>>
  BY DEF RunCycle
<1>6. ASSUME NEW d \in FailureTimes \union MicroStopTimes, NEW reason,
             Emit(ends, ends + d, reason, FALSE)
      PROVE  IInv'
  <2>1. ends + d \in Int /\ ends < ends + d
    BY <1>2, DrawsAreInstants
  <2> HIDE DEF ends, cycle, made
  <2> DEFINE stop == StopOf(ends, ends + d, reason, FALSE)
  <2>2. /\ events' = events \union {stop} /\ clock' = ends + d
        /\ stop.machine = machine
        /\ stop.start \in Int /\ stop.end \in Int
        /\ ends <= stop.start /\ stop.start <= period.end
        /\ stop.start < stop.end /\ stop.end <= clock'
    BY <1>2, <1>6, <2>1, EmittingRecords
  <2> HIDE DEF stop
  <2>3. Records(ends, {stop}, made)
    BY <1>2, <1>3, <1>4, <1>5, <2>1, <2>2 DEF Records
  <2> QED
    BY <2>3, RecordingKeepsIInv
<1>7. CASE clock' = ends /\ UNCHANGED events
  <2> HIDE DEF ends, cycle, made
  <2>1. Records(ends, {}, made)
    BY <1>2, <1>3, <1>4, <1>5, <1>7 DEF Records
  <2> QED
    BY <2>1, RecordingKeepsIInv
<1> QED
  BY <1>1, <1>6, <1>7

LEMMA RunCycleAdvances ==
  ASSUME TimeIsTyped, RunCycle
  PROVE  clock <= clock'
<1>1. PICK c \in CycleTimes, d \in {0} \union FailureTimes \union MicroStopTimes :
        clock' = clock + CycleTime(c) + d \/ clock' = clock + CycleTime(c)
  BY DEF RunCycle, Emit
<1>2. CycleTime(c) \in Int /\ 0 < CycleTime(c) /\ d \in Int /\ 0 <= d
  BY DrawsAreInstants
<1> QED
  BY <1>1, <1>2 DEF TimeIsTyped

LEMMA IInvIsInductive ==
  ASSUME IInv, [Next]_vars PROVE IInv'
<1>1. CASE NextMachine
  BY <1>1, NextMachineKeepsIInv
<1>2. CASE SkipWindow
  BY <1>2, BookkeepingKeepsIInv DEF SkipWindow
<1>3. CASE ChangeOver
  BY <1>3, ChangeOverKeepsIInv
<1>4. CASE ResumeShift
  BY <1>4 DEF ResumeShift, machineVars, IInv, TimeIsTyped, EventsLast, CyclesLast, ClockIsAhead,
              TodoIsUntouched, OneThingAtATime, Disjoint
<1>5. CASE LeaveWindow
  BY <1>5, BookkeepingKeepsIInv DEF LeaveWindow
<1>6. CASE RunCycle
  BY <1>6, RunCycleKeepsIInv
<1>7. CASE CountProduction
  BY <1>7 DEF CountProduction, machineVars, IInv, TimeIsTyped, EventsLast, CyclesLast, ClockIsAhead,
              TodoIsUntouched, OneThingAtATime, Disjoint
<1>8. CASE UNCHANGED vars
  BY <1>8 DEF vars, machineVars, IInv, TimeIsTyped, EventsLast, CyclesLast, ClockIsAhead,
              TodoIsUntouched, OneThingAtATime, Disjoint
<1> QED
  BY <1>1, <1>2, <1>3, <1>4, <1>5, <1>6, <1>7, <1>8 DEF Next

LEMMA IInvHolds == Spec => []IInv
<1>1. Init => IInv
  BY AcceptedConfig DEF ConfigIsValid, Init, IInv, TimeIsTyped, EventsLast, CyclesLast,
                        ClockIsAhead, TodoIsUntouched, OneThingAtATime
<1> QED
  BY <1>1, IInvIsInductive, PTL DEF Spec

-----------------------------------------------------------------------------
(* For any machines, shifts, periods and draws, no two stops, no two cycles *)
(* and no stop and cycle of one machine overlap (_simulate_machine).        *)
THEOREM MachinesDoOneThingAtATime == Spec => []OneThingAtATime
<1>1. IInv => OneThingAtATime
  BY DEF IInv
<1> QED
  BY <1>1, IInvHolds, PTL

(* Cut where the production day ends, no event reaches into the next day,   *)
(* and none is cut to nothing unless it began with that day (_daily_run).   *)
THEOREM DaysAreHandedOver == Spec => []NothingReachesTheNextDay
<1>1. IInv => NothingReachesTheNextDay
  <2> SUFFICES ASSUME IInv, NEW e \in events
               PROVE  LET h == HandedOver(e) IN
                        h.end <= period.end /\ (h.start < h.end \/ h.start = period.end)
    BY DEF NothingReachesTheNextDay
  <2>1. /\ e.start \in Int /\ e.end \in Int /\ period.end \in Int
        /\ e.start < e.end /\ e.start <= period.end
    BY DEF IInv, EventsLast, TimeIsTyped
  <2> QED
    BY <2>1 DEF HandedOver, MinOf
<1> QED
  BY <1>1, IInvHolds, PTL
-----------------------------------------------------------------------------
(* The windows. *)

(* Where a machine is: in a window between two neighbouring boundaries,  *)
(* at an instant of the period, and in the cycle loop behind the window's  *)
(* start.                                                                  *)
WindowInv ==
  /\ period \in Periods
  /\ todo \subseteq Machines
  /\ pc \in {"window", "cycles"} =>
       /\ machine \in Machines
       /\ window.boundary \in ShiftBoundaries
       /\ IsNext(window.boundary, window.next)
       /\ period.start <= clock
  /\ pc = "cycles" => WindowStart <= clock

LEMMA PeriodFacts ==
  ASSUME period \in Periods
  PROVE  /\ period.start \in Int /\ period.end \in Int /\ period.start < period.end
         /\ 0 <= period.start
BY AcceptedConfig DEF ConfigIsValid

LEMMA SamePeriod ==
  ASSUME period' = period
  PROVE  /\ ShiftBoundaries' = ShiftBoundaries
         /\ \A b, n : IsNext(b, n)' <=> IsNext(b, n)
BY DEF ShiftBoundaries, IsNext

LEMMA WindowBounds ==
  ASSUME TimeIsTyped
  PROVE  /\ WindowStart \in Int /\ WindowEnd \in Int
         /\ period.start <= WindowStart /\ window.boundary <= WindowStart
         /\ WindowStart = period.start \/ WindowStart = window.boundary
         /\ WindowEnd <= period.end /\ WindowEnd <= window.next
BY DEF TimeIsTyped, WindowStart, WindowEnd, MaxOf, MinOf

LEMMA WindowMoves ==
  ASSUME IInv, WindowInv, NextWindow, UNCHANGED <<period, clock>>, pc \in {"window", "cycles"}
  PROVE  WindowInv'
<1>1. CASE pc' = "machine"
  BY <1>1 DEF WindowInv, NextWindow
<1>2. ASSUME NEW n \in ShiftBoundaries, IsNext(window.next, n), pc' = "window",
             window' = [boundary |-> window.next, next |-> n],
             UNCHANGED <<todo, machine>>
      PROVE  WindowInv'
  <2>1. window.next \in ShiftBoundaries
    BY DEF WindowInv, IsNext
  <2>2. window'.boundary = window.next /\ window'.next = n
    BY <1>2
  <2>3. QED
    BY <1>2, <2>1, <2>2, SamePeriod DEF WindowInv, IsNext
<1>3. QED
  BY <1>1, <1>2 DEF NextWindow

LEMMA WindowInvStep ==
  ASSUME IInv, WindowInv, [Next]_vars PROVE WindowInv'
<1> USE DEF machineVars
<1>1. TimeIsTyped
  BY DEF IInv
<1>2. CASE NextMachine
  <2>1. CASE pc' = "buckets"
    BY <1>2, <2>1 DEF NextMachine, StartsMachine, WindowInv
  <2>2. ASSUME NEW m \in todo, StartsMachine(m, todo \ {m})
        PROVE  WindowInv'
    <3>1. PICK b \in ShiftBoundaries, n \in ShiftBoundaries :
            IsNext(b, n) /\ window' = [boundary |-> b, next |-> n]
      BY <2>2 DEF StartsMachine
    <3>2. window'.boundary = b /\ window'.next = n
      BY <3>1
    <3>3. /\ pc' = "window" /\ clock' = period.start /\ period' = period
          /\ machine' = m /\ todo' = todo \ {m}
      BY <1>2, <2>2 DEF StartsMachine, NextMachine
    <3>4. QED
      BY <1>1, <3>1, <3>2, <3>3, SamePeriod DEF WindowInv, TimeIsTyped, IsNext
  <2>3. QED
    BY <1>2, <2>1, <2>2 DEF NextMachine
<1>3. CASE SkipWindow
  BY <1>3, WindowMoves DEF SkipWindow
<1>4. CASE ChangeOver
  <2>1. /\ pc = "window" /\ pc' = "cycles" /\ UNCHANGED <<period, window, todo, machine>>
        /\ WindowStart = window.boundary
    BY <1>1, <1>4 DEF ChangeOver, WindowStart, MaxOf, TimeIsTyped
  <2>2. PICK d \in ChangeoverTimes : clock' = MaxOf(window.boundary, clock) + d
    BY <1>4 DEF ChangeOver, Emit
  <2>3. window.boundary <= clock' /\ clock <= clock'
    BY <1>1, <2>2, DrawsAreInstants DEF MaxOf, TimeIsTyped
  <2>4. period.start <= clock'
    BY <1>1, <2>1, <2>3, IInvIsInductive DEF WindowInv, TimeIsTyped, IInv, Next
  <2>5. WindowStart' = WindowStart
    BY <2>1 DEF WindowStart
  <2>6. QED
    BY <2>1, <2>3, <2>4, <2>5, SamePeriod DEF WindowInv, IsNext
<1>5. CASE ResumeShift
  <2>1. /\ pc = "window" /\ pc' = "cycles"
        /\ UNCHANGED <<period, window, clock, todo, machine>>
        /\ WindowStart = period.start
    BY <1>1, <1>5 DEF ResumeShift, WindowStart, MaxOf, TimeIsTyped
  <2>2. WindowStart' = WindowStart
    BY <2>1 DEF WindowStart
  <2>3. QED
    BY <2>1, <2>2, SamePeriod DEF WindowInv, IsNext
<1>6. CASE LeaveWindow
  BY <1>6, WindowMoves DEF LeaveWindow
<1>7. CASE RunCycle
  <2>1. pc = "cycles" /\ UNCHANGED <<period, pc, window, todo, machine>>
    BY <1>7 DEF RunCycle
  <2>2. WindowStart' = WindowStart
    BY <2>1 DEF WindowStart
  <2>3. clock <= clock'
    BY <1>1, <1>7, RunCycleAdvances
  <2>4. WindowStart <= clock' /\ period.start <= clock'
    BY <1>1, <1>7, <2>1, <2>3, IInvIsInductive, WindowBounds DEF WindowInv, TimeIsTyped, IInv, Next
  <2>5. QED
    BY <2>1, <2>2, <2>4, SamePeriod DEF WindowInv, IsNext
<1>8. CASE CountProduction
  BY <1>8 DEF CountProduction, WindowInv
<1>9. CASE UNCHANGED vars
  <2>1. UNCHANGED <<period, pc, window, clock, todo, machine>>
    BY <1>9 DEF vars
  <2>2. WindowStart' = WindowStart
    BY <2>1 DEF WindowStart
  <2>3. QED
    BY <2>1, <2>2, SamePeriod DEF WindowInv, IsNext
<1>10. QED
  BY <1>2, <1>3, <1>4, <1>5, <1>6, <1>7, <1>8, <1>9 DEF Next

LEMMA WindowInvHolds == Spec => [](IInv /\ WindowInv)
<1>1. Init => WindowInv
  BY DEF Init, WindowInv
<1>2. QED
  BY <1>1, WindowInvStep, IInvHolds, PTL DEF Spec

-----------------------------------------------------------------------------
(* Shifts and instants. *)

LEMMA Quotients ==
  ASSUME NEW d \in Nat \ {0}, NEW x \in Int, NEW y \in Int, x <= y
  PROVE  x \div d <= y \div d
<1>1. PICK p \in Int, q \in Int : p = x \div d /\ q = y \div d
  OBVIOUS
<1>2. p * d <= x /\ y < q * d + d
  BY <1>1
<1>3. ASSUME q + 1 <= p
      PROVE  q * d + d <= p * d
  <2>1. PICK n \in Nat : p = q + 1 + n
    <3>1. p - (q + 1) \in Nat /\ p = q + 1 + (p - (q + 1))
      BY <1>3
    <3>2. QED
      BY <3>1
  <2>2. p * d = q * d + d + n * d
    BY <2>1
  <2>3. n * d >= 0 /\ q * d \in Int /\ p * d \in Int /\ n * d \in Int
    OBVIOUS
  <2>4. QED
    BY <2>2, <2>3
<1>4. p * d \in Int /\ q * d \in Int
  OBVIOUS
<1>5. p <= q
  <2>1. CASE q + 1 <= p
    BY <1>2, <1>3, <1>4, <2>1
  <2>2. QED
    BY <2>1
<1>6. QED
  BY <1>1, <1>5

(* An instant is its day's beginning and its time of day.                  *)
LEMMA DayAndTime ==
  ASSUME NEW t \in Int
  PROVE  \E d \in Int, r \in 0..(Day - 1), m \in Int :
            d = t \div Day /\ r = t % Day /\ m = d * Day /\ t = m + r
<1>1. Day \in Nat \ {0}
  BY TimeIsDiscrete
<1>2. t \div Day \in Int /\ t % Day \in 0..(Day - 1) /\ t = (t \div Day) * Day + (t % Day)
  BY <1>1
<1>3. (t \div Day) * Day \in Int
  BY <1>1, <1>2
<1>4. QED
  BY <1>2, <1>3

(* The shifts among which ShiftFor finds the last.                         *)
Candidates(t) ==
  LET started == {s \in Shifts : ShiftStart[s] <= t % Day}
  IN  IF started # {} THEN started ELSE Shifts

LastOf(S) == CHOOSE s \in S : \A r \in S : ShiftStart[r] <= ShiftStart[s]

LEMMA ShiftForIsLast ==
  ASSUME NEW t PROVE ShiftFor(t) = LastOf(Candidates(t))
BY DEF ShiftFor, LastOf, Candidates

(* No shift begins inside a window: of any two instants of it the same     *)
(* boundaries of their days have passed, and if midnight is between them,  *)
(* all of the one day's and none of the other's.                           *)
LEMMA OneShiftInAWindow ==
  ASSUME period \in Periods, NEW b \in Int, NEW n \in Int, IsNext(b, n),
         NEW u \in Int, NEW t \in Int,
         period.start <= u, b <= u, u <= t, t < n, t <= period.end
  PROVE  ShiftFor(t) = ShiftFor(u)
<1>1. /\ Day \in Nat \ {0} /\ \A s \in Shifts : ShiftStart[s] \in 0..(Day - 1)
      /\ period.start \in Int /\ period.end \in Int
  BY TimeIsDiscrete, PeriodFacts
<1>2. PICK du \in Int, ru \in 0..(Day - 1), mu \in Int :
        du = u \div Day /\ ru = u % Day /\ mu = du * Day /\ u = mu + ru
  BY DayAndTime
<1>3. PICK dt \in Int, rt \in 0..(Day - 1), mt \in Int :
        dt = t \div Day /\ rt = t % Day /\ mt = dt * Day /\ t = mt + rt
  BY DayAndTime
<1>4. PICK first \in Int, last \in Int :
        first = period.start \div Day /\ last = period.end \div Day
  BY <1>1
<1>5. first <= du /\ du <= dt /\ dt <= last
  BY <1>1, <1>2, <1>3, <1>4, Quotients
<1>6. du \in (first - 1)..(last + 1) /\ dt \in (first - 1)..(last + 1)
  BY ONLY <1>5, first \in Int, last \in Int, du \in Int, dt \in Int
<1>7. \A s \in Shifts : mu + ShiftStart[s] \in ShiftBoundaries /\ mt + ShiftStart[s] \in ShiftBoundaries
  BY <1>2, <1>3, <1>4, <1>6 DEF ShiftBoundaries
<1>8. \A x \in ShiftBoundaries : x \in Int /\ (x <= u \/ t < x)
  BY <1>1, BoundariesAreInstants DEF IsNext
<1>9. \A s \in Shifts :
        /\ mu + ShiftStart[s] <= u \/ t < mu + ShiftStart[s]
        /\ mt + ShiftStart[s] <= u \/ t < mt + ShiftStart[s]
  BY <1>7, <1>8
<1>10. CASE du = dt
  <2>1. mu = mt
    BY <1>2, <1>3, <1>10
  <2>2. \A s \in Shifts : ShiftStart[s] <= ru <=> ShiftStart[s] <= rt
    BY <1>1, <1>2, <1>3, <1>9, <2>1
  <2>3. Candidates(t) = Candidates(u)
    BY <1>2, <1>3, <2>2 DEF Candidates
  <2>4. QED
    BY <2>3, ShiftForIsLast
<1>11. CASE du < dt
  <2>1. mu + Day <= mt
    <3>1. PICK k \in Nat : dt = du + 1 + k
      <4>1. dt - (du + 1) \in Nat /\ dt = du + 1 + (dt - (du + 1))
        BY <1>11
      <4>2. QED
        BY <4>1
    <3>2. dt * Day = du * Day + Day + k * Day
      BY <1>1, <3>1
    <3>3. k * Day >= 0 /\ k * Day \in Int
      BY <1>1
    <3>4. QED
      BY <1>1, <1>2, <1>3, <3>2, <3>3
  <2>2. \A s \in Shifts : ShiftStart[s] <= ru
    BY <1>1, <1>2, <1>3, <1>9, <2>1
  <2>3. \A s \in Shifts : ~(ShiftStart[s] <= rt)
    BY <1>1, <1>2, <1>3, <1>9, <2>1
  <2>4. Candidates(u) = Shifts /\ Candidates(t) = Shifts
    BY <1>2, <1>3, <2>2, <2>3 DEF Candidates
  <2>5. QED
    BY <2>4, ShiftForIsLast
<1>12. QED
  BY <1>5, <1>10, <1>11

(* What is recorded of a cycle fits in the window in which it runs.        *)
LEMMA CycleRunsInItsShift ==
  ASSUME IInv, WindowInv, pc = "cycles", NEW end \in Int, end <= WindowEnd,
         NEW t \in clock..(end - 1)
  PROVE  ShiftFor(t) = ShiftFor(WindowStart)
<1>1. TimeIsTyped
  BY DEF IInv
<1>2. /\ WindowStart \in Int /\ WindowEnd \in Int /\ clock \in Int
      /\ period.start <= WindowStart /\ window.boundary <= WindowStart
      /\ WindowEnd <= period.end /\ WindowEnd <= window.next
      /\ window.boundary \in Int /\ window.next \in Int /\ period.end \in Int
      /\ WindowStart <= clock
      /\ period \in Periods /\ IsNext(window.boundary, window.next)
  BY <1>1, WindowBounds DEF WindowInv, TimeIsTyped
<1>3. t \in Int /\ WindowStart <= t /\ t < window.next /\ t <= period.end
  BY <1>2
<1>4. QED
  BY <1>2, <1>3, OneShiftInAWindow

(* The scrap and stop rates used for a cycle are those of the shift it runs *)
(* in, from its first tick to its last (_simulate_machine, shift_for).      *)
THEOREM RatesAreTheShifts == Spec => []CyclesRunInTheirShift
<1>1. Init => CyclesRunInTheirShift
  BY DEF Init, CyclesRunInTheirShift
<1>2. IInv /\ WindowInv /\ CyclesRunInTheirShift /\ [Next]_vars => CyclesRunInTheirShift'
  <2>1. SUFFICES ASSUME IInv, WindowInv, CyclesRunInTheirShift, [Next]_vars,
                        NEW c \in cycles', NEW t \in c.start..(c.end - 1)
                 PROVE  ShiftFor(t) = c.shift
    BY DEF CyclesRunInTheirShift, ShiftFor
  <2>2. CASE c \in cycles
    BY <2>1, <2>2 DEF CyclesRunInTheirShift
  <2>3. CASE c \notin cycles
    <3>1. RunCycle
      BY <2>1, <2>3 DEF Next, NextMachine, SkipWindow, ChangeOver, ResumeShift, LeaveWindow,
                        CountProduction, vars
    <3>2. PICK d \in CycleTimes :
            /\ clock + CycleTime(d) <= WindowEnd
            /\ c.start = clock /\ c.end = clock + CycleTime(d)
            /\ c.shift = ShiftFor(WindowStart)
      BY <2>3, <3>1 DEF RunCycle
    <3>3. clock + CycleTime(d) \in Int
      BY <2>1, DrawsAreInstants DEF IInv, TimeIsTyped
    <3>4. pc = "cycles"
      BY <3>1 DEF RunCycle
    <3>5. QED
      BY <2>1, <3>2, <3>3, <3>4, CycleRunsInItsShift
  <2>4. QED
    BY <2>2, <2>3
<1>3. QED
  BY <1>1, <1>2, WindowInvHolds, PTL DEF Spec

-----------------------------------------------------------------------------
(* Changeovers. *)

Changeovers(m, b, n) ==
  {e \in events : /\ e.machine = m /\ e.reason = Changeover
                  /\ b <= e.start /\ e.start < MinOf(n, period.end)}

(* The shift between b and n has its changeover on m, or one stop of m     *)
(* lasts through it.                                                       *)
Opened(m, b, n) ==
  \/ \E x : Changeovers(m, b, n) = {x}
  \/ \E e \in events : e.machine = m /\ e.start <= b /\ MinOf(n, period.end) <= e.end

(* The simulation of m is through with the changeover of a shift.          *)
Behind(m, b) ==
  /\ m \notin todo
  /\ m = machine /\ pc = "window" => b < window.boundary
  /\ m = machine /\ pc = "cycles" => b <= window.boundary

(* The clock has been carried behind an instant only by a stop that began  *)
(* before it.                                                              *)
Reached(limit) ==
  \/ clock <= limit
  \/ clock <= period.start
  \/ \E e \in events : e.machine = machine /\ e.start <= limit /\ e.end = clock

ChangeoversBefore(limit) ==
  \A e \in events : e.machine = machine /\ e.reason = Changeover => e.start < limit

ShiftsInv ==
  /\ \A m \in Machines : \A b, n \in ShiftBoundaries :
       IsNext(b, n) /\ period.start <= b /\ b < period.end /\ Behind(m, b) => Opened(m, b, n)
  /\ pc = "window" => Reached(window.boundary) /\ ChangeoversBefore(window.boundary)
  /\ pc = "cycles" => Reached(window.next) /\ ChangeoversBefore(window.next)
  /\ pc \in {"buckets", "done"} => todo = {}

(* A boundary is in the window or before it, or the next window's start or *)
(* behind it.                                                              *)
LEMMA NoBoundaryInside ==
  ASSUME IInv, WindowInv, pc \in {"window", "cycles"}, NEW b \in ShiftBoundaries
  PROVE  /\ b \in Int /\ (b <= window.boundary \/ window.next <= b)
         /\ window.boundary < window.next
         /\ b < window.boundary => \A n : IsNext(b, n) => n <= window.boundary
<1>1. b \in Int /\ window.boundary \in Int /\ window.next \in Int
  BY BoundariesAreInstants DEF IInv, TimeIsTyped
<1>2. IsNext(window.boundary, window.next) /\ window.boundary \in ShiftBoundaries
  BY DEF WindowInv
<1>3. QED
  BY <1>1, <1>2 DEF IsNext

(* Of the boundaries behind an instant there is a first one.               *)
LEMMA ThereIsANext ==
  ASSUME period \in Periods, NEW b \in Int, NEW x \in ShiftBoundaries, b < x
  PROVE  \E n \in ShiftBoundaries : IsNext(b, n)
<1>1. ShiftBoundaries \subseteq Int
  BY PeriodFacts, BoundariesAreInstants
<1> DEFINE T == {k \in Nat : b + k + 1 \in ShiftBoundaries}
           R == OpToRel(<, Nat)
<1>2. T # {}
  <2>1. x - b - 1 \in Nat /\ b + (x - b - 1) + 1 = x
    BY <1>1
  <2>2. QED
    BY <2>1
<1>3. T \subseteq Nat
  OBVIOUS
<1>4. \A i, j \in Nat : i < j <=> <<i, j>> \in R
  BY DEF OpToRel
<1>5. IsWellFoundedOn(R, Nat)
  BY NatLessThanWellFounded DEF OpToRel
<1> HIDE DEF T, R
<1>6. PICK k \in T : \A j \in T : ~(<<j, k>> \in R)
  BY <1>2, <1>3, <1>5, WFMin
<1>7. k \in Nat /\ \A j \in T : j \in Nat /\ k <= j
  <2>1. k \in Nat
    BY <1>3, <1>6
  <2>2. ASSUME NEW j \in T
        PROVE  j \in Nat /\ k <= j
    <3>1. j \in Nat /\ ~(<<j, k>> \in R)
      BY <1>3, <1>6, <2>2
    <3>2. ~(j < k)
      BY <1>4, <2>1, <3>1
    <3>3. QED
      BY <2>1, <3>1, <3>2
  <2>3. QED
    BY <2>1, <2>2
<1>8. b + k + 1 \in ShiftBoundaries /\ b < b + k + 1
  BY <1>6, <1>7 DEF T
<1>9. ASSUME NEW y \in ShiftBoundaries, b < y
      PROVE  b + k + 1 <= y
  <2>1. PICK j \in Nat : y = b + j + 1
    <3>1. y - b - 1 \in Nat /\ y = b + (y - b - 1) + 1
      BY <1>1, <1>9
    <3>2. QED
      BY <3>1
  <2>2. j \in T
    BY <2>1 DEF T
  <2>3. QED
    BY <1>7, <2>1, <2>2
<1>10. QED
  BY <1>8, <1>9 DEF IsNext

(* Stops that are no changeover of a shift leave it opened.                *)
LEMMA StaysOpened ==
  ASSUME NEW m, NEW b, NEW n, Opened(m, b, n), period' = period,
         NEW stops, events' = events \union stops,
         \A e \in stops : e.machine = m /\ e.reason = Changeover =>
                             ~(b <= e.start /\ e.start < MinOf(n, period.end))
  PROVE  Opened(m, b, n)'
<1>1. MinOf(n, period'.end) = MinOf(n, period.end)
  OBVIOUS
<1>2. Changeovers(m, b, n)' = Changeovers(m, b, n)
  BY <1>1 DEF Changeovers
<1>3. QED
  BY <1>1, <1>2 DEF Opened

(* The next window, or after the last one the next machine.                *)
LEMMA ShiftsMoveOn ==
  ASSUME IInv, WindowInv, ShiftsInv, NextWindow, pc \in {"window", "cycles"},
         UNCHANGED <<period, clock, events>>,
         Reached(window.next), ChangeoversBefore(window.next),
         \A b, n \in ShiftBoundaries :
           IsNext(b, n) /\ period.start <= b /\ b < period.end /\ b <= window.boundary
           => Opened(machine, b, n)
  PROVE  ShiftsInv'
<1>1. UNCHANGED <<todo, machine>> /\ pc' \in {"window", "machine"}
  BY DEF NextWindow
<1>2. \A m, b, n : Opened(m, b, n)' <=> Opened(m, b, n)
  BY DEF Opened, Changeovers
<1>3. \A b, n \in ShiftBoundaries : IsNext(b, n) /\ Behind(machine, b)' => b <= window.boundary
  <2>1. SUFFICES ASSUME NEW b \in ShiftBoundaries, NEW n \in ShiftBoundaries,
                        IsNext(b, n), Behind(machine, b)'
                 PROVE  b <= window.boundary
    OBVIOUS
  <2>2. /\ b \in Int /\ window.next \in Int
        /\ b <= window.boundary \/ window.next <= b
    BY <2>1, NoBoundaryInside, BoundariesAreInstants DEF IInv, TimeIsTyped
  <2>3. CASE pc' = "window"
    <3>1. window'.boundary = window.next
      BY <2>3 DEF NextWindow
    <3>2. b < window.next
      BY <1>1, <2>1, <2>3, <3>1 DEF Behind
    <3>3. QED
      BY <2>2, <3>2
  <2>4. CASE pc' = "machine"
    <3>1. \A k \in ShiftBoundaries : ~IsNext(window.next, k)
      BY <2>4 DEF NextWindow
    <3>2. b # window.next
      BY <2>1, <3>1
    <3>3. ~(window.next < b)
      BY <2>2, <3>1, ThereIsANext DEF WindowInv
    <3>4. QED
      BY <2>2, <3>2, <3>3
  <2>5. QED
    BY <1>1, <2>3, <2>4
<1>4. ASSUME NEW m \in Machines, NEW b \in ShiftBoundaries, NEW n \in ShiftBoundaries,
             IsNext(b, n), period.start <= b, b < period.end, Behind(m, b)'
      PROVE  Opened(m, b, n)
  <2>1. CASE m = machine
    <3>1. Behind(machine, b)'
      BY <1>1, <1>4, <2>1 DEF Behind
    <3>2. QED
      BY <1>3, <1>4, <2>1, <3>1
  <2>2. CASE m # machine
    <3>1. Behind(m, b)
      BY <1>1, <1>4, <2>2 DEF Behind
    <3>2. QED
      BY <1>4, <3>1 DEF ShiftsInv
  <2>3. QED
    BY <2>1, <2>2
<1>5. pc' = "window" =>
        Reached(window.boundary)' /\ ChangeoversBefore(window.boundary)'
  <2>1. SUFFICES ASSUME pc' = "window"
                 PROVE  Reached(window.boundary)' /\ ChangeoversBefore(window.boundary)'
    OBVIOUS
  <2>2. window'.boundary = window.next
    BY <2>1 DEF NextWindow
  <2>3. QED
    BY <1>1, <2>2 DEF Reached, ChangeoversBefore
<1>6. QED
  BY <1>1, <1>2, <1>4, <1>5, SamePeriod DEF ShiftsInv

LEMMA SkippingKeepsShifts ==
  ASSUME IInv, WindowInv, ShiftsInv, SkipWindow PROVE ShiftsInv'
<1>1. /\ pc = "window" /\ NextWindow /\ UNCHANGED <<period, clock, events>>
      /\ WindowStart >= WindowEnd \/ clock >= WindowEnd
  BY DEF SkipWindow
<1>2. /\ window.boundary \in ShiftBoundaries /\ IsNext(window.boundary, window.next)
      /\ clock \in Int /\ period.start \in Int /\ period.end \in Int
      /\ window.boundary \in Int /\ window.next \in Int /\ window.boundary < window.next
  BY <1>1, NoBoundaryInside DEF WindowInv, IInv, TimeIsTyped
<1>3. Reached(window.boundary) /\ ChangeoversBefore(window.boundary)
  BY <1>1 DEF ShiftsInv
<1>4. \A e \in events : e.start \in Int
  BY DEF IInv, EventsLast
<1>5. Reached(window.next) /\ ChangeoversBefore(window.next)
  BY <1>2, <1>3, <1>4 DEF Reached, ChangeoversBefore
<1>6. ASSUME NEW b \in ShiftBoundaries, NEW n \in ShiftBoundaries, IsNext(b, n),
             period.start <= b, b < period.end, b <= window.boundary
      PROVE  Opened(machine, b, n)
  <2>1. b \in Int /\ n \in Int
    BY <1>2, BoundariesAreInstants
  <2>2. CASE b < window.boundary
    <3>1. Behind(machine, b)
      BY <1>1, <2>2 DEF Behind, IInv, TodoIsUntouched
    <3>2. machine \in Machines
      BY <1>1 DEF WindowInv
    <3>3. QED
      BY <1>6, <3>1, <3>2 DEF ShiftsInv
  <2>3. CASE b = window.boundary
    <3>1. n = window.next
      BY <1>2, <1>6, <2>1, <2>3 DEF IsNext
    <3>2. WindowStart = b /\ WindowEnd = MinOf(n, period.end) /\ b < MinOf(n, period.end)
      BY <1>2, <1>6, <2>1, <2>3, <3>1 DEF WindowStart, WindowEnd, MaxOf, MinOf
    <3>3. MinOf(n, period.end) \in Int
      BY <1>2, <2>1 DEF MinOf
    <3>4. MinOf(n, period.end) <= clock
      BY <1>1, <1>2, <2>1, <3>2, <3>3
    <3>5. PICK e \in events : e.machine = machine /\ e.start <= b /\ e.end = clock
      BY <1>2, <1>3, <1>6, <2>1, <2>3, <3>2, <3>3, <3>4 DEF Reached
    <3>6. QED
      BY <3>4, <3>5 DEF Opened
  <2>4. QED
    BY <1>2, <1>6, <2>1, <2>2, <2>3
<1>7. QED
  BY <1>1, <1>5, <1>6, ShiftsMoveOn

LEMMA LeavingKeepsShifts ==
  ASSUME IInv, WindowInv, ShiftsInv, LeaveWindow PROVE ShiftsInv'
<1>1. /\ pc = "cycles" /\ NextWindow /\ UNCHANGED <<period, clock, events>>
  BY DEF LeaveWindow
<1>2. Reached(window.next) /\ ChangeoversBefore(window.next)
  BY <1>1 DEF ShiftsInv
<1>3. ASSUME NEW b \in ShiftBoundaries, NEW n \in ShiftBoundaries, IsNext(b, n),
             period.start <= b, b < period.end, b <= window.boundary
      PROVE  Opened(machine, b, n)
  <2>1. Behind(machine, b)
    BY <1>1, <1>3 DEF Behind, IInv, TodoIsUntouched
  <2>2. machine \in Machines
    BY <1>1 DEF WindowInv
  <2>3. QED
    BY <1>3, <2>1, <2>2 DEF ShiftsInv
<1>4. QED
  BY <1>1, <1>2, <1>3, ShiftsMoveOn

LEMMA ChangeOverKeepsShifts ==
  ASSUME IInv, WindowInv, ShiftsInv, ChangeOver PROVE ShiftsInv'
<1>1. /\ pc = "window" /\ pc' = "cycles" /\ UNCHANGED <<period, todo, machine, window>>
      /\ WindowStart < WindowEnd /\ clock < WindowEnd /\ period.start <= window.boundary
  BY DEF ChangeOver, IInv, TimeIsTyped
<1>2. /\ window.boundary \in ShiftBoundaries /\ IsNext(window.boundary, window.next)
      /\ clock \in Int /\ period.start \in Int /\ period.end \in Int
      /\ window.boundary \in Int /\ window.next \in Int /\ window.boundary < window.next
  BY <1>1, NoBoundaryInside DEF WindowInv, IInv, TimeIsTyped
<1>3. PICK from \in Int, d \in ChangeoverTimes :
        /\ from = MaxOf(window.boundary, clock)
        /\ Emit(from, from + d, Changeover, TRUE)
  <2>1. MaxOf(window.boundary, clock) \in Int
    BY <1>2 DEF MaxOf
  <2>2. QED
    BY <2>1 DEF ChangeOver
<1>4. d \in Int /\ 0 < d
  BY DrawsAreInstants
<1>5. /\ window.boundary <= from /\ clock <= from /\ from < MinOf(window.next, period.end)
      /\ from <= window.next /\ from <= period.end
  BY <1>1, <1>2, <1>3 DEF MaxOf, MinOf, WindowStart, WindowEnd
<1>6. PICK stop : stop = StopOf(from, from + d, Changeover, TRUE)
  OBVIOUS
<1>7. /\ events' = events \union {stop} /\ clock' = from + d
      /\ stop.machine = machine /\ stop.reason = Changeover
      /\ stop.start = from /\ stop.end = clock'
  BY <1>3, <1>6 DEF Emit, StopOf
<1>8. \A e \in events : e.start \in Int
  BY DEF IInv, EventsLast
<1>9. ChangeoversBefore(window.boundary)
  BY <1>1 DEF ShiftsInv
<1>10. Reached(window.next)' /\ ChangeoversBefore(window.next)'
  BY <1>1, <1>2, <1>5, <1>7, <1>8, <1>9 DEF Reached, ChangeoversBefore, MinOf
<1>11. ASSUME NEW m \in Machines, NEW b \in ShiftBoundaries, NEW n \in ShiftBoundaries,
              IsNext(b, n), period.start <= b, b < period.end, Behind(m, b)'
       PROVE  Opened(m, b, n)'
  <2>1. b \in Int /\ n \in Int
    BY <1>2, BoundariesAreInstants
  <2>2. CASE m = machine /\ b = window.boundary
    <3>1. n = window.next
      BY <1>2, <1>11, <2>1, <2>2 DEF IsNext
    <3>2. \A e \in events : e.machine = m /\ e.reason = Changeover => ~(b <= e.start)
      BY <1>2, <1>8, <1>9, <2>2 DEF ChangeoversBefore
    <3>3. Changeovers(m, b, n)' = {stop}
      BY <1>1, <1>5, <1>7, <2>2, <3>1, <3>2 DEF Changeovers
    <3>4. QED
      BY <3>3 DEF Opened
  <2>3. CASE ~(m = machine /\ b = window.boundary)
    <3>1. Behind(m, b)
      BY <1>1, <1>2, <1>11, <2>1, <2>3 DEF Behind
    <3>2. Opened(m, b, n)
      BY <1>11, <3>1 DEF ShiftsInv
    <3>3. ASSUME m = machine
          PROVE  ~(stop.start < MinOf(n, period.end))
      <4>1. b < window.boundary
        BY <1>1, <3>1, <3>3 DEF Behind
      <4>2. n <= window.boundary
        BY <1>1, <1>11, <4>1, NoBoundaryInside
      <4>3. QED
        BY <1>2, <1>5, <1>7, <2>1, <4>2 DEF MinOf
    <3>4. \A e \in {stop} : e.machine = m /\ e.reason = Changeover =>
                               ~(b <= e.start /\ e.start < MinOf(n, period.end))
      BY <1>7, <3>3
    <3>5. PICK stops : stops = {stop}
      OBVIOUS
    <3>6. QED
      BY <1>1, <1>7, <3>2, <3>4, <3>5, StaysOpened
  <2>4. QED
    BY <2>2, <2>3
<1>12. QED
  BY <1>1, <1>10, <1>11, SamePeriod DEF ShiftsInv

LEMMA ResumingKeepsShifts ==
  ASSUME IInv, WindowInv, ShiftsInv, ResumeShift PROVE ShiftsInv'
<1>1. /\ pc = "window" /\ pc' = "cycles" /\ window.boundary < period.start
      /\ UNCHANGED <<period, todo, machine, window, clock, events>>
  BY DEF ResumeShift, machineVars
<1>2. /\ clock \in Int /\ period.start \in Int
      /\ window.boundary \in Int /\ window.next \in Int /\ window.boundary < window.next
  BY <1>1, NoBoundaryInside DEF WindowInv, IInv, TimeIsTyped
<1>3. \A e \in events : e.start \in Int
  BY DEF IInv, EventsLast
<1>4. Reached(window.next)' /\ ChangeoversBefore(window.next)'
  BY <1>1, <1>2, <1>3 DEF Reached, ChangeoversBefore, ShiftsInv
<1>5. ASSUME NEW m \in Machines, NEW b \in ShiftBoundaries, NEW n \in ShiftBoundaries,
             IsNext(b, n), period.start <= b, b < period.end, Behind(m, b)'
      PROVE  Opened(m, b, n)'
  <2>1. b \in Int
    BY BoundariesAreInstants DEF IInv, TimeIsTyped
  <2>2. Behind(m, b)
    BY <1>1, <1>2, <1>5, <2>1 DEF Behind
  <2>3. Opened(m, b, n)
    BY <1>5, <2>2 DEF ShiftsInv
  <2>4. QED
    BY <1>1, <2>3 DEF Opened, Changeovers
<1>6. QED
  BY <1>1, <1>4, <1>5, SamePeriod DEF ShiftsInv

LEMMA CyclingKeepsShifts ==
  ASSUME IInv, WindowInv, ShiftsInv, RunCycle PROVE ShiftsInv'
<1>1. pc = "cycles" /\ pc' = pc /\ UNCHANGED <<period, todo, machine, window>>
  BY DEF RunCycle
<1>2. /\ clock \in Int /\ period.start \in Int /\ window.next \in Int
      /\ WindowEnd \in Int /\ WindowEnd <= window.next
  BY WindowBounds DEF IInv, TimeIsTyped
<1>3. PICK c \in CycleTimes :
        /\ clock + CycleTime(c) <= WindowEnd
        /\ \/ \E d \in FailureTimes \union MicroStopTimes, reason \in {Failure, MicroStop} :
                Emit(clock + CycleTime(c), clock + CycleTime(c) + d, reason, FALSE)
           \/ clock' = clock + CycleTime(c) /\ UNCHANGED events
  BY DEF RunCycle
<1>4. PICK ends \in Int : ends = clock + CycleTime(c)
  BY <1>2, DrawsAreInstants
<1>5. ends <= window.next
  BY <1>2, <1>3, <1>4
<1>6. Reached(window.next) /\ ChangeoversBefore(window.next)
  BY <1>1 DEF ShiftsInv
<1>7. PICK stops : /\ events' = events \union stops
                   /\ \A e \in stops : e.reason # Changeover
                   /\ Reached(window.next)'
  <2>1. ASSUME NEW d \in FailureTimes \union MicroStopTimes, NEW reason \in {Failure, MicroStop},
               Emit(ends, ends + d, reason, FALSE)
        PROVE  \E stops : /\ events' = events \union stops
                          /\ \A e \in stops : e.reason # Changeover
                          /\ Reached(window.next)'
    <3>1. PICK stop : stop = StopOf(ends, ends + d, reason, FALSE)
      OBVIOUS
    <3>2. /\ events' = events \union {stop} /\ stop.machine = machine /\ stop.start = ends
          /\ stop.end = clock' /\ stop.reason = reason
      BY <2>1, <3>1 DEF Emit, StopOf
    <3>3. reason # Changeover
      BY DEF Failure, MicroStop, Changeover
    <3>4. Reached(window.next)'
      BY <1>1, <1>5, <3>2 DEF Reached
    <3>5. PICK stops : stops = {stop}
      OBVIOUS
    <3>6. events' = events \union stops /\ \A e \in stops : e.reason # Changeover
      BY <3>2, <3>3, <3>5
    <3>7. QED
      BY <3>4, <3>6
  <2>2. ASSUME clock' = ends, UNCHANGED events
        PROVE  \E stops : /\ events' = events \union stops
                          /\ \A e \in stops : e.reason # Changeover
                          /\ Reached(window.next)'
    <3>1. PICK stops : stops = {}
      OBVIOUS
    <3>2. events' = events \union stops /\ \A e \in stops : e.reason # Changeover
      BY <2>2, <3>1
    <3>3. Reached(window.next)'
      BY <1>1, <1>5, <2>2 DEF Reached
    <3>4. QED
      BY <3>2, <3>3
  <2>3. QED
    BY <1>3, <1>4, <2>1, <2>2
<1>8. ChangeoversBefore(window.next)'
  BY <1>1, <1>6, <1>7 DEF ChangeoversBefore
<1>9. ASSUME NEW m \in Machines, NEW b \in ShiftBoundaries, NEW n \in ShiftBoundaries,
             IsNext(b, n), period.start <= b, b < period.end, Behind(m, b)'
      PROVE  Opened(m, b, n)'
  <2>1. Behind(m, b)
    BY <1>1, <1>9 DEF Behind
  <2>2. Opened(m, b, n)
    BY <1>9, <2>1 DEF ShiftsInv
  <2>3. QED
    BY <1>1, <1>7, <2>2, StaysOpened
<1>10. QED
  BY <1>1, <1>7, <1>8, <1>9, SamePeriod DEF ShiftsInv

LEMMA NextMachineKeepsShifts ==
  ASSUME IInv, WindowInv, ShiftsInv, NextMachine PROVE ShiftsInv'
<1>1. pc = "machine" /\ UNCHANGED <<period, events>>
  BY DEF NextMachine
<1>2. \A m, b, n : Opened(m, b, n)' <=> Opened(m, b, n)
  BY <1>1 DEF Opened, Changeovers
<1>3. CASE todo = {} /\ pc' = "buckets" /\ UNCHANGED <<machineVars, window>>
  <2>1. \A m, b : Behind(m, b)' => Behind(m, b)
    BY <1>1, <1>3 DEF Behind, machineVars
  <2>2. QED
    BY <1>1, <1>2, <1>3, <2>1, SamePeriod DEF ShiftsInv, machineVars
<1>4. ASSUME NEW next \in todo, StartsMachine(next, todo \ {next})
      PROVE  ShiftsInv'
  <2>1. PICK first \in ShiftBoundaries, second \in ShiftBoundaries :
          IsFirst(first) /\ window' = [boundary |-> first, next |-> second]
    BY <1>4 DEF StartsMachine
  <2>2. /\ window'.boundary = first /\ machine' = next /\ todo' = todo \ {next}
        /\ clock' = period.start /\ pc' = "window"
    BY <1>4, <2>1 DEF StartsMachine
  <2>3. \A b \in ShiftBoundaries : b \in Int /\ first <= b
    BY <2>1, BoundariesAreInstants DEF IsFirst, IInv, TimeIsTyped
  <2>4. \A m : \A b \in ShiftBoundaries : Behind(m, b)' => Behind(m, b)
    BY <1>1, <2>2, <2>3 DEF Behind
  <2>5. Reached(window.boundary)'
    BY <1>1, <2>2 DEF Reached, IInv, TimeIsTyped
  <2>6. ChangeoversBefore(window.boundary)'
    BY <1>1, <2>2 DEF ChangeoversBefore, IInv, TodoIsUntouched
  <2>7. QED
    BY <1>1, <1>2, <2>2, <2>4, <2>5, <2>6, SamePeriod DEF ShiftsInv
<1>5. QED
  BY <1>3, <1>4 DEF NextMachine

LEMMA ShiftsInvStep ==
  ASSUME IInv, WindowInv, ShiftsInv, [Next]_vars PROVE ShiftsInv'
<1>1. CASE CountProduction
  <2>1. /\ pc = "buckets" /\ pc' = "done"
        /\ UNCHANGED <<period, todo, machine, window, clock, events>>
    BY <1>1 DEF CountProduction, machineVars
  <2>2. \A m, b, n : /\ Opened(m, b, n)' <=> Opened(m, b, n)
                     /\ Behind(m, b)' => Behind(m, b)
    BY <2>1 DEF Opened, Changeovers, Behind
  <2>3. QED
    BY <2>1, <2>2, SamePeriod DEF ShiftsInv
<1>2. CASE UNCHANGED vars
  <2>1. UNCHANGED <<period, pc, todo, machine, window, clock, events>>
    BY <1>2 DEF vars, machineVars
  <2>2. \A m, b, n : /\ Opened(m, b, n)' <=> Opened(m, b, n)
                     /\ Behind(m, b)' => Behind(m, b)
    BY <2>1 DEF Opened, Changeovers, Behind
  <2>3. /\ Reached(window.boundary)' <=> Reached(window.boundary)
        /\ Reached(window.next)' <=> Reached(window.next)
        /\ ChangeoversBefore(window.boundary)' <=> ChangeoversBefore(window.boundary)
        /\ ChangeoversBefore(window.next)' <=> ChangeoversBefore(window.next)
    BY <2>1 DEF Reached, ChangeoversBefore
  <2>4. QED
    BY <2>1, <2>2, <2>3, SamePeriod DEF ShiftsInv
<1>3. QED
  BY <1>1, <1>2, SkippingKeepsShifts, LeavingKeepsShifts, ChangeOverKeepsShifts,
     ResumingKeepsShifts, CyclingKeepsShifts, NextMachineKeepsShifts DEF Next

(* Every shift that begins within the run has exactly one changeover on     *)
(* each machine, begun during the shift, unless one stop of the machine     *)
(* lasts through all of it (_simulate_machine).                             *)
THEOREM EveryShiftIsOpened == Spec => []ShiftsBeginWithAChangeover
<1>1. Init => ShiftsInv
  <2>1. Init => \A m \in Machines : \A b : ~Behind(m, b)
    BY DEF Init, Behind
  <2>2. QED
    BY <2>1 DEF Init, ShiftsInv
<1>2. IInv /\ ShiftsInv => ShiftsBeginWithAChangeover
  <2>1. SUFFICES ASSUME IInv, ShiftsInv, pc = "done", NEW m \in Machines,
                        NEW b \in ShiftBoundaries, NEW n \in ShiftBoundaries,
                        IsNext(b, n), period.start <= b, b < MinOf(n, period.end)
                 PROVE  \/ Cardinality(Changeovers(m, b, n)) = 1
                        \/ \E e \in events :
                             e.machine = m /\ e.start <= b /\ MinOf(n, period.end) <= e.end
    BY DEF ShiftsBeginWithAChangeover, Changeovers
  <2>2. Behind(m, b)
    BY <2>1 DEF ShiftsInv, Behind
  <2>3. b < period.end
    BY <2>1, BoundariesAreInstants DEF MinOf, IInv, TimeIsTyped
  <2>4. Opened(m, b, n)
    BY <2>1, <2>2, <2>3 DEF ShiftsInv
  <2>5. QED
    BY <2>4, FS_Singleton DEF Opened
<1>3. QED
  BY <1>1, <1>2, ShiftsInvStep, WindowInvHolds, PTL DEF Spec

-----------------------------------------------------------------------------
(* Types. *)

TypeInv == TypeOK /\ IsFiniteSet(cycles)

(* Of the shifts that have started there is a last one, since a day has    *)
(* finitely many instants.                                                 *)
LEMMA ShiftForIsAShift ==
  ASSUME Shifts # {}, NEW t PROVE ShiftFor(t) \in Shifts
<1> DEFINE C == Candidates(t)
           T == {Day - ShiftStart[s] : s \in C}
           R == OpToRel(<, Nat)
<1>1. C \subseteq Shifts /\ C # {}
  BY DEF Candidates
<1>2. \A s \in C : ShiftStart[s] \in Nat /\ Day - ShiftStart[s] \in Nat
  BY <1>1, TimeIsDiscrete
<1>3. T \subseteq Nat /\ T # {}
  BY <1>1, <1>2
<1>4. \A i, j \in Nat : i < j <=> <<i, j>> \in R
  BY DEF OpToRel
<1>5. IsWellFoundedOn(R, Nat)
  BY NatLessThanWellFounded DEF OpToRel
<1>6. ASSUME NEW s \in C
      PROVE  Day - ShiftStart[s] \in T
  OBVIOUS
<1>7. ASSUME NEW k \in T
      PROVE  \E s \in C : k = Day - ShiftStart[s]
  OBVIOUS
<1> HIDE DEF T, R
<1>8. PICK k \in T : \A j \in T : ~(<<j, k>> \in R)
  BY <1>3, <1>5, WFMin
<1>9. PICK s \in C : k = Day - ShiftStart[s]
  BY <1>7, <1>8
<1>10. ASSUME NEW r \in C
       PROVE  ShiftStart[r] <= ShiftStart[s]
  <2>1. PICK j \in Nat : j = Day - ShiftStart[r]
    BY <1>2
  <2>2. j \in T /\ k \in Nat
    BY <1>3, <1>6, <1>8, <2>1
  <2>3. ~(<<j, k>> \in R)
    BY <1>8, <2>2
  <2>4. ~(j < k)
    BY <1>4, <2>2, <2>3
  <2>5. ShiftStart[r] \in Nat /\ ShiftStart[s] \in Nat /\ Day \in Nat
    BY <1>2, <1>9, TimeIsDiscrete
  <2>6. QED
    BY <1>9, <2>1, <2>2, <2>4, <2>5
<1>11. LastOf(C) \in C
  BY <1>9, <1>10 DEF LastOf
<1>12. QED
  BY <1>1, <1>11, ShiftForIsLast

LEMMA NextWindowIsTyped ==
  ASSUME IInv, TypeInv, NextWindow, pc \in {"window", "cycles"},
         UNCHANGED <<period, clock, event_index, warmup_remaining, events, cycles, records>>
  PROVE  TypeInv'
<1>1. /\ UNCHANGED <<todo, machine>> /\ pc' \in {"window", "machine"}
      /\ \/ window' = window
         \/ \E n \in ShiftBoundaries : window' = [boundary |-> window.next, next |-> n]
  BY DEF NextWindow
<1>2. window' \in [boundary : Int, next : Int]
  BY <1>1, BoundariesAreInstants DEF IInv, TimeIsTyped, TypeInv, TypeOK
<1>3. QED
  BY <1>1, <1>2 DEF TypeInv, TypeOK

LEMMA StopIsTyped ==
  ASSUME TypeOK, machine \in Machines, NEW from \in Int, NEW to \in Int,
         NEW reason \in {Changeover, MicroStop, Failure}, NEW planned \in BOOLEAN,
         Emit(from, to, reason, planned)
  PROVE  events' \subseteq Event /\ event_index' \in Nat /\ clock' \in Int
<1>1. StopOf(from, to, reason, planned) \in Event
  BY DEF StopOf, Event, TypeOK
<1>2. events' = events \union {StopOf(from, to, reason, planned)}
  BY DEF Emit, StopOf
<1>3. QED
  BY <1>1, <1>2 DEF Emit, TypeOK

LEMMA RunCycleIsTyped ==
  ASSUME IInv, WindowInv, TypeInv, RunCycle PROVE TypeInv'
<1>1. /\ pc = "cycles" /\ machine \in Machines /\ clock \in Int /\ TypeOK /\ IsFiniteSet(cycles)
      /\ UNCHANGED <<period, pc, todo, machine, window, records>>
  BY DEF RunCycle, WindowInv, TypeInv, IInv, TimeIsTyped
<1>2. ShiftFor(WindowStart) \in Shifts
  <2>1. Shifts # {}
    BY <1>1 DEF WindowInv, ShiftBoundaries
  <2>2. QED
    BY <2>1, ShiftForIsAShift
<1>3. PICK c \in CycleTimes, good \in BOOLEAN :
        LET ends == clock + CycleTime(c) IN
         /\ IF machine = Bottleneck(LineOf[machine])
              THEN cycles' = cycles \union
                     {[machine |-> machine, start |-> clock, end |-> ends, good |-> good,
                       shift |-> ShiftFor(WindowStart)]}
              ELSE good /\ UNCHANGED cycles
         /\ \/ \E d \in FailureTimes :
                 /\ Emit(ends, ends + d, Failure, FALSE)
                 /\ warmup_remaining' = WarmupCycles
            \/ \E d \in MicroStopTimes :
                 /\ Emit(ends, ends + d, MicroStop, FALSE)
                 /\ warmup_remaining' = AfterCycle
            \/ /\ clock' = ends
               /\ warmup_remaining' = AfterCycle
               /\ UNCHANGED <<events, event_index>>
  BY DEF RunCycle
<1>4. PICK ends \in Int : ends = clock + CycleTime(c)
  BY <1>1, DrawsAreInstants
<1>5. cycles' \subseteq Cycle /\ IsFiniteSet(cycles')
  <2>1. PICK cycle : cycle = [machine |-> machine, start |-> clock, end |-> ends,
                              good |-> good, shift |-> ShiftFor(WindowStart)]
    OBVIOUS
  <2>2. cycle \in Cycle
    BY <1>1, <1>2, <2>1 DEF Cycle
  <2>3. cycles' = cycles \/ cycles' = cycles \union {cycle}
    BY <1>3, <1>4, <2>1
  <2>4. IsFiniteSet(cycles \union {cycle})
    BY <1>1, FS_AddElement
  <2>5. QED
    BY <1>1, <2>2, <2>3, <2>4 DEF TypeOK
<1>6. warmup_remaining' \in Nat
  <2>1. warmup_remaining \in Nat /\ WarmupCycles \in Nat
    BY <1>1, DrawsArePositive DEF DrawsFit, TypeOK
  <2>2. AfterCycle \in Nat
    BY <2>1 DEF AfterCycle
  <2>3. warmup_remaining' = WarmupCycles \/ warmup_remaining' = AfterCycle
    BY <1>3
  <2>4. QED
    BY <2>1, <2>2, <2>3
<1>7. events' \subseteq Event /\ event_index' \in Nat /\ clock' \in Int
  <2>1. \A d \in FailureTimes \union MicroStopTimes : ends + d \in Int
    BY DrawsAreInstants
  <2>2. CASE \E d \in FailureTimes \union MicroStopTimes :
               \/ Emit(ends, ends + d, Failure, FALSE)
               \/ Emit(ends, ends + d, MicroStop, FALSE)
    BY <1>1, <2>1, <2>2, StopIsTyped
  <2>3. CASE clock' = ends /\ UNCHANGED <<events, event_index>>
    BY <1>1, <2>3 DEF TypeOK
  <2>4. QED
    BY <1>3, <1>4, <2>2, <2>3
<1>8. QED
  BY <1>1, <1>5, <1>6, <1>7 DEF TypeInv, TypeOK

LEMMA RecordsAreTyped ==
  ASSUME TypeInv, NEW line \in Lines, NEW r \in BucketLine(line)
  PROVE  r.line \in Lines /\ {r.start, r.end, r.total, r.good} \subseteq Int
<1>1. period.start \in Int /\ period.end \in Int /\ Bucket \in Nat \ {0}
  BY PeriodFacts, TimeIsDiscrete DEF TypeInv, TypeOK
<1>2. Buckets \in Int
  BY <1>1 DEF Buckets
<1> DEFINE made(i) == {c \in LineCycles(line) : (c.end - period.start) \div Bucket = i}
<1>3. PICK i \in 0..(Buckets - 1) :
        r = [line |-> line, start |-> period.start + i * Bucket,
             end |-> period.start + (i + 1) * Bucket,
             total |-> Cardinality(made(i)), good |-> Cardinality({c \in made(i) : c.good})]
  BY DEF BucketLine
<1>4. i \in Int
  BY <1>2
<1>5. period.start + i * Bucket \in Int /\ period.start + (i + 1) * Bucket \in Int
  BY <1>1, <1>4
<1>6. made(i) \in SUBSET cycles /\ {c \in made(i) : c.good} \in SUBSET cycles
  BY DEF LineCycles
<1> HIDE DEF made
<1>7. Cardinality(made(i)) \in Int /\ Cardinality({c \in made(i) : c.good}) \in Int
  BY <1>6, FS_Subset, FS_CardinalityType DEF TypeInv
<1>8. PICK total \in Int, good \in Int, from \in Int, to \in Int :
        r = [line |-> line, start |-> from, end |-> to, total |-> total, good |-> good]
  BY <1>3, <1>5, <1>7
<1>9. QED
  BY <1>8

LEMMA TypeInvHolds == Spec => []TypeInv
<1>1. Init => TypeInv
  <2>1. SUFFICES ASSUME Init PROVE TypeInv
    OBVIOUS
  <2>2. IsFiniteSet(cycles)
    BY <2>1, FS_EmptySet DEF Init
  <2>3. QED
    BY <2>1, <2>2 DEF Init, TypeInv, TypeOK
<1>2. IInv /\ WindowInv /\ TypeInv /\ [Next]_vars => TypeInv'
  <2> SUFFICES ASSUME IInv, WindowInv, TypeInv, [Next]_vars PROVE TypeInv'
    OBVIOUS
  <2> USE DEF machineVars
  <2>1. CASE NextMachine
    <3>1. CASE pc' = "buckets" /\ UNCHANGED <<machineVars, window>>
      BY <2>1, <3>1 DEF NextMachine, TypeInv, TypeOK
    <3>2. ASSUME NEW m \in todo, StartsMachine(m, todo \ {m})
          PROVE  TypeInv'
      <4>1. PICK b \in ShiftBoundaries, n \in ShiftBoundaries :
              window' = [boundary |-> b, next |-> n]
        BY <3>2 DEF StartsMachine
      <4>2. window' \in [boundary : Int, next : Int] /\ period.start \in Int
        BY <4>1, BoundariesAreInstants DEF IInv, TimeIsTyped
      <4>3. /\ machine' = m /\ todo' = todo \ {m} /\ clock' = period.start /\ pc' = "window"
            /\ event_index' = 0 /\ warmup_remaining' = 0
            /\ UNCHANGED <<period, events, cycles, records>>
        BY <2>1, <3>2 DEF StartsMachine, NextMachine
      <4>4. machine' \in Machines /\ todo' \subseteq Machines
        BY <3>2, <4>3 DEF TypeInv, TypeOK
      <4>5. QED
        BY <4>2, <4>3, <4>4 DEF TypeInv, TypeOK
    <3>3. QED
      BY <2>1, <3>1, <3>2 DEF NextMachine
  <2>2. CASE SkipWindow
    BY <2>2, NextWindowIsTyped DEF SkipWindow
  <2>3. CASE ChangeOver
    <3>1. /\ pc = "window" /\ pc' = "cycles" /\ machine \in Machines
          /\ UNCHANGED <<period, todo, machine, window, warmup_remaining, cycles, records>>
      BY <2>3 DEF ChangeOver, WindowInv
    <3>2. PICK d \in ChangeoverTimes, from \in Int : Emit(from, from + d, Changeover, TRUE)
      <4>1. MaxOf(window.boundary, clock) \in Int
        BY DEF MaxOf, IInv, TimeIsTyped
      <4>2. QED
        BY <2>3, <4>1 DEF ChangeOver
    <3>3. from + d \in Int
      BY DrawsAreInstants
    <3>4. events' \subseteq Event /\ event_index' \in Nat /\ clock' \in Int
      BY <3>1, <3>2, <3>3, StopIsTyped DEF TypeInv
    <3>5. QED
      BY <3>1, <3>4 DEF TypeInv, TypeOK
  <2>4. CASE ResumeShift
    BY <2>4 DEF ResumeShift, WindowInv, TypeInv, TypeOK
  <2>5. CASE LeaveWindow
    BY <2>5, NextWindowIsTyped DEF LeaveWindow
  <2>6. CASE RunCycle
    BY <2>6, RunCycleIsTyped
  <2>7. CASE CountProduction
    <3>1. \A r \in records' :
            r.line \in Lines /\ {r.start, r.end, r.total, r.good} \subseteq Int
      BY <2>7, RecordsAreTyped DEF CountProduction
    <3>2. QED
      BY <2>7, <3>1 DEF CountProduction, TypeInv, TypeOK
  <2>8. CASE UNCHANGED vars
    BY <2>8 DEF vars, TypeInv, TypeOK
  <2>9. QED
    BY <2>1, <2>2, <2>3, <2>4, <2>5, <2>6, <2>7, <2>8 DEF Next
<1>3. QED
  BY <1>1, <1>2, WindowInvHolds, PTL DEF Spec

(* Every variable has its type, among them what is counted into the        *)
(* production records.                                                     *)
THEOREM TypeCorrect == Spec => []TypeOK
<1>1. TypeInv => TypeOK
  BY DEF TypeInv
<1>2. QED
  BY <1>1, TypeInvHolds, PTL

-----------------------------------------------------------------------------
(* The checks of the QA. *)

(* Each stop has the reason and the length of its class. *)
StopsInv ==
  \A e \in events :
    \/ e.reason = Changeover /\ e.is_planned = TRUE
    \/ e.reason = MicroStop /\ e.is_planned = FALSE /\ e.end - e.start < StopBoundary
    \/ e.reason = Failure /\ e.is_planned = FALSE /\ StopBoundary <= e.end - e.start

AllBuckets == UNION {BucketLine(line) : line \in Lines}

(* The records are those of the events and cycles there are. *)
RecordsInv == pc = "done" => records = AllBuckets

LEMMA StopIsClassed ==
  ASSUME StopsInv, NEW from \in Int, NEW reason, NEW planned, NEW d \in Int,
         Emit(from, from + d, reason, planned),
         \/ reason = Changeover /\ planned = TRUE
         \/ reason = MicroStop /\ planned = FALSE /\ d < StopBoundary
         \/ reason = Failure /\ planned = FALSE /\ StopBoundary <= d
  PROVE  StopsInv'
<1>1. PICK stop : stop = StopOf(from, from + d, reason, planned)
  OBVIOUS
<1>2. /\ stop.start = from /\ stop.end = from + d /\ stop.reason = reason
      /\ stop.is_planned = planned
  BY <1>1 DEF StopOf
<1>3. events' = events \union {stop}
  BY <1>1 DEF Emit, StopOf
<1>4. stop.end - stop.start = d
  BY <1>2
<1>5. \/ stop.reason = Changeover /\ stop.is_planned = TRUE
      \/ stop.reason = MicroStop /\ stop.is_planned = FALSE /\ stop.end - stop.start < StopBoundary
      \/ stop.reason = Failure /\ stop.is_planned = FALSE /\ StopBoundary <= stop.end - stop.start
  BY <1>2, <1>4
<1>6. QED
  BY <1>3, <1>5 DEF StopsInv

LEMMA StopsInvStep ==
  ASSUME IInv, StopsInv, [Next]_vars PROVE StopsInv'
<1>1. CASE ChangeOver
  <2>1. MaxOf(window.boundary, clock) \in Int
    BY DEF MaxOf, IInv, TimeIsTyped
  <2>2. PICK d \in ChangeoverTimes, from \in Int : Emit(from, from + d, Changeover, TRUE)
    BY <1>1, <2>1 DEF ChangeOver
  <2>3. QED
    BY <2>2, DrawsAreInstants, StopIsClassed
<1>2. CASE RunCycle
  <2>1. PICK c \in CycleTimes :
          \/ \E d \in FailureTimes :
               Emit(clock + CycleTime(c), clock + CycleTime(c) + d, Failure, FALSE)
          \/ \E d \in MicroStopTimes :
               Emit(clock + CycleTime(c), clock + CycleTime(c) + d, MicroStop, FALSE)
          \/ UNCHANGED events
    BY <1>2 DEF RunCycle
  <2>2. clock + CycleTime(c) \in Int
    BY DrawsAreInstants DEF IInv, TimeIsTyped
  <2>3. ASSUME NEW d \in FailureTimes,
               Emit(clock + CycleTime(c), clock + CycleTime(c) + d, Failure, FALSE)
        PROVE  StopsInv'
    BY <2>2, <2>3, DrawsAreInstants, StopsAreClassed, StopIsClassed
  <2>4. ASSUME NEW d \in MicroStopTimes,
               Emit(clock + CycleTime(c), clock + CycleTime(c) + d, MicroStop, FALSE)
        PROVE  StopsInv'
    BY <2>2, <2>4, DrawsAreInstants, StopsAreClassed, StopIsClassed
  <2>5. QED
    BY <2>1, <2>3, <2>4 DEF StopsInv
<1>3. CASE UNCHANGED events
  BY <1>3 DEF StopsInv
<1>4. QED
  BY <1>1, <1>2, <1>3 DEF Next, NextMachine, SkipWindow, ResumeShift, LeaveWindow,
                          CountProduction, vars

(* BucketLine of given cycles. *)
Counted(line, made, from, n) ==
  {LET here == {c \in made : (c.end - from) \div Bucket = i} IN
     [line |-> line, start |-> from + i * Bucket, end |-> from + (i + 1) * Bucket,
      total |-> Cardinality(here), good |-> Cardinality({c \in here : c.good})] :
   i \in 0..(n - 1)}

LEMMA SameBuckets ==
  ASSUME UNCHANGED <<period, events, cycles>>
  PROVE  AllBuckets' = AllBuckets
<1>1. ASSUME NEW line PROVE LineCycles(line)' = LineCycles(line)
  BY DEF LineCycles, LineEvents, OverlapsAnyEvent
<1>2. Buckets' = Buckets
  BY DEF Buckets
<1>3. ASSUME NEW line PROVE BucketLine(line)' = BucketLine(line)
  <2>1. BucketLine(line) = Counted(line, LineCycles(line), period.start, Buckets)
    BY DEF BucketLine, Counted
  <2>2. BucketLine(line)' = Counted(line, LineCycles(line)', period.start', Buckets')
    BY DEF BucketLine, Counted
  <2>3. QED
    BY <1>1, <1>2, <2>1, <2>2
<1>4. QED
  BY <1>3 DEF AllBuckets

LEMMA RecordsInvStep ==
  ASSUME RecordsInv, [Next]_vars PROVE RecordsInv'
<1>1. CASE CountProduction
  <2>1. UNCHANGED <<period, events, cycles>> /\ records' = AllBuckets
    BY <1>1 DEF CountProduction, AllBuckets
  <2>2. QED
    BY <2>1, SameBuckets DEF RecordsInv
<1>2. CASE UNCHANGED vars
  BY <1>2, SameBuckets DEF vars, RecordsInv
<1>3. CASE NextMachine \/ SkipWindow \/ ChangeOver \/ ResumeShift \/ LeaveWindow \/ RunCycle
  <2>1. pc' # "done"
    BY <1>3 DEF NextMachine, StartsMachine, SkipWindow, ChangeOver, ResumeShift, LeaveWindow,
                RunCycle, NextWindow
  <2>2. QED
    BY <2>1 DEF RecordsInv
<1>4. QED
  BY <1>1, <1>2, <1>3 DEF Next

Ended(line, i) == {c \in LineCycles(line) : (c.end - period.start) \div Bucket = i}

BucketRecord(line, i) ==
  [line |-> line, start |-> period.start + i * Bucket,
   end |-> period.start + (i + 1) * Bucket,
   total |-> Cardinality(Ended(line, i)), good |-> Cardinality({c \in Ended(line, i) : c.good})]

(* The records of a line are those of its buckets, one each.               *)
LEMMA RecordsOfALine ==
  ASSUME RecordsInv, pc = "done"
  PROVE  /\ \A line \in Lines :
              RecordsOf(line) = {BucketRecord(line, i) : i \in 0..(Buckets - 1)}
         /\ \A r \in records : r.line \in Lines /\ r \in RecordsOf(r.line)
<1>1. records = AllBuckets
  BY DEF RecordsInv
<1>2. ASSUME NEW line
      PROVE  BucketLine(line) = {BucketRecord(line, i) : i \in 0..(Buckets - 1)}
  BY DEF BucketLine, BucketRecord, Ended
<1>3. ASSUME NEW line, NEW r \in BucketLine(line)
      PROVE  r.line = line
  <2>1. PICK i : r = BucketRecord(line, i)
    BY <1>2, <1>3
  <2>2. QED
    BY <2>1 DEF BucketRecord
<1>4. ASSUME NEW line \in Lines
      PROVE  RecordsOf(line) = BucketLine(line)
  BY <1>1, <1>3, <1>4 DEF RecordsOf, AllBuckets
<1>5. ASSUME NEW r \in records
      PROVE  r.line \in Lines /\ r \in RecordsOf(r.line)
  BY <1>1, <1>3, <1>5 DEF RecordsOf, AllBuckets
<1>6. QED
  BY <1>2, <1>4, <1>5

(* The buckets follow each other. *)
LEMMA BucketsAscend ==
  ASSUME period \in Periods, NEW i \in Nat, NEW j \in Nat
  PROVE  /\ period.start + i * Bucket \in Int
         /\ period.start + (i + 1) * Bucket = period.start + i * Bucket + Bucket
         /\ i < j <=> period.start + i * Bucket < period.start + j * Bucket
         /\ i = j <=> period.start + i * Bucket = period.start + j * Bucket
<1>1. period.start \in Int /\ Bucket \in Nat /\ Bucket > 0
  BY PeriodFacts, TimeIsDiscrete
<1>2. i * Bucket \in Nat /\ j * Bucket \in Nat /\ (i + 1) * Bucket = i * Bucket + Bucket
  BY <1>1
<1>3. ASSUME NEW a \in Nat, NEW b \in Nat, a < b
      PROVE  a * Bucket < b * Bucket
  <2>1. PICK d \in Nat : b = a + 1 + d
    <3>1. b - a - 1 \in Nat /\ b = a + 1 + (b - a - 1)
      BY <1>3
    <3>2. QED
      BY <3>1
  <2>2. b * Bucket = a * Bucket + Bucket + d * Bucket
    BY <1>1, <2>1
  <2>3. a * Bucket \in Nat /\ d * Bucket \in Nat
    BY <1>1
  <2>4. QED
    BY <1>1, <2>2, <2>3
<1>4. /\ i < j => i * Bucket < j * Bucket
      /\ j < i => j * Bucket < i * Bucket
      /\ i = j => i * Bucket = j * Bucket
      /\ i < j \/ j < i \/ i = j
  BY <1>3
<1> DEFINE x == i * Bucket
           y == j * Bucket
<1>5. /\ i < j <=> x < y
      /\ i = j <=> x = y
  <2>1. x \in Nat /\ y \in Nat
    BY <1>2
  <2>2. /\ i < j => x < y
        /\ j < i => y < x
        /\ i = j => x = y
        /\ i < j \/ j < i \/ i = j
    BY <1>4
  <2> HIDE DEF x, y
  <2>3. QED
    BY <2>1, <2>2
<1>6. x \in Nat /\ y \in Nat /\ (i + 1) * Bucket = x + Bucket
  BY <1>2
<1> HIDE DEF x, y
<1>7. /\ period.start + x \in Int
      /\ period.start + (x + Bucket) = period.start + x + Bucket
      /\ i < j <=> period.start + x < period.start + y
      /\ i = j <=> period.start + x = period.start + y
  BY <1>1, <1>5, <1>6
<1>8. QED
  BY <1>6, <1>7 DEF x, y

LEMMA SomeBuckets ==
  ASSUME period \in Periods
  PROVE  Buckets \in Nat /\ \A i \in 0..(Buckets - 1) : i \in Nat /\ i + 1 <= Buckets
<1>1. period.end - period.start \in Nat /\ Bucket \in Nat /\ Bucket > 0
  BY PeriodFacts, TimeIsDiscrete
<1>2. Buckets \in Nat
  BY <1>1 DEF Buckets
<1>3. QED
  BY <1>2

(* What each check of check_structural looks at. *)
LEMMA EventsPass ==
  ASSUME IInv, StopsInv
  PROVE  ~OverlappingDowntimeEvents /\ ~IsPlannedMismatch /\ ~BoundaryMismatch
<1>1. ~OverlappingDowntimeEvents
  <2>1. SUFFICES ASSUME NEW e \in events, NEW f \in events, e # f, e.machine = f.machine,
                        e.start <= f.start, f.start < e.end
                 PROVE  FALSE
    BY DEF OverlappingDowntimeEvents
  <2>2. e.end <= f.start \/ f.end <= e.start
    BY <2>1 DEF IInv, OneThingAtATime, Disjoint
  <2>3. /\ e.start \in Int /\ e.end \in Int /\ f.start \in Int /\ f.end \in Int
        /\ f.start < f.end
    BY DEF IInv, EventsLast
  <2>4. QED
    BY <2>1, <2>2, <2>3
<1>2. ~IsPlannedMismatch
  <2>1. \A e \in events : e.is_planned = (e.reason = Changeover)
    BY DEF StopsInv, Changeover, MicroStop, Failure
  <2>2. QED
    BY <2>1 DEF IsPlannedMismatch, DefaultIsPlanned
<1>3. ~BoundaryMismatch
  <2>1. SUFFICES ASSUME NEW e \in events, e.reason # Changeover
                 PROVE  e.reason = ExpectedClass(e)
    BY DEF BoundaryMismatch
  <2>2. e.end - e.start \in Int /\ StopBoundary \in Int
    BY StopsAreClassed DEF IInv, EventsLast
  <2>3. QED
    BY <2>1, <2>2 DEF StopsInv, ExpectedClass
<1>4. QED
  BY <1>1, <1>2, <1>3

LEMMA BucketsAreCounted ==
  ASSUME period \in Periods, RecordsInv, pc = "done", NEW line \in Lines
  PROVE  Cardinality(RecordsOf(line)) = Buckets
<1> DEFINE I == 0..(Buckets - 1)
           R == RecordsOf(line)
           f == [i \in I |-> BucketRecord(line, i)]
<1>1. Buckets \in Nat /\ \A i \in I : i \in Nat
  BY SomeBuckets
<1>2. R = {BucketRecord(line, i) : i \in I}
  BY RecordsOfALine
<1>3. ASSUME NEW i \in I, NEW j \in I, BucketRecord(line, i) = BucketRecord(line, j)
      PROVE  i = j
  <2>1. period.start + i * Bucket = period.start + j * Bucket
    BY <1>3 DEF BucketRecord
  <2>2. i \in Nat /\ j \in Nat
    BY <1>1
  <2>3. QED
    BY <2>1, <2>2, BucketsAscend
<1>4. Cardinality(I) = Buckets /\ IsFiniteSet(I)
  <2>1. Buckets - 1 \in Int /\ 0 \in Int
    BY <1>1
  <2>2. /\ IsFiniteSet(0..(Buckets - 1))
        /\ Cardinality(0..(Buckets - 1)) = IF 0 > Buckets - 1 THEN 0 ELSE Buckets - 1 - 0 + 1
    BY <2>1, FS_Interval
  <2>3. QED
    BY <1>1, <2>2
<1> HIDE DEF I, R
<1>5. f \in Bijection(I, R)
  BY <1>2, <1>3, Zenon DEF Bijection, Injection, Surjection, IsInjective
<1>6. ExistsBijection(I, R)
  BY <1>5 DEF ExistsBijection
<1>7. Cardinality(R) = Cardinality(I)
  BY <1>4, <1>6, FS_Bijection
<1>8. QED
  BY <1>4, <1>7 DEF R

LEMMA RecordsPass ==
  ASSUME TypeInv, RecordsInv, pc = "done"
  PROVE  /\ ~GoodCountExceedsTotal /\ ~BucketCountMismatch
         /\ ~BucketMisaligned /\ ~BucketGap
<1>1. period \in Periods /\ IsFiniteSet(cycles)
  BY DEF TypeInv, TypeOK
<1>2. ASSUME NEW r \in records
      PROVE  \E i \in Nat : i + 1 <= Buckets /\ r = BucketRecord(r.line, i)
  <2>1. r.line \in Lines /\ r \in RecordsOf(r.line)
    BY RecordsOfALine
  <2>2. PICK i \in 0..(Buckets - 1) : r = BucketRecord(r.line, i)
    BY <2>1, RecordsOfALine
  <2>3. QED
    BY <1>1, <2>2, SomeBuckets
<1>3. ~GoodCountExceedsTotal
  <2>1. SUFFICES ASSUME NEW r \in records PROVE ~(r.good > r.total)
    BY DEF GoodCountExceedsTotal
  <2>2. PICK i \in Nat : r = BucketRecord(r.line, i)
    BY <1>2
  <2>3. Ended(r.line, i) \in SUBSET cycles
    BY DEF Ended, LineCycles
  <2> DEFINE made == Ended(r.line, i)
             good == {c \in made : c.good}
  <2>4. good \in SUBSET made
    OBVIOUS
  <2>5. r.total = Cardinality(made) /\ r.good = Cardinality(good)
    BY <2>2 DEF BucketRecord
  <2> HIDE DEF made, good
  <2>6. IsFiniteSet(made)
    BY <1>1, <2>3, FS_Subset DEF made
  <2>7. IsFiniteSet(good) /\ Cardinality(good) <= Cardinality(made)
    BY <2>4, <2>6, FS_Subset
  <2>8. Cardinality(good) \in Nat /\ Cardinality(made) \in Nat
    BY <2>6, <2>7, FS_CardinalityType
  <2>9. QED
    BY <2>5, <2>7, <2>8
<1>4. ~BucketCountMismatch
  BY <1>1, BucketsAreCounted DEF BucketCountMismatch, Buckets
<1>5. ~BucketMisaligned
  <2>1. SUFFICES ASSUME NEW r \in records PROVE r.end - r.start = Bucket
    BY DEF BucketMisaligned
  <2>2. PICK i \in Nat : r = BucketRecord(r.line, i)
    BY <1>2
  <2>3. r.start = period.start + i * Bucket /\ r.end = period.start + (i + 1) * Bucket
    BY <2>2 DEF BucketRecord
  <2>4. r.start \in Int /\ r.end = r.start + Bucket
    BY <1>1, <2>3, BucketsAscend
  <2>5. QED
    BY <2>4, TimeIsDiscrete
<1>6. ~BucketGap
  <2>1. SUFFICES ASSUME NEW r \in records, NEW s \in records,
                        r.line = s.line, r.start < s.start,
                        \A q \in RecordsOf(r.line) : q.start <= r.start \/ s.start <= q.start,
                        r.end # s.start
                 PROVE  FALSE
    BY DEF BucketGap
  <2>2. PICK i \in Nat : r = BucketRecord(r.line, i)
    BY <1>2
  <2>3. PICK j \in Nat : j + 1 <= Buckets /\ s = BucketRecord(s.line, j)
    BY <1>2
  <2>4. /\ r.start = period.start + i * Bucket /\ r.end = period.start + (i + 1) * Bucket
        /\ s.start = period.start + j * Bucket
    BY <2>2, <2>3 DEF BucketRecord
  <2>5. i < j
    BY <1>1, <2>1, <2>4, BucketsAscend
  <2>6. i + 1 \in Nat /\ i + 1 # j
    BY <2>1, <2>4
  <2>7. i + 1 \in 0..(Buckets - 1)
    BY <1>1, <2>3, <2>5, <2>6, SomeBuckets
  <2>8. r.line \in Lines
    BY RecordsOfALine
  <2>9. PICK q \in RecordsOf(r.line) : q = BucketRecord(r.line, i + 1)
    BY <2>7, <2>8, RecordsOfALine
  <2>10. q.start = period.start + (i + 1) * Bucket
    BY <2>9 DEF BucketRecord
  <2>11. r.start < q.start
    <3>1. i < i + 1
      OBVIOUS
    <3>2. QED
      BY <1>1, <2>4, <2>6, <2>10, <3>1, BucketsAscend
  <2>12. q.start < s.start
    <3>1. i + 1 < j
      BY <2>5, <2>6
    <3>2. QED
      BY <1>1, <2>4, <2>6, <2>10, <3>1, BucketsAscend
  <2>13. q.start <= r.start \/ s.start <= q.start
    BY <2>1
  <2>14. r.start \in Int /\ q.start \in Int /\ s.start \in Int
    BY <1>1, <2>4, <2>6, <2>10, BucketsAscend
  <2>15. QED
    BY <2>11, <2>12, <2>13, <2>14
<1>7. QED
  BY <1>3, <1>4, <1>5, <1>6

LEMMA QaInvHolds == Spec => [](IInv /\ TypeInv /\ StopsInv /\ RecordsInv)
<1>1. Init => StopsInv /\ RecordsInv
  BY DEF Init, StopsInv, RecordsInv
<1>2. QED
  BY <1>1, StopsInvStep, RecordsInvStep, IInvHolds, TypeInvHolds, PTL DEF Spec

(* Whatever is drawn, the QA finds nothing in a generated run: the stops of *)
(* a machine do not overlap and have the reason their length asks for, and  *)
(* the buckets of each line are as many as the period has room for, equally *)
(* long, without a gap, and with no more good units than units.             *)
THEOREM GeneratedRunsPass == Spec => []StructuralCheckPasses
<1>1. ASSUME IInv, TypeInv, StopsInv, RecordsInv
      PROVE  StructuralCheckPasses
  <2>1. SUFFICES ASSUME pc = "done" PROVE CheckStructural = {}
    BY DEF StructuralCheckPasses
  <2>2. /\ ~OverlappingDowntimeEvents /\ ~IsPlannedMismatch /\ ~BoundaryMismatch
        /\ ~GoodCountExceedsTotal /\ ~BucketCountMismatch /\ ~BucketMisaligned /\ ~BucketGap
    BY <1>1, <2>1, EventsPass, RecordsPass
  <2>3. ASSUME NEW f \in CheckStructural PROVE FALSE
    <3>1. (CASE f = "overlapping_downtime_events" -> OverlappingDowntimeEvents
            [] f = "is_planned_mismatch" -> IsPlannedMismatch
            [] f = "boundary_mismatch" -> BoundaryMismatch
            [] f = "good_count_exceeds_total" -> GoodCountExceedsTotal
            [] f = "bucket_count_mismatch" -> BucketCountMismatch
            [] f = "bucket_misaligned" -> BucketMisaligned
            [] f = "bucket_gap" -> BucketGap)
      BY <2>3, Zenon DEF CheckStructural
    <3>2. f \in {"overlapping_downtime_events", "is_planned_mismatch", "boundary_mismatch",
                 "good_count_exceeds_total", "bucket_count_mismatch", "bucket_misaligned",
                 "bucket_gap"}
      BY <2>3 DEF CheckStructural
    <3>3. QED
      BY <2>2, <3>1, <3>2
  <2>4. QED
    BY <2>3
<1>2. QED
  BY <1>1, QaInvHolds, PTL


-----------------------------------------------------------------------------
(* Units and time. *)

(* A cycle takes at least the shortest time, from the start of the period on. *)
PaceInv ==
  \A c \in cycles : period.start <= c.start /\ c.start + ShortestCycle <= c.end

(* Of the cycle times there is a least one, since they are natural numbers. *)
LEMMA ThereIsAShortestCycle ==
  ShortestCycle \in CycleTimes /\ \A c \in CycleTimes : ShortestCycle <= c
<1> DEFINE R == OpToRel(<, Nat)
<1>1. CycleTimes \subseteq Nat /\ CycleTimes # {}
  BY DrawsArePositive, WarmupIsSlower DEF DrawsFit
<1>2. \A i, j \in Nat : i < j <=> <<i, j>> \in R
  BY DEF OpToRel
<1>3. IsWellFoundedOn(R, Nat)
  BY NatLessThanWellFounded DEF OpToRel
<1> HIDE DEF R
<1>4. PICK k \in CycleTimes : \A j \in CycleTimes : ~(<<j, k>> \in R)
  BY <1>1, <1>3, WFMin
<1>5. ASSUME NEW j \in CycleTimes
      PROVE  k <= j
  <2>1. j \in Nat /\ k \in Nat /\ ~(j < k)
    BY <1>1, <1>2, <1>4
  <2>2. QED
    BY <2>1
<1>6. QED
  BY <1>4, <1>5 DEF ShortestCycle

LEMMA ShortestIsPositive ==
  /\ ShortestCycle \in Nat
  /\ \A c \in CycleTimes : ShortestCycle <= CycleTime(c)
<1>1. ASSUME NEW c \in CycleTimes
      PROVE  ShortestCycle <= CycleTime(c)
  <2>1. c \in Nat /\ Slowed[c] \in Nat /\ c <= Slowed[c] /\ ShortestCycle \in Nat
    BY ThereIsAShortestCycle, DrawsArePositive, WarmupIsSlower DEF DrawsFit
  <2>2. ShortestCycle <= c
    BY ThereIsAShortestCycle
  <2>3. CycleTime(c) = c \/ CycleTime(c) = Slowed[c]
    BY DEF CycleTime
  <2>4. QED
    BY <2>1, <2>2, <2>3
<1>2. QED
  BY <1>1, ThereIsAShortestCycle, DrawsArePositive DEF DrawsFit

LEMMA PaceInvStep ==
  ASSUME IInv, WindowInv, PaceInv, [Next]_vars PROVE PaceInv'
<1>1. CASE RunCycle
  <2>1. period' = period /\ period.start <= clock
    BY <1>1 DEF RunCycle, WindowInv
  <2>2. PICK c \in CycleTimes, good \in BOOLEAN :
          \/ cycles' = cycles \union
               {[machine |-> machine, start |-> clock, end |-> clock + CycleTime(c),
                 good |-> good, shift |-> ShiftFor(WindowStart)]}
          \/ cycles' = cycles
    BY <1>1 DEF RunCycle
  <2>3. PICK cycle : cycle = [machine |-> machine, start |-> clock, end |-> clock + CycleTime(c),
                              good |-> good, shift |-> ShiftFor(WindowStart)]
    OBVIOUS
  <2>4. cycle.start = clock /\ cycle.end = clock + CycleTime(c)
    BY <2>3
  <2>5. /\ clock \in Int /\ CycleTime(c) \in Int
        /\ ShortestCycle \in Nat /\ ShortestCycle <= CycleTime(c)
    BY DrawsAreInstants, ShortestIsPositive DEF IInv, TimeIsTyped
  <2>6. cycle.start + ShortestCycle <= cycle.end /\ period.start <= cycle.start
    BY <2>1, <2>4, <2>5
  <2>7. cycles' \subseteq cycles \union {cycle}
    BY <2>2, <2>3
  <2>8. QED
    BY <2>1, <2>6, <2>7 DEF PaceInv
<1>2. CASE UNCHANGED <<period, cycles>>
  BY <1>2 DEF PaceInv
<1>3. QED
  BY <1>1, <1>2 DEF Next, NextMachine, SkipWindow, ChangeOver, ResumeShift, LeaveWindow,
                    CountProduction, vars

(* The cycles that end in one of the first n buckets. *)
EndedBy(line, n) == {c \in LineCycles(line) : (c.end - period.start) \div Bucket \in 0..(n - 1)}

(* One bucket more adds the cycles that end in it.                          *)
LEMMA EndedByGrows ==
  ASSUME IsFiniteSet(cycles), CyclesLast, period \in Periods, NEW line, NEW n \in Nat
  PROVE  /\ IsFiniteSet(EndedBy(line, n)) /\ Cardinality(EndedBy(line, n)) \in Nat
         /\ Cardinality(EndedBy(line, 0)) = 0
         /\ Cardinality(EndedBy(line, n + 1))
              = Cardinality(EndedBy(line, n)) + Cardinality(Ended(line, n))
<1>1. \A k : EndedBy(line, k) \in SUBSET cycles /\ Ended(line, k) \in SUBSET cycles
  BY DEF EndedBy, Ended, LineCycles
<1>2. \A k : IsFiniteSet(EndedBy(line, k)) /\ IsFiniteSet(Ended(line, k))
  BY <1>1, FS_Subset
<1>3. EndedBy(line, 0) = {}
  BY DEF EndedBy
<1>4. \A c \in cycles : (c.end - period.start) \div Bucket \in Int
  <2>1. period.start \in Int /\ Bucket \in Nat /\ Bucket > 0
    BY PeriodFacts, TimeIsDiscrete
  <2>2. QED
    BY <2>1 DEF CyclesLast
<1>5. EndedBy(line, n + 1) = EndedBy(line, n) \cup Ended(line, n)
  <2>1. \A q \in Int : q \in 0..(n + 1 - 1) <=> q \in 0..(n - 1) \/ q = n
    OBVIOUS
  <2>2. QED
    BY <1>4, <2>1 DEF EndedBy, Ended, LineCycles
<1>6. EndedBy(line, n) \cap Ended(line, n) = {}
  <2>1. \A q : q \in 0..(n - 1) => q # n
    OBVIOUS
  <2>2. QED
    BY <2>1 DEF EndedBy, Ended
<1> DEFINE A == EndedBy(line, n)
           B == Ended(line, n)
<1>7. IsFiniteSet(A) /\ IsFiniteSet(B) /\ A \cap B = {}
  BY <1>2, <1>6
<1> HIDE DEF A, B
<1>8. Cardinality(A \cup B) = Cardinality(A) + Cardinality(B)
  <2>1. Cardinality(A \cup B) = Cardinality(A) + Cardinality(B) - Cardinality(A \cap B)
    BY <1>7, FS_Union
  <2>2. Cardinality(A) \in Nat /\ Cardinality(B) \in Nat /\ Cardinality(A \cap B) = 0
    BY <1>7, FS_CardinalityType, FS_EmptySet
  <2>3. QED
    BY <2>1, <2>2
<1>9. Cardinality(EndedBy(line, n + 1)) = Cardinality(A) + Cardinality(B)
  BY <1>5, <1>8 DEF A, B
<1>10. IsFiniteSet(A) /\ Cardinality(A) \in Nat /\ Cardinality(EndedBy(line, 0)) = 0
  BY <1>3, <1>7, FS_CardinalityType, FS_EmptySet
<1>11. QED
  BY <1>9, <1>10 DEF A, B

LEMMA WithinItsBucket ==
  ASSUME NEW x \in Int
  PROVE  x < (x \div Bucket) * Bucket + Bucket
<1>1. Bucket \in Nat \ {0}
  BY TimeIsDiscrete
<1>2. /\ x \div Bucket \in Int /\ x % Bucket \in 0..(Bucket - 1)
      /\ x = (x \div Bucket) * Bucket + (x % Bucket)
  BY <1>1
<1> DEFINE m == (x \div Bucket) * Bucket
           r == x % Bucket
<1>3. m \in Int /\ r \in 0..(Bucket - 1) /\ x = m + r
  BY <1>1, <1>2
<1> HIDE DEF m, r
<1>4. x < m + Bucket
  BY <1>1, <1>3
<1>5. QED
  BY <1>4 DEF m

(* The cycles take their time from the instants at which no machine of the *)
(* line stands, each its own: tick i of cycle c is c.start + i.            *)
LEMMA CyclesTakeTime ==
  ASSUME IInv, PaceInv, IsFiniteSet(cycles), period \in Periods, NEW line, NEW n \in Nat
  PROVE  Cardinality(EndedBy(line, n)) * ShortestCycle <= RunTime(line, n)
<1> DEFINE C == EndedBy(line, n)
           last == period.start + n * Bucket - 1
           F == {t \in period.start..last :
                   \A e \in LineEvents(line) : ~(e.start <= t /\ t < e.end)}
           S == 0..(ShortestCycle - 1)
           tick == [p \in C \X S |-> p[1].start + p[2]]
<1>1. period.start \in Int /\ Bucket \in Nat /\ Bucket > 0 /\ ShortestCycle \in Nat
  BY PeriodFacts, TimeIsDiscrete, ShortestIsPositive
<1>2. n * Bucket \in Nat /\ last \in Int
  BY <1>1
<1>3. ASSUME NEW c \in C
      PROVE  /\ c.start \in Int /\ c.end \in Int /\ period.start <= c.start
             /\ c.start + ShortestCycle <= c.end /\ c.end - 1 <= last
  <2>1. /\ c \in cycles
        /\ (c.end - period.start) \div Bucket \in 0..(n - 1)
    BY DEF EndedBy, LineCycles
  <2>2. /\ c.start \in Int /\ c.end \in Int /\ period.start <= c.start
        /\ c.start + ShortestCycle <= c.end
    BY <2>1 DEF IInv, CyclesLast, PaceInv
  <2> DEFINE q == (c.end - period.start) \div Bucket
  <2>3. q \in 0..(n - 1)
    BY <2>1
  <2>4. c.end - period.start \in Int /\ c.end - period.start < q * Bucket + Bucket
    <3>1. c.end - period.start \in Int
      BY <1>1, <2>2
    <3>2. QED
      BY <3>1, WithinItsBucket
  <2> HIDE DEF q
  <2>5. q * Bucket + Bucket <= n * Bucket
    <3>1. PICK d \in Nat : n = q + 1 + d
      <4>1. n - q - 1 \in Nat /\ n = q + 1 + (n - q - 1)
        BY <2>3
      <4>2. QED
        BY <4>1
    <3>2. q \in Nat
      BY <2>3
    <3>3. n * Bucket = q * Bucket + Bucket + d * Bucket
      BY <1>1, <3>1, <3>2
    <3>4. q * Bucket \in Nat /\ d * Bucket \in Nat
      BY <1>1, <3>2
    <3>5. QED
      BY <1>1, <3>3, <3>4
  <2> DEFINE x == q * Bucket
             y == n * Bucket
  <2>6. x \in Int /\ y \in Int /\ c.end - period.start < x + Bucket /\ x + Bucket <= y
    BY <1>1, <1>2, <2>3, <2>4, <2>5
  <2>7. last = period.start + y - 1
    OBVIOUS
  <2> HIDE DEF x, y, last
  <2>8. c.end - 1 <= last
    BY <1>1, <2>2, <2>6, <2>7
  <2>9. QED
    BY <2>2, <2>8
<1>4. ASSUME NEW c \in C, NEW i \in S
      PROVE  c.start + i \in F
  <2>1. c.start + i \in Int /\ c.start <= c.start + i /\ c.start + i < c.end
    BY <1>1, <1>3
  <2>2. c.start + i \in period.start..last
    BY <1>1, <1>2, <1>3, <2>1
  <2>3. ASSUME NEW e \in LineEvents(line)
        PROVE  ~(e.start <= c.start + i /\ c.start + i < e.end)
    <3>1. ~(e.start < c.end /\ e.end > c.start)
      BY DEF EndedBy, LineCycles, OverlapsAnyEvent
    <3>2. e.start \in Int /\ e.end \in Int
      BY DEF LineEvents, IInv, EventsLast
    <3>3. QED
      BY <1>3, <2>1, <3>1, <3>2
  <2>4. QED
    BY <2>2, <2>3
<1>5. ASSUME NEW c \in C, NEW d \in C, NEW i \in S, NEW j \in S, c.start + i = d.start + j
      PROVE  c = d /\ i = j
  <2>1. c = d
    <3>1. c = d \/ c.end <= d.start \/ d.end <= c.start
      BY DEF EndedBy, LineCycles, IInv, OneThingAtATime, Disjoint
    <3>2. /\ c.start + i < c.end /\ c.start <= c.start + i
          /\ d.start + j < d.end /\ d.start <= d.start + j
      BY <1>1, <1>3
    <3>3. c.start + i \in Int
      BY <1>1, <1>3
    <3>4. QED
      BY <1>3, <1>5, <3>1, <3>2, <3>3
  <2>2. c.start \in Int /\ i \in Int /\ j \in Int /\ c.start + i = c.start + j
    BY <1>1, <1>3, <1>5, <2>1
  <2>3. QED
    BY <2>1, <2>2
<1>6. IsFiniteSet(F) /\ Cardinality(F) = RunTime(line, n)
  <2>1. IsFiniteSet(period.start..last) /\ F \in SUBSET (period.start..last)
    BY <1>1, <1>2, FS_Interval
  <2>2. RunTime(line, n) = Cardinality(F)
    BY DEF RunTime
  <2>3. QED
    BY <2>1, <2>2, FS_Subset
<1>7. IsFiniteSet(C)
  BY EndedByGrows DEF IInv
<1>8. IsFiniteSet(S) /\ Cardinality(S) = ShortestCycle
  <2>1. /\ IsFiniteSet(0..(ShortestCycle - 1))
        /\ Cardinality(0..(ShortestCycle - 1))
             = IF 0 > ShortestCycle - 1 THEN 0 ELSE ShortestCycle - 1 - 0 + 1
    BY <1>1, FS_Interval
  <2>2. QED
    BY <1>1, <2>1
<1> HIDE DEF C, F, S
<1>9. tick \in Injection(C \X S, F)
  <2>1. ASSUME NEW p \in C \X S
        PROVE  p[1] \in C /\ p[2] \in S /\ p = <<p[1], p[2]>>
    OBVIOUS
  <2>2. tick \in [C \X S -> F]
    BY <1>4, <2>1
  <2>3. ASSUME NEW p \in C \X S, NEW q \in C \X S, tick[p] = tick[q]
        PROVE  p = q
    <3>1. p[1].start + p[2] = q[1].start + q[2]
      BY <2>3
    <3>2. p[1] = q[1] /\ p[2] = q[2]
      BY <1>5, <2>1, <3>1
    <3>3. QED
      BY <2>1, <3>2
  <2> HIDE DEF tick
  <2>4. QED
    BY <2>2, <2>3 DEF Injection, IsInjective
<1>10. Cardinality(C \X S) <= Cardinality(F)
  BY <1>6, <1>9, FS_Injection
<1>11. Cardinality(C \X S) = Cardinality(C) * ShortestCycle
  BY <1>7, <1>8, FS_Product
<1>12. QED
  BY <1>6, <1>10, <1>11 DEF C

(* The recursion of cycles_by_line adds up the records bucket by bucket. *)
LEMMA TotalsAddUp ==
  ASSUME IInv, TypeInv, RecordsInv, pc = "done", NEW line \in Lines, NEW n \in 1..Buckets
  PROVE  CyclesCounted(line, n) = Cardinality(EndedBy(line, n))
<1> DEFINE first == {r \in RecordsOf(line) : r.end <= period.start + n * Bucket}
           total(k) == (CHOOSE r \in first : r.start = period.start + (k - 1) * Bucket).total
           f == [k \in 0..n |-> Cardinality(EndedBy(line, k))]
           Adds(g) == g = [k \in 0..n |-> IF k = 0 THEN 0 ELSE g[k - 1] + total(k)]
           sum == CHOOSE g : Adds(g)
           R == OpToRel(<, Nat)
<1>1. period \in Periods /\ Buckets \in Nat /\ n \in Nat /\ n <= Buckets /\ IsFiniteSet(cycles)
  BY SomeBuckets DEF TypeInv, TypeOK
<1>2. ASSUME NEW k \in 1..n
      PROVE  total(k) = Cardinality(Ended(line, k - 1))
  <2>1. k - 1 \in Nat /\ k \in Nat /\ k - 1 \in 0..(Buckets - 1) /\ (k - 1) + 1 = k /\ k <= n
    BY <1>1
  <2> DEFINE b == BucketRecord(line, k - 1)
  <2>2. b \in RecordsOf(line)
    BY <2>1, RecordsOfALine
  <2>3. /\ b.start = period.start + (k - 1) * Bucket /\ b.end = period.start + k * Bucket
        /\ b.total = Cardinality(Ended(line, k - 1))
    BY <2>1 DEF BucketRecord
  <2>4. b.end <= period.start + n * Bucket
    <3>1. /\ period.start + k * Bucket \in Int /\ period.start + n * Bucket \in Int
          /\ k < n => period.start + k * Bucket < period.start + n * Bucket
          /\ k = n => period.start + k * Bucket = period.start + n * Bucket
      BY <1>1, <2>1, BucketsAscend
    <3> DEFINE x == period.start + k * Bucket
               y == period.start + n * Bucket
    <3>2. x \in Int /\ y \in Int /\ (k < n => x < y) /\ (k = n => x = y)
      BY <3>1
    <3> HIDE DEF x, y
    <3>3. x <= y
      BY <1>1, <2>1, <3>2
    <3>4. QED
      BY <2>3, <3>3 DEF x, y
  <2>5. ASSUME NEW r \in first, r.start = period.start + (k - 1) * Bucket
        PROVE  r = b
    <3>1. PICK i \in 0..(Buckets - 1) : r = BucketRecord(line, i)
      BY RecordsOfALine
    <3>2. i \in Nat /\ r.start = period.start + i * Bucket
      BY <1>1, <3>1, SomeBuckets DEF BucketRecord
    <3>3. i = k - 1
      BY <1>1, <2>1, <2>5, <3>2, BucketsAscend
    <3>4. QED
      BY <3>1, <3>3
  <2>6. b \in first
    BY <2>2, <2>4
  <2> HIDE DEF b, first
  <2>7. (CHOOSE r \in first : r.start = period.start + (k - 1) * Bucket) = b
    BY <2>3, <2>5, <2>6
  <2>8. QED
    BY <2>3, <2>7
<1>3. CyclesCounted(line, n) = sum[n]
  BY DEF CyclesCounted
<1>4. /\ f[0] = 0
      /\ \A k \in 1..n : k - 1 \in 0..n /\ k # 0 /\ f[k] = f[k - 1] + total(k)
  <2>1. Cardinality(EndedBy(line, 0)) = 0
    BY <1>1, EndedByGrows DEF IInv
  <2>2. ASSUME NEW k \in 1..n
        PROVE  /\ k - 1 \in 0..n /\ k # 0 /\ k \in 0..n
               /\ Cardinality(EndedBy(line, k)) = Cardinality(EndedBy(line, k - 1)) + total(k)
    <3>1. k - 1 \in Nat /\ (k - 1) + 1 = k /\ k - 1 \in 0..n /\ k \in 0..n
      BY <1>1
    <3>2. Cardinality(EndedBy(line, (k - 1) + 1))
            = Cardinality(EndedBy(line, k - 1)) + Cardinality(Ended(line, k - 1))
      BY <1>1, <3>1, EndedByGrows DEF IInv
    <3> HIDE DEF total
    <3>3. QED
      BY <1>2, <3>1, <3>2
  <2> HIDE DEF total
  <2>3. QED
    BY <1>1, <2>1, <2>2
<1> HIDE DEF total, f
<1>5. Adds(f)
  <2>1. DOMAIN f = 0..n /\ f = [k \in 0..n |-> f[k]]
    BY DEF f
  <2>2. \A k \in 0..n : k = 0 \/ k \in 1..n
    BY <1>1
  <2>3. ASSUME NEW k \in 0..n
        PROVE  f[k] = IF k = 0 THEN 0 ELSE f[k - 1] + total(k)
    BY <1>4, <2>2
  <2>4. QED
    BY <2>1, <2>3
<1>6. Adds(sum)
  BY <1>5
<1> HIDE DEF sum
<1>7. \A k \in 0..n : sum[k] = IF k = 0 THEN 0 ELSE sum[k - 1] + total(k)
  BY <1>6
<1>8. \A i, j \in Nat : i < j <=> <<i, j>> \in R
  BY DEF OpToRel
<1>9. IsWellFoundedOn(R, Nat)
  BY NatLessThanWellFounded DEF OpToRel
<1> HIDE DEF R
<1>10. ASSUME NEW m \in 0..n, sum[m] # f[m]
       PROVE  FALSE
  <2> DEFINE wrong == {k \in 0..n : sum[k] # f[k]}
  <2>1. wrong \subseteq Nat /\ wrong # {}
    BY <1>10
  <2>2. PICK k \in wrong : \A j \in wrong : ~(<<j, k>> \in R)
    BY <1>9, <2>1, WFMin
  <2>3. k \in 0..n /\ k # 0
    BY <1>1, <1>4, <1>7, <2>2
  <2>4. k \in 1..n /\ k - 1 \in 0..n /\ k - 1 \in Nat /\ k \in Nat /\ k - 1 < k
    BY <1>1, <2>3
  <2>5. sum[k - 1] = f[k - 1]
    BY <1>8, <2>2, <2>4
  <2>6. sum[k] = sum[k - 1] + total(k) /\ f[k] = f[k - 1] + total(k)
    BY <1>4, <1>7, <2>3, <2>4
  <2>7. QED
    BY <2>2, <2>5, <2>6
<1>11. QED
  BY <1>1, <1>3, <1>10 DEF f

(* A run never reports more units than the time in which no machine of the *)
(* line stood has room for, at the end of any bucket.                       *)
THEOREM UnitsFitTheirTime == Spec => []CountsFitTheRunTime
<1>1. Init => PaceInv
  BY DEF Init, PaceInv
<1>2. IInv /\ WindowInv /\ PaceInv /\ [Next]_vars => PaceInv'
  BY PaceInvStep
<1>3. IInv /\ TypeInv /\ RecordsInv /\ PaceInv => CountsFitTheRunTime
  <2>1. SUFFICES ASSUME IInv, TypeInv, RecordsInv, PaceInv, pc = "done",
                        NEW line \in Lines, NEW n \in 1..Buckets
                 PROVE  CyclesCounted(line, n) * ShortestCycle <= RunTime(line, n)
    BY DEF CountsFitTheRunTime
  <2>2. IsFiniteSet(cycles) /\ period \in Periods
    BY <2>1 DEF TypeInv, TypeOK
  <2>3. n \in Nat
    BY <2>2, SomeBuckets
  <2>4. CyclesCounted(line, n) = Cardinality(EndedBy(line, n))
    BY <2>1, TotalsAddUp
  <2>5. Cardinality(EndedBy(line, n)) * ShortestCycle <= RunTime(line, n)
    BY <2>1, <2>2, <2>3, CyclesTakeTime
  <2>6. QED
    BY <2>4, <2>5
<1>4. QED
  BY <1>1, <1>2, <1>3, WindowInvHolds, QaInvHolds, PTL DEF Spec
=============================================================================
