---------------------------------- MODULE MCOee ----------------------------------
(***************************************************************************)
(* Small instances of Oee: every window, list of downtimes and count up to *)
(* the bounds of a configuration.                                          *)
(***************************************************************************)
EXTENDS Oee, SequencesExt

CONSTANTS
  LastTick,        (* timestamps are 0..LastTick                                *)
  WindowStart,     (* the window is WindowStart .. LastTick - WindowStart       *)
  MaxDowntimes     (* planned and unplanned downtimes together                   *)

Window == [start |-> WindowStart, end |-> LastTick - WindowStart]

Spans ==
  {s \in [start : 0..LastTick, end : 0..LastTick \union {None}] :
     s.end # None => s.start < s.end}

Downtimes(n) ==
  UNION {BoundedSeq(Spans, m) \X BoundedSeq(Spans, n - m) : m \in 0..n}

InputsWith(downtimes, counts, asOfs) ==
  {[window |-> Window, planned |-> d[1], unplanned |-> d[2],
    total |-> c[1], good |-> c[2], ideal |-> c[3], as_of |-> a] :
     d \in downtimes, c \in counts, a \in asOfs}

(* <<total, good, ideal>>: refused; nothing made; some scrap; too fast. *)
Counts == {<<1, 2, 1>>, <<0, 0, 0>>, <<2, 1, 1>>, <<1, 1, 9>>}

(* All combinations of downtimes, with the default as_of; the counts and an *)
(* explicit as_of before the end of the window with a single downtime.      *)
MCInputs ==
  InputsWith(Downtimes(MaxDowntimes), {<<2, 1, 1>>}, {None})
    \union InputsWith(Downtimes(1), Counts, {None, LastTick - WindowStart - 1})

(* intervals.py:72 "Whole seconds (not float) are used so duration sums are *)
(* exact": the planned production time is the duration of the planned time, *)
(* in whole seconds.                                                        *)
DurationSumsAreExact ==
  pc = "done" => planned_s = Cardinality(Covered(segments)) \div TicksPerSecond
==================================================================================
