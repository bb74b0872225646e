------------------------------ MODULE Intervals ------------------------------
(***************************************************************************)
(* The algebra of half-open time intervals (paro.domain.intervals).        *)
(* Time is counted in ticks, the resolution of a timestamp; durations are  *)
(* reported in whole seconds. union and subtract are loops: UnionStep and  *)
(* SubtractStep are the bodies of the loops, module Oee runs them.         *)
(***************************************************************************)
EXTENDS Naturals, Sequences, FiniteSets, Functions

CONSTANTS
  TicksPerSecond,
  None             (* Python None: no interval, no end                       *)

Interval == {i \in [start : Nat, end : Nat] : i.start < i.end}

ASSUME TimeIsDiscrete ==
  /\ TicksPerSecond \in Nat \ {0}
  /\ None \notin Nat \union Interval

(* The instants of an interval and of a list of intervals. *)
Instants(i) == i.start .. (i.end - 1)

Covered(s) == UNION {Instants(s[k]) : k \in DOMAIN s}

(* Mutant: a started second counts. *)
SecondsRoundedUp(i) == (i.end - i.start + TicksPerSecond - 1) \div TicksPerSecond

Seconds(i) == (i.end - i.start) \div TicksPerSecond

Larger(m, n) == IF m > n THEN m ELSE n
Smaller(m, n) == IF m < n THEN m ELSE n

(* The order of the dataclass: by start, then by end. *)
Before(i, j) == i.start < j.start \/ (i.start = j.start /\ i.end < j.end)

(* The results of sorted() on the values of f, a list whose positions may  *)
(* have gaps.                                                              *)
SortingsOf(f) ==
  {t \in {[k \in 1..Cardinality(DOMAIN f) |-> f[p[k]]] :
            p \in Bijection(1..Cardinality(DOMAIN f), DOMAIN f)} :
     \A k, l \in DOMAIN t : k < l => ~ Before(t[l], t[k])}

Clip(i, window) ==
  LET start == Larger(i.start, window.start)
      end   == Smaller(i.end, window.end)
  IN  IF end <= start THEN None ELSE [start |-> start, end |-> end]

(* Mutant: the later interval always ends later. *)
UnionStepForgetsContained(merged, current) ==
  LET n == Len(merged)
  IN  IF n > 0 /\ current.start <= merged[n].end
        THEN [merged EXCEPT ![n].end = current.end]
        ELSE Append(merged, current)

(* The list that union() has merged so far, after one more interval of the *)
(* sorted input. Adjacent intervals are merged too.                        *)
UnionStep(merged, current) ==
  LET n == Len(merged)
  IN  IF n > 0 /\ current.start <= merged[n].end
        THEN [merged EXCEPT ![n].end = Larger(@, current.end)]
        ELSE Append(merged, current)

(* Mutant: also keeps what is empty. *)
SubtractStepKeepsEmpty(remaining, cursor, clipped) ==
  IF clipped.start >= cursor
    THEN Append(remaining, [start |-> cursor, end |-> clipped.start])
    ELSE remaining

(* What subtract() has left of the base after one more block to remove. *)
SubtractStep(remaining, cursor, clipped) ==
  IF clipped.start > cursor
    THEN Append(remaining, [start |-> cursor, end |-> clipped.start])
    ELSE remaining

(* What subtract() returns: the tail of the base, if any, comes last. *)
WithTail(remaining, cursor, base) ==
  IF cursor < base.end
    THEN Append(remaining, [start |-> cursor, end |-> base.end])
    ELSE remaining

(* Sorted, disjoint and not even adjacent. *)
Separated(s) ==
  \A k, l \in DOMAIN s : k < l => s[k].end < s[l].start
==============================================================================
