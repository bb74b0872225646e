----------------------------- MODULE MCOeeQuery -----------------------------
(***************************************************************************)
(* Three ticks in a second, days of six seconds with three shifts of two;  *)
(* buckets of a second and one an operator recorded across a shift         *)
(* boundary; stops with parts of seconds that are open, overlap, are       *)
(* planned, or reach from shift to shift, and PATCHes that close, reopen,  *)
(* move and reclassify them.                                               *)
(***************************************************************************)
EXTENDS OeeQuery

MCShiftStart == [A |-> 3, B |-> 9, C |-> 15]

Record(s, e, total, good, source) ==
  [start |-> s, end |-> e, total |-> total, good |-> good, source |-> source]

MCRecordDrafts ==
  {Record(18, 21, 1, 1, "live"), Record(21, 24, 2, 1, "live"), Record(24, 27, 1, 0, "live"),
   Record(24, 30, 1, 1, "operator")}

Event(s, e, reason, planned, source) ==
  [start |-> s, end |-> e, reason |-> reason, is_planned |-> planned, source |-> source]

MCEventDrafts ==
  {Event(12, 23, 1, FALSE, "live"), Event(23, None, 2, FALSE, "live"),
   Event(26, 30, 1, TRUE, "operator")}

MCPatches == {[end |-> 25], [end |-> None], [start |-> 22], [is_planned |-> TRUE, reason |-> 1]}

MCWindows == {Window(18, 27), Window(21, 21), Window(3, 27)}
=============================================================================
