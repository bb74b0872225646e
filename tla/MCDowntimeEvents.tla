-------------------------- MODULE MCDowntimeEvents --------------------------
(* Small instances of DowntimeEvents for TLC. *)
EXTENDS DowntimeEvents, TLC

CONSTANTS k1, o1, o2, o3

Payload(started, ended) ==
  [line_id |-> 1, started_at |-> started, ended_at |-> ended, reason_id |-> 1]

MCKeys == {k1}

(* An open event, the same one already closed, and one without a key. *)
MCPostBodies ==
  {[key |-> k1, val |-> Payload(1, Null)],
   [key |-> k1, val |-> Payload(1, 3)],
   [key |-> NoKey, val |-> Payload(1, Null)]}

NoChange == [f \in PatchableFields |-> None]

MCKeyedBodies == {b \in MCPostBodies : b.key # NoKey}

(* Closing the event, moving its start, and both ends of a write skew. *)
MCPatchChanges ==
  {[NoChange EXCEPT !["ended_at"] = 3],
   [NoChange EXCEPT !["ended_at"] = 2],
   [NoChange EXCEPT !["started_at"] = 2]}

(* The bodies the handlers refuse. *)
MCBadPostBodies ==
  MCPostBodies \union
  {[key |-> k1, val |-> Payload(2, 1)],
   [key |-> k1, val |-> [Payload(1, Null) EXCEPT !["reason_id"] = 9]]}

MCBadPatchChanges ==
  MCPatchChanges \union
  {[NoChange EXCEPT !["started_at"] = Null],
   [NoChange EXCEPT !["reason_id"] = Null],
   [NoChange EXCEPT !["reason_id"] = 9],
   [NoChange EXCEPT !["ended_at"] = 1]}

(* One open event, and the two corrections that cannot both be right. *)
MCOpenEvent == {[key |-> k1, val |-> Payload(1, Null)]}

MCWriteSkew ==
  {[NoChange EXCEPT !["ended_at"] = 2], [NoChange EXCEPT !["started_at"] = 2]}

MCClosing == {[NoChange EXCEPT !["ended_at"] = 3]}

MCOnce == [o \in Ops |-> 1]

(* Only o1 is delivered twice. *)
MCRetried == [o \in Ops |-> IF o = o1 THEN 2 ELSE 1]

Symmetry == Permutations(Ops)

RetrySymmetry == Permutations(Ops \ {o1})
=============================================================================
