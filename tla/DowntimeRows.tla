---------------------------- MODULE DowntimeRows ----------------------------
(***************************************************************************)
(* The data of the downtime_event and audit_log tables (paro.db.models).   *)
(* "reason_id" stands for all the patchable columns that no rule but their *)
(* foreign key constrains (machine_id, reason_id, is_planned and           *)
(* operator_note), "line_id" for the column a PATCH can never touch.       *)
(***************************************************************************)
EXTENDS Naturals, Sequences

CONSTANTS
  Keys,       (* values of the idempotency key (source, external_id)         *)
  NoKey,      (* source or external_id is NULL: not in the unique index      *)
  Null,       (* SQL NULL / Python None in a column                          *)
  None        (* no row, no write, no reply                                  *)


Fields == {"line_id", "started_at", "ended_at", "reason_id"}

PatchableFields == {"started_at", "ended_at", "reason_id"}

NotNullableFields == {"started_at", "reason_id"}

Value == Nat \union {Null}

(* ended_at is the only nullable column among Fields. *)
Values == {v \in [Fields -> Value] : \A f \in Fields \ {"ended_at"} : v[f] # Null}

Row == [key : Keys \union {NoKey}, val : Values, updated_at : Nat]

ASSUME MarkersAreDistinct ==
  /\ NoKey \notin Keys
  /\ Null \notin Nat
  /\ None \notin Value \union (Value \X Value) \union Row

(* For each field <<old, new>>, or None if the field keeps its value. *)
Diff == [Fields -> (Value \X Value) \union {None}]

NoDiff == [f \in Fields |-> None]

(* For each field the new value, or None if the request does not send it. *)
Changes == [PatchableFields -> Value \union {None}]

ValidPeriod(val) ==
  val["ended_at"] # Null => val["ended_at"] > val["started_at"]

(* The CHECK and NOT NULL constraints of the table. *)
SatisfiesConstraints(val) == val \in Values /\ ValidPeriod(val)

(* The fields in which new differs from old, as audit_log stores them. *)
Difference(old, new) ==
  [f \in Fields |-> IF new[f] = old[f] THEN None ELSE <<old[f], new[f]>>]

(* The fields a request sends with a value that differs from val. *)
ChangedFields(val, changes) ==
  [f \in Fields |->
     IF f \in PatchableFields /\ changes[f] \notin {None, val[f]}
       THEN <<val[f], changes[f]>>
       ELSE None]

(* val as it would be with the fields a request sends. *)
Merged(val, changes) ==
  [f \in Fields |->
     IF f \in PatchableFields /\ changes[f] # None THEN changes[f] ELSE val[f]]

(* val with the new values of diff written over it. *)
Patched(val, diff) ==
  [f \in Fields |-> IF diff[f] = None THEN val[f] ELSE diff[f][2]]

=============================================================================
