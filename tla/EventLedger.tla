---------------------------- MODULE EventLedger ----------------------------
(***************************************************************************)
(* What the downtime write API promises its clients: a ledger whose rows   *)
(* are recorded once per idempotency key and then only corrected, one      *)
(* correction at a time, each leaving exactly its own difference in the    *)
(* audit log and moving updated_at forward.  There are no requests, locks, *)
(* transactions or retries here: DowntimeEvents is shown to implement it.  *)
(***************************************************************************)
EXTENDS DowntimeRows

CONSTANT Ids           (* identities a row of downtime_event may take *)

VARIABLES
  event,               (* Ids -> Row \union {None}: the downtime_event table     *)
  audit                (* Ids -> Seq: the audit_log rows of each event, in order *)

lvars == <<event, audit>>

Init ==
  /\ event = [id \in Ids |-> None]
  /\ audit = [id \in Ids |-> << >>]

KeyUnused(key) ==
  key = NoKey \/ \A id \in Ids : event[id] # None => event[id].key # key

Record(id) ==
  LET row == event'[id] IN
  /\ event[id] = None
  /\ row \in Row
  /\ SatisfiesConstraints(row.val)
  /\ KeyUnused(row.key)
  /\ event' = [event EXCEPT ![id] = row]
  /\ UNCHANGED audit

Correct(id) ==
  LET old == event[id]
      row == event'[id] IN
  /\ old # None
  /\ row \in Row
  /\ SatisfiesConstraints(row.val)
  /\ row.key = old.key
  /\ row.val # old.val
  /\ row.val["line_id"] = old.val["line_id"]
  /\ row.updated_at > old.updated_at
  /\ event' = [event EXCEPT ![id] = row]
  /\ \E by \in Ids :
       audit' = [audit EXCEPT ![id] =
                   Append(@, [by |-> by, changed |-> Difference(old.val, row.val)])]

Next == \E id \in Ids : Record(id) \/ Correct(id)

Spec == Init /\ [][Next]_lvars

-----------------------------------------------------------------------------
(* The log explains the row: for every field, each audited new value is    *)
(* the old value of the next entry that touches the field, and the last    *)
(* one is the value now in the row (audit_log written by                   *)
(* update_downtime_event in the transaction of its conditional UPDATE).    *)
AuditChain ==
  \A id \in Ids, f \in Fields : \A i \in DOMAIN audit[id] :
    LET Touches(j) == audit[id][j].changed[f] # None IN
    Touches(i) =>
      /\ (\A j \in DOMAIN audit[id] : j > i => ~Touches(j))
           => event[id].val[f] = audit[id][i].changed[f][2]
      /\ \A j \in DOMAIN audit[id] :
           /\ j > i
           /\ Touches(j)
           /\ \A k \in DOMAIN audit[id] : i < k /\ k < j => ~Touches(k)
           => audit[id][j].changed[f][1] = audit[id][i].changed[f][2]

(* Two different rows never carry the same idempotency key: what the       *)
(* UNIQUE(source, external_id) index of downtime_event promises.           *)
OneRowPerKey ==
  \A i, j \in Ids :
    /\ event[i] # None
    /\ event[j] # None
    /\ event[i].key = event[j].key
    /\ event[i].key # NoKey
    => i = j

=============================================================================
