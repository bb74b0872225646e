--------------------------- MODULE DowntimeEvents ---------------------------
(***************************************************************************)
(* POST and PATCH /api/v1/downtime-events: the handlers of                 *)
(* paro.api.routers.downtime with the repository functions they call.      *)
(*                                                                         *)
(* The handlers are sync functions that FastAPI runs in a thread pool, so  *)
(* each delivered request is a process; one action is one stretch of a     *)
(* handler between two accesses to data another request can change.  The   *)
(* database is PostgreSQL under READ COMMITTED: a statement sees what is   *)
(* committed when it runs, and a write waits for the transaction that      *)
(* holds its row or its unique key.                                        *)
(*                                                                         *)
(* A client operation o (one POST or one PATCH that somebody wants done)   *)
(* is delivered up to MaxAttempts[o] times, always with the same body:     *)
(* clients resend when no answer comes, while the first delivery may still *)
(* be running.  The primary key of a row is the request that inserted it.  *)
(***************************************************************************)
EXTENDS DowntimeRows

CONSTANTS
  Ops,              (* client operations                                      *)
  MaxAttempts,      (* Ops -> the deliveries an operation may have            *)
  PostBodies,       (* [key, val] a client may POST                           *)
  PatchChanges,     (* change sets a client may PATCH: field -> new value     *)
  LineIds,          (* rows of production_line                                *)
  ReasonIds,        (* rows of downtime_reason                                *)
  UniqueStamps      (* no two calls of datetime.now(UTC) return the same time *)

ASSUME BodiesAreTyped ==
  /\ MaxAttempts \in [Ops -> Nat \ {0}]
  /\ PostBodies \subseteq [key : Keys \union {NoKey}, val : Values]
  /\ PatchChanges \subseteq Changes
  /\ UniqueStamps \in BOOLEAN

Requests == UNION {{o} \X (1..MaxAttempts[o]) : o \in Ops}

Op(r) == r[1]

VARIABLES
  event,            (* Requests -> Row \union {None}: committed downtime_event *)
  audit,            (* Requests -> Seq: committed audit_log rows of each event *)
  clock,            (* what datetime.now(UTC) returns next                     *)
  body,             (* Ops -> the JSON body the client sends, None before      *)
  pc,               (* Requests -> where the handler is                        *)
  local,            (* Requests -> the handler's local variables               *)
  write,            (* Requests -> the uncommitted write of its transaction    *)
  reply             (* Requests -> the HTTP response it sent                   *)

vars == <<event, audit, clock, body, pc, local, write, reply>>

Ledger == INSTANCE EventLedger WITH Ids <- Requests

Active == {"sent", "insert", "conflict", "update", "stale", "commit", "respond"}

(* Answered; dead before its transaction was over; dead after that.        *)
Ended == {"done", "failed", "lost"}

Reply == [status : {200, 201, 404, 409, 422, 500}, row : Row \union {None}]

Local == [id : Requests, stamp : Nat, diff : Diff, status : {200, 201}]

Write == [id : Requests, row : Row, diff : Diff]

PostBody == [kind : {"post"}, key : Keys \union {NoKey}, val : Values]

PatchBody == [kind : {"patch"}, id : Requests, expected : Nat, changes : Changes]

AuditEntry == [by : Requests, changed : Diff]

ASSUME NoneIsNoRecord == None \notin PostBody \union PatchBody \union Write \union Reply

TypeOK ==
  /\ event \in [Requests -> Row \union {None}]
  /\ audit \in [Requests -> Seq(AuditEntry)]
  /\ clock \in Nat
  /\ body \in [Ops -> PostBody \union PatchBody \union {None}]
  /\ pc \in [Requests -> Active \union {"idle"} \union Ended]
  /\ local \in [Requests -> Local]
  /\ write \in [Requests -> Write \union {None}]
  /\ reply \in [Requests -> Reply \union {None}]

FreshLocal(r) == [id |-> r, stamp |-> 0, diff |-> NoDiff, status |-> 200]

Init ==
  /\ event = [r \in Requests |-> None]
  /\ audit = [r \in Requests |-> << >>]
  /\ clock = 1
  /\ body = [o \in Ops |-> None]
  /\ pc = [r \in Requests |-> "idle"]
  /\ local = [r \in Requests |-> FreshLocal(r)]
  /\ write = [r \in Requests |-> None]
  /\ reply = [r \in Requests |-> None]

-----------------------------------------------------------------------------
(* The clients.                                                            *)

(* An id no row has, or the id of a committed row the client has read      *)
(* together with its updated_at.                                           *)
SendPatch(o) ==
  \E c \in PatchChanges, id \in Requests :
    /\ event[id] # None \/ id = <<o, 1>>
    /\ body' = [body EXCEPT ![o] =
         [kind |-> "patch", id |-> id, changes |-> c,
          expected |-> IF event[id] = None THEN clock ELSE event[id].updated_at]]

SendPost(o) ==
  \E b \in PostBodies :
    body' = [body EXCEPT ![o] = [kind |-> "post", key |-> b.key, val |-> b.val]]

Send(o) ==
  /\ body[o] = None
  /\ SendPost(o) \/ SendPatch(o)
  /\ pc' = [pc EXCEPT ![<<o, 1>>] = "sent"]
  /\ UNCHANGED <<event, audit, clock, local, write, reply>>

(* No response in time, or a transport error: the same body again.  The    *)
(* delivery given up may still be running on the server, or be done.       *)
Resend(o) ==
  \E n \in 2..MaxAttempts[o] :
    /\ pc[<<o, n - 1>>] \in Active \union {"failed", "lost"}
    /\ pc[<<o, n>>] = "idle"
    /\ pc' = [pc EXCEPT ![<<o, n>>] = "sent"]
    /\ UNCHANGED <<event, audit, clock, body, local, write, reply>>

-----------------------------------------------------------------------------
(* Steps of a handler.                                                     *)

Body(r) == body[Op(r)]

Goto(r, label) == pc' = [pc EXCEPT ![r] = label]

SetLocal(r, id, stamp, diff, status) ==
  local' = [local EXCEPT ![r] =
              [id |-> id, stamp |-> stamp, diff |-> diff, status |-> status]]

(* The response is sent. *)
Finish(r, status, row) ==
  /\ Goto(r, "done")
  /\ reply' = [reply EXCEPT ![r] = [status |-> status, row |-> row]]

(* datetime.now(UTC) *)
TakeStamp == clock' \in IF UniqueStamps THEN {clock + 1} ELSE {clock, clock + 1}

RowsWithKey(k) == {id \in Requests : event[id] # None /\ event[id].key = k}

(* A transaction in flight has written a row with this key, or this row: a *)
(* write that needs it waits for that transaction to end.                  *)
KeyLocked(k) == \E q \in Requests : write[q] # None /\ write[q].row.key = k

RowLocked(id) == \E q \in Requests : write[q] # None /\ write[q].id = id

KnownReferences(val) == val["line_id"] \in LineIds /\ val["reason_id"] \in ReasonIds

PostReceive(r) ==
  LET val == Body(r).val IN
  /\ pc[r] = "sent"
  /\ Body(r).kind = "post"
  /\ \/ /\ ~ValidPeriod(val)
        /\ Finish(r, 422, None)
        /\ UNCHANGED <<local, clock>>
     \/ /\ ValidPeriod(val)
        /\ ~KnownReferences(val)
        /\ Finish(r, 404, None)
        /\ UNCHANGED <<local, clock>>
     \/ /\ ValidPeriod(val)
        /\ KnownReferences(val)
        /\ SetLocal(r, r, clock, NoDiff, 200)
        /\ TakeStamp
        /\ Goto(r, "insert")
        /\ UNCHANGED reply
  /\ UNCHANGED <<event, audit, body, write>>

(* Mutant: the key is looked up instead of relying on the unique index. *)
PostInsertLooksUp(r) ==
  LET b == Body(r)
      row == [key |-> b.key, val |-> b.val, updated_at |-> local[r].stamp] IN
  /\ pc[r] = "insert"
  /\ b.key = NoKey \/ RowsWithKey(b.key) = {}
  /\ write' = [write EXCEPT ![r] = [id |-> r, row |-> row, diff |-> NoDiff]]
  /\ SetLocal(r, r, local[r].stamp, NoDiff, 201)
  /\ Goto(r, "commit")
  /\ UNCHANGED <<event, audit, clock, body, reply>>

(* Mutant: INSERT ... ON CONFLICT DO UPDATE. *)
PostInsertUpserts(r) ==
  LET b == Body(r)
      row == [key |-> b.key, val |-> b.val, updated_at |-> local[r].stamp]
      id == IF b.key = NoKey \/ RowsWithKey(b.key) = {} THEN r
            ELSE CHOOSE i \in Requests : i \in RowsWithKey(b.key) IN
  /\ pc[r] = "insert"
  /\ b.key # NoKey => ~KeyLocked(b.key)
  /\ write' = [write EXCEPT ![r] = [id |-> id, row |-> row, diff |-> NoDiff]]
  /\ SetLocal(r, id, local[r].stamp, NoDiff, 200)
  /\ Goto(r, "commit")
  /\ UNCHANGED <<event, audit, clock, body, reply>>

(* INSERT in a SAVEPOINT; a unique violation rolls the savepoint back. *)
PostInsert(r) ==
  LET b == Body(r)
      row == [key |-> b.key, val |-> b.val, updated_at |-> local[r].stamp] IN
  /\ pc[r] = "insert"
  /\ b.key # NoKey => ~KeyLocked(b.key)
  /\ \/ /\ b.key # NoKey
        /\ RowsWithKey(b.key) # {}
        /\ local' = [local EXCEPT ![r] = FreshLocal(r)]
        /\ Goto(r, "conflict")
        /\ UNCHANGED write
     \/ /\ b.key = NoKey \/ RowsWithKey(b.key) = {}
        /\ write' = [write EXCEPT ![r] = [id |-> r, row |-> row, diff |-> NoDiff]]
        /\ SetLocal(r, r, local[r].stamp, NoDiff, 201)
        /\ Goto(r, "commit")
  /\ UNCHANGED <<event, audit, clock, body, reply>>

(* Mutant: every repeated key is a conflict. *)
PostConflictAlways(r) ==
  LET existing == CHOOSE id \in Requests : id \in RowsWithKey(Body(r).key) IN
  /\ pc[r] = "conflict"
  /\ Finish(r, 409, event[existing])
  /\ UNCHANGED <<event, audit, clock, body, local, write>>

(* The row that caused the violation is read again and compared. *)
PostConflict(r) ==
  LET existing == CHOOSE id \in Requests : id \in RowsWithKey(Body(r).key) IN
  /\ pc[r] = "conflict"
  /\ \/ /\ event[existing].val # Body(r).val
        /\ Finish(r, 409, event[existing])
        /\ UNCHANGED local
     \/ /\ event[existing].val = Body(r).val
        /\ SetLocal(r, existing, 0, NoDiff, 200)
        /\ Goto(r, "respond")
        /\ UNCHANGED reply
  /\ UNCHANGED <<event, audit, clock, body, write>>

(* Mutant: an explicit null is not refused. *)
PatchVerdictAcceptsNull(row, b) ==
  IF row = None THEN 404
  ELSE IF b.changes["reason_id"] \notin ReasonIds \union {None, Null} THEN 404
  ELSE IF b.changes["started_at"] = Null \/ ~ValidPeriod(Merged(row.val, b.changes))
    THEN 422
  ELSE IF row.updated_at # b.expected THEN 409
  ELSE 200

(* The checks of the PATCH handler on the row it has read, in their order. *)
PatchVerdict(row, b) ==
  IF row = None THEN 404
  ELSE IF \E f \in NotNullableFields : b.changes[f] = Null THEN 422
  ELSE IF b.changes["reason_id"] \notin ReasonIds \union {None, Null} THEN 404
  ELSE IF ~ValidPeriod(Merged(row.val, b.changes)) THEN 422
  ELSE IF row.updated_at # b.expected THEN 409
  ELSE 200

(* db.get(DowntimeEvent, id) and everything up to the conditional UPDATE. *)
PatchRead(r) ==
  LET b == Body(r)
      row == event[b.id]
      diff == ChangedFields(row.val, b.changes)
      verdict == PatchVerdict(row, b) IN
  /\ pc[r] = "sent"
  /\ b.kind = "patch"
  /\ \/ /\ verdict # 200
        /\ Finish(r, verdict, IF verdict = 409 THEN row ELSE None)
        /\ UNCHANGED <<local, clock>>
     \/ /\ verdict = 200
        /\ diff = NoDiff
        /\ SetLocal(r, b.id, 0, NoDiff, 200)
        /\ Goto(r, "respond")
        /\ UNCHANGED <<reply, clock>>
     \/ /\ verdict = 200
        /\ diff # NoDiff
        /\ SetLocal(r, b.id, clock, diff, 200)
        /\ TakeStamp
        /\ Goto(r, "update")
        /\ UNCHANGED reply
  /\ UNCHANGED <<event, audit, body, write>>

(* Mutant: UPDATE ... WHERE id = :id, trusting the check on the row read. *)
PatchUpdateBlind(r) ==
  LET id == local[r].id
      current == event[id]
      new == [key |-> current.key, val |-> Patched(current.val, local[r].diff),
              updated_at |-> local[r].stamp] IN
  /\ pc[r] = "update"
  /\ ~RowLocked(id)
  /\ SatisfiesConstraints(new.val)
  /\ write' = [write EXCEPT ![r] = [id |-> id, row |-> new, diff |-> local[r].diff]]
  /\ Goto(r, "commit")
  /\ UNCHANGED <<event, audit, clock, body, local, reply>>

(* UPDATE ... WHERE id = :id AND updated_at = :expected, with the AuditLog *)
(* row in the same transaction.  A row the table's constraints refuse is   *)
(* an unhandled IntegrityError.                                            *)
PatchUpdate(r) ==
  LET id == local[r].id
      current == event[id]
      new == [key |-> current.key, val |-> Patched(current.val, local[r].diff),
              updated_at |-> local[r].stamp] IN
  /\ pc[r] = "update"
  /\ ~RowLocked(id)
  /\ \/ /\ current.updated_at # Body(r).expected
        /\ Goto(r, "stale")
        /\ UNCHANGED <<write, reply>>
     \/ /\ current.updated_at = Body(r).expected
        /\ ~SatisfiesConstraints(new.val)
        /\ Finish(r, 500, None)
        /\ UNCHANGED write
     \/ /\ current.updated_at = Body(r).expected
        /\ SatisfiesConstraints(new.val)
        /\ write' = [write EXCEPT ![r] = [id |-> id, row |-> new, diff |-> local[r].diff]]
        /\ Goto(r, "commit")
        /\ UNCHANGED reply
  /\ UNCHANGED <<event, audit, clock, body, local>>

(* No row matched: updated_at is selected again for the error. *)
PatchStale(r) ==
  /\ pc[r] = "stale"
  /\ Finish(r, 409, event[local[r].id])
  /\ UNCHANGED <<event, audit, clock, body, local, write>>

(* Mutant: the router forgets db.commit(). *)
CommitForgotten(r) ==
  /\ pc[r] = "commit"
  /\ write' = [write EXCEPT ![r] = None]
  /\ Goto(r, "respond")
  /\ UNCHANGED <<event, audit, clock, body, local, reply>>

(* Mutant: the correction is not audited. *)
CommitUnaudited(r) ==
  /\ pc[r] = "commit"
  /\ event' = [event EXCEPT ![write[r].id] = write[r].row]
  /\ write' = [write EXCEPT ![r] = None]
  /\ Goto(r, "respond")
  /\ UNCHANGED <<audit, clock, body, local, reply>>

(* Mutant: the audit log gets the request's changes, not the differences. *)
CommitLogsChanges(r) ==
  LET w == write[r] IN
  /\ pc[r] = "commit"
  /\ event' = [event EXCEPT ![w.id] = w.row]
  /\ audit' = IF Body(r).kind = "patch"
                THEN [audit EXCEPT ![w.id] =
                        Append(@, [by |-> r, changed |-> Body(r).changes])]
                ELSE audit
  /\ write' = [write EXCEPT ![r] = None]
  /\ Goto(r, "respond")
  /\ UNCHANGED <<clock, body, local, reply>>

(* db.commit(): the write becomes visible and its locks are released. *)
Commit(r) ==
  LET w == write[r] IN
  /\ pc[r] = "commit"
  /\ event' = [event EXCEPT ![w.id] = w.row]
  /\ audit' = IF Body(r).kind = "patch"
                THEN [audit EXCEPT ![w.id] = Append(@, [by |-> r, changed |-> w.diff])]
                ELSE audit
  /\ write' = [write EXCEPT ![r] = None]
  /\ Goto(r, "respond")
  /\ UNCHANGED <<clock, body, local, reply>>

(* The commit expired the ORM object, so building the response reads the   *)
(* row again.                                                              *)
Respond(r) ==
  /\ pc[r] = "respond"
  /\ Finish(r, local[r].status, event[local[r].id])
  /\ UNCHANGED <<event, audit, clock, body, local, write>>

DiesAs(r) == IF pc[r] = "respond" THEN "lost" ELSE "failed"

(* Mutant: the session of a failed request is never closed. *)
FailKeepsTransaction(r) ==
  /\ pc[r] \in Active
  /\ Goto(r, DiesAs(r))
  /\ UNCHANGED <<event, audit, clock, body, local, write, reply>>

(* Mutant: the session of a failed request is committed when it is closed. *)
FailCommits(r) ==
  /\ pc[r] \in Active
  /\ Goto(r, DiesAs(r))
  /\ event' = IF write[r] = None THEN event
              ELSE [event EXCEPT ![write[r].id] = write[r].row]
  /\ write' = [write EXCEPT ![r] = None]
  /\ UNCHANGED <<audit, clock, body, local, reply>>

(* The process dies, a connection drops, the request never arrives or the  *)
(* response is lost: an open transaction is rolled back, a committed one   *)
(* stays.                                                                  *)
Fail(r) ==
  /\ pc[r] \in Active
  /\ Goto(r, DiesAs(r))
  /\ local' = [local EXCEPT ![r] = FreshLocal(r)]
  /\ write' = [write EXCEPT ![r] = None]
  /\ UNCHANGED <<event, audit, clock, body, reply>>

Handle(r) ==
  \/ PostReceive(r)
  \/ PostInsert(r)
  \/ PostConflict(r)
  \/ PatchRead(r)
  \/ PatchUpdate(r)
  \/ PatchStale(r)
  \/ Commit(r)
  \/ Respond(r)

(* Nothing is in flight and nothing is left to send. *)
Quiet ==
  /\ \A o \in Ops : body[o] # None
  /\ \A r \in Requests : pc[r] \in {"idle"} \union Ended
  /\ UNCHANGED vars

Next ==
  \/ \E o \in Ops : Send(o) \/ Resend(o)
  \/ \E r \in Requests : Handle(r) \/ Fail(r)
  \/ Quiet

Spec == Init /\ [][Next]_vars

(* The thread pool runs every handler on until it answers or dies. *)
FairSpec == Spec /\ \A r \in Requests : WF_vars(Handle(r))

-----------------------------------------------------------------------------
(* Every committed row is created or corrected the way the ledger allows:  *)
(* no correction is lost or audited wrongly, whatever happens between the  *)
(* handler's read of the row and its conditional UPDATE.                   *)
LedgerSpec == Ledger!Spec

(* The UNIQUE index holds on what is committed: two deliveries of one POST *)
(* racing through create_downtime_event leave one row.                     *)
OneRowPerKey == Ledger!OneRowPerKey

(* The audit log of an event leads to the values in its row.               *)
AuditChain == Ledger!AuditChain

(* However often a PATCH is delivered, update_downtime_event applies it at *)
(* most once: the token of a resent body is spent.                         *)
AppliedAtMostOnce ==
  \A o \in Ops, i, j \in Requests :
    \A m \in DOMAIN audit[i], n \in DOMAIN audit[j] :
      Op(audit[i][m].by) = o /\ Op(audit[j][n].by) = o => i = j /\ m = n

(* A 409 of update_downtime_event never contradicts itself: the row it     *)
(* reports is strictly newer than the version the client expected.         *)
StaleReportsANewerRow ==
  \A r \in Requests :
    /\ reply[r] # None
    /\ reply[r].status = 409
    /\ Body(r).kind = "patch"
    => reply[r].row.updated_at > Body(r).expected

(* The CHECK on the period never fires: the validation of the PATCH, done  *)
(* on the row as it was read, still holds of the row that is updated.      *)
NoServerError == \A r \in Requests : reply[r] # None => reply[r].status # 500

(* A success is durable and visible: the row of the response is in the     *)
(* table, at that version or a later one, and a row or correction the      *)
(* request wrote is at or before it.                                       *)
SuccessIsDurable ==
  \A r \in Requests :
    reply[r] # None /\ reply[r].status \in {200, 201} =>
      LET id == local[r].id IN
      /\ event[id] # None
      /\ reply[r].row # None
      /\ reply[r].row.updated_at <= event[id].updated_at
      /\ reply[r].row.updated_at = event[id].updated_at => reply[r].row = event[id]
      /\ reply[r].status = 201 \/ local[r].diff # NoDiff
           => reply[r].row.updated_at >= local[r].stamp
      /\ Body(r).kind = "post" => reply[r].row.key = Body(r).key

(* A delivery that was refused, or died before its transaction was over,   *)
(* leaves nothing behind, then or later: no row, no audit entry, no lock.  *)
RefusedLeavesNoTrace ==
  \A r \in Requests :
    pc[r] = "failed" \/ (reply[r] # None /\ reply[r].status \notin {200, 201}) =>
      /\ event[r] = None
      /\ write[r] = None
      /\ \A id \in Requests : \A n \in DOMAIN audit[id] : audit[id][n].by # r

(* A POST that repeats the body a row was created from conflicts only if   *)
(* that row has been corrected since.                                      *)
ConflictMeansCorrected ==
  \A r, q \in Requests :
    /\ reply[r] # None
    /\ reply[r].status = 409
    /\ Body(r).kind = "post"
    /\ event[q] # None
    /\ Body(q) = Body(r)
    => audit[q] # << >>

(* Whatever the locks held by others, a handler that has started ends.     *)
HandlersFinish ==
  \A r \in Requests : pc[r] = "sent" ~> pc[r] \in Ended

(* repositories.py: "the same key with the same payload returns the        *)
(* existing row without an exception".                                     *)
SamePayloadReturnsExisting ==
  \A r, q \in Requests :
    /\ reply[r] # None
    /\ Body(r).kind = "post"
    /\ event[q] # None
    /\ Body(q) = Body(r)
    => reply[r].status # 409

(* StaleUpdateError: "someone else updated the row between the caller      *)
(* reading it and submitting this PATCH".                                  *)
StaleMeansSomeoneElse ==
  \A r \in Requests :
    /\ reply[r] # None
    /\ reply[r].status = 409
    /\ Body(r).kind = "patch"
    => \E n \in DOMAIN audit[Body(r).id] : Op(audit[Body(r).id][n].by) # Op(r)

=============================================================================
