------------------------ MODULE DowntimeEventsProofs ------------------------
(***************************************************************************)
(* Proofs about DowntimeEvents, for any number of client operations,       *)
(* deliveries, keys and payloads.                                          *)
(***************************************************************************)
EXTENDS DowntimeEvents, TLAPS

-----------------------------------------------------------------------------
(* Facts about the data.                                                   *)

LEMMA RequestFacts ==
  /\ \A r \in Requests : Op(r) \in Ops
  /\ \A o \in Ops : <<o, 1>> \in Requests
  /\ \A o \in Ops, n \in Nat : n \in 2..MaxAttempts[o] =>
       <<o, n>> \in Requests /\ <<o, n - 1>> \in Requests
BY BodiesAreTyped DEF Requests, Op

LEMMA NoDiffIsADiff == NoDiff \in Diff
BY DEF NoDiff, Diff

LEMMA FreshLocalIsALocal == \A r \in Requests : FreshLocal(r) \in Local
BY NoDiffIsADiff DEF FreshLocal, Local

(* The changes a request makes to a row are well formed, and writing them  *)
(* over the row gives the row merged with the request.                     *)
LEMMA ChangedFieldsFacts ==
  ASSUME NEW val \in Values, NEW changes \in Changes
  PROVE  /\ ChangedFields(val, changes) \in Diff
         /\ Patched(val, ChangedFields(val, changes)) = Merged(val, changes)
<1>1. /\ val \in [Fields -> Value]
      /\ \A f \in PatchableFields : changes[f] \in Value \union {None}
  BY DEF Values, Changes
<1>2. ChangedFields(val, changes) \in Diff
  BY <1>1 DEF ChangedFields, Diff, PatchableFields
<1>3. ASSUME NEW f \in Fields
      PROVE  (IF ChangedFields(val, changes)[f] = None THEN val[f]
              ELSE ChangedFields(val, changes)[f][2])
             = (IF f \in PatchableFields /\ changes[f] # None THEN changes[f] ELSE val[f])
  <2>1. CASE f \in PatchableFields /\ changes[f] \notin {None, val[f]}
    <3>1. ChangedFields(val, changes)[f] = <<val[f], changes[f]>>
      BY <2>1 DEF ChangedFields
    <3>2. <<val[f], changes[f]>> \in Value \X Value
      BY <1>1, <2>1
    <3>3. <<val[f], changes[f]>> # None
      BY <3>2, MarkersAreDistinct
    <3>4. QED
      BY <2>1, <3>1, <3>3
  <2>2. CASE ~(f \in PatchableFields /\ changes[f] \notin {None, val[f]})
    <3>1. ChangedFields(val, changes)[f] = None
      BY <2>2 DEF ChangedFields
    <3>2. QED
      BY <2>2, <3>1
  <2>3. QED
    BY <2>1, <2>2
<1>4. Patched(val, ChangedFields(val, changes)) = Merged(val, changes)
  BY <1>3 DEF Patched, Merged
<1>5. QED
  BY <1>2, <1>4

-----------------------------------------------------------------------------
(* The strengthening.  ControlInv says what a handler knows at each label, *)
(* KeyInv what the unique index and its locks guarantee; neither depends   *)
(* on the clock.                                                           *)

BodyKnown(r) ==
  /\ pc[r] # "idle" => body[Op(r)] # None
  /\ pc[r] \in {"insert", "conflict"} => Body(r).kind = "post"
  /\ pc[r] \in {"update", "stale"} => Body(r).kind = "patch"

RowKnown(r) ==
  /\ pc[r] = "insert" => local[r].id = r /\ ValidPeriod(Body(r).val)
  /\ pc[r] = "conflict" => RowsWithKey(Body(r).key) # {}
  /\ pc[r] \in {"update", "stale"} => local[r].id = Body(r).id
  /\ pc[r] \in {"update", "stale", "respond"} => event[local[r].id] # None

WriteKnown(r) ==
  /\ write[r] # None <=> pc[r] = "commit"
  /\ pc[r] = "commit" => write[r].id = local[r].id
  /\ pc[r] = "commit" /\ Body(r).kind = "post" =>
       /\ write[r].id = r
       /\ write[r].row.key = Body(r).key
       /\ ValidPeriod(write[r].row.val)
  /\ pc[r] = "commit" /\ Body(r).kind = "patch" =>
       /\ event[write[r].id] # None
       /\ write[r].row.key = event[write[r].id].key
       /\ ValidPeriod(write[r].row.val)

OwnRow(r) ==
  event[r] # None => Body(r).kind = "post" /\ pc[r] \in {"respond", "done", "lost"}

ControlInv ==
  \A r \in Requests : BodyKnown(r) /\ RowKnown(r) /\ WriteKnown(r) /\ OwnRow(r)

(* Writes in flight hold different rows, and a key that is being inserted  *)
(* is neither committed nor being written by anybody else.                 *)
LocksExclude ==
  \A r, q \in Requests :
    r # q /\ write[r] # None /\ write[q] # None =>
      /\ write[r].id # write[q].id
      /\ write[r].row.key = write[q].row.key => write[r].row.key = NoKey

InsertedKeyIsFree ==
  \A r \in Requests :
    pc[r] = "commit" /\ Body(r).kind = "post" =>
      Body(r).key = NoKey \/ RowsWithKey(Body(r).key) = {}

KeyInv == OneRowPerKey /\ LocksExclude /\ InsertedKeyIsFree

-----------------------------------------------------------------------------
(* Type correctness.                                                       *)

LEMMA InitTypeOK == Init => TypeOK
<1> SUFFICES ASSUME Init PROVE TypeOK
  OBVIOUS
<1>1. local \in [Requests -> Local]
  BY FreshLocalIsALocal DEF Init
<1>2. audit \in [Requests -> Seq(AuditEntry)]
  BY DEF Init
<1>3. QED
  BY <1>1, <1>2 DEF Init, TypeOK

(* A body that was sent is a POST or a PATCH. *)
LEMMA BodyTypes ==
  ASSUME TypeOK, NEW r \in Requests, body[Op(r)] # None
  PROVE  /\ Body(r).kind = "post" => Body(r) \in PostBody
         /\ Body(r).kind = "patch" => Body(r) \in PatchBody
         /\ Body(r).kind \in {"post", "patch"}
BY RequestFacts DEF TypeOK, Body, PostBody, PatchBody

LEMMA FinishTypes ==
  ASSUME TypeOK, NEW r \in Requests, NEW row \in Row \union {None},
         NEW status \in {200, 201, 404, 409, 422, 500}, Finish(r, status, row)
  PROVE  /\ pc' \in [Requests -> Active \union {"idle"} \union Ended]
         /\ reply' \in [Requests -> Reply \union {None}]
BY DEF TypeOK, Finish, Goto, Reply, Ended

LEMMA GotoTypes ==
  ASSUME TypeOK, NEW r \in Requests, NEW label \in Active \union {"failed", "lost"},
         Goto(r, label)
  PROVE  pc' \in [Requests -> Active \union {"idle"} \union Ended]
BY DEF TypeOK, Goto, Ended

LEMMA TakeStampTypes == ASSUME clock \in Nat, TakeStamp PROVE clock' \in Nat
BY DEF TakeStamp

LEMMA SetLocalTypes ==
  ASSUME TypeOK, NEW r \in Requests, NEW id \in Requests, NEW stamp \in Nat,
         NEW diff \in Diff, NEW status \in {200, 201},
         SetLocal(r, id, stamp, diff, status)
  PROVE  local' \in [Requests -> Local]
BY DEF TypeOK, SetLocal, Local

(* The record a write variable gets is a write, and so it is not None. *)
LEMMA InsertIsAWrite ==
  ASSUME TypeOK, ControlInv, NEW r \in Requests, pc[r] = "insert"
  PROVE  [id |-> r, diff |-> NoDiff,
          row |-> [key |-> Body(r).key, val |-> Body(r).val,
                   updated_at |-> local[r].stamp]] \in Write
<1>1. Body(r) \in PostBody
  BY BodyTypes DEF ControlInv, BodyKnown
<1>2. [key |-> Body(r).key, val |-> Body(r).val, updated_at |-> local[r].stamp] \in Row
  BY <1>1 DEF PostBody, Row, TypeOK, Local
<1>3. QED
  BY <1>2, NoDiffIsADiff DEF Write

UpdatedRow(r) ==
  [key |-> event[local[r].id].key,
   val |-> Patched(event[local[r].id].val, local[r].diff),
   updated_at |-> local[r].stamp]

LEMMA UpdateIsAWrite ==
  ASSUME TypeOK, ControlInv, NEW r \in Requests, pc[r] = "update",
         SatisfiesConstraints(UpdatedRow(r).val)
  PROVE  [id |-> local[r].id, row |-> UpdatedRow(r), diff |-> local[r].diff] \in Write
<1>1. event[local[r].id] \in Row /\ local[r].id \in Requests
  BY DEF ControlInv, RowKnown, TypeOK, Local
<1>2. UpdatedRow(r) \in Row
  BY <1>1 DEF UpdatedRow, Row, SatisfiesConstraints, TypeOK, Local
<1>3. QED
  BY <1>1, <1>2 DEF Write, TypeOK, Local

(* TypeOK is preserved, given what a handler knows at each label. *)
LEMMA NextTypeOK ==
  ASSUME TypeOK, ControlInv, [Next]_vars
  PROVE  TypeOK'
<1> USE DEF Active, Ended
<1>1. ASSUME NEW o \in Ops, Send(o)
      PROVE  TypeOK'
  <2>1. <<o, 1>> \in Requests
    BY RequestFacts
  <2>2. pc' \in [Requests -> Active \union {"idle"} \union Ended]
    BY <1>1, <2>1 DEF Send, TypeOK
  <2>3. body' \in [Ops -> PostBody \union PatchBody \union {None}]
    <3>1. CASE SendPost(o)
      BY <3>1, BodiesAreTyped DEF SendPost, TypeOK, PostBody
    <3>2. CASE SendPatch(o)
      <4>1. PICK c \in PatchChanges, id \in Requests :
              body' = [body EXCEPT ![o] =
                [kind |-> "patch", id |-> id, changes |-> c,
                 expected |-> IF event[id] = None THEN clock
                              ELSE event[id].updated_at]]
        BY <3>2 DEF SendPatch
      <4>2. (IF event[id] = None THEN clock ELSE event[id].updated_at) \in Nat
        BY DEF TypeOK, Row
      <4>3. c \in Changes
        BY BodiesAreTyped
      <4>4. QED
        BY <4>1, <4>2, <4>3 DEF TypeOK, PatchBody
    <3>3. QED
      BY <1>1, <3>1, <3>2 DEF Send
  <2>4. QED
    BY <1>1, <2>2, <2>3 DEF Send, TypeOK
<1>2. ASSUME NEW o \in Ops, Resend(o)
      PROVE  TypeOK'
  BY <1>2, RequestFacts DEF Resend, TypeOK
<1>3. ASSUME NEW r \in Requests, PostReceive(r)
      PROVE  TypeOK'
  <2>1. CASE Finish(r, 422, None) /\ UNCHANGED <<local, clock>>
    BY <1>3, <2>1, FinishTypes DEF PostReceive, TypeOK
  <2>2. CASE Finish(r, 404, None) /\ UNCHANGED <<local, clock>>
    BY <1>3, <2>2, FinishTypes DEF PostReceive, TypeOK
  <2>3. CASE /\ SetLocal(r, r, clock, NoDiff, 200)
             /\ TakeStamp
             /\ Goto(r, "insert")
             /\ UNCHANGED reply
    <3>1. local' \in [Requests -> Local]
      BY <2>3, SetLocalTypes, NoDiffIsADiff DEF TypeOK
    <3>2. QED
      BY <1>3, <2>3, <3>1, TakeStampTypes, GotoTypes DEF PostReceive, TypeOK
  <2>4. QED
    BY <1>3, <2>1, <2>2, <2>3 DEF PostReceive
<1>4. ASSUME NEW r \in Requests, PostInsert(r)
      PROVE  TypeOK'
  <2>3. CASE /\ local' = [local EXCEPT ![r] = FreshLocal(r)]
             /\ Goto(r, "conflict")
             /\ UNCHANGED write
    BY <1>4, <2>3, GotoTypes, FreshLocalIsALocal DEF PostInsert, TypeOK
  <2>4. CASE /\ write' = [write EXCEPT ![r] =
                  [id |-> r, diff |-> NoDiff,
                   row |-> [key |-> Body(r).key, val |-> Body(r).val,
                            updated_at |-> local[r].stamp]]]
             /\ SetLocal(r, r, local[r].stamp, NoDiff, 201)
             /\ Goto(r, "commit")
    <3>1. local' \in [Requests -> Local]
      BY <2>4, SetLocalTypes, NoDiffIsADiff DEF TypeOK, Local
    <3>2. write' \in [Requests -> Write \union {None}]
      BY <1>4, <2>4, InsertIsAWrite DEF PostInsert, TypeOK
    <3>3. QED
      BY <1>4, <2>4, <3>1, <3>2, GotoTypes DEF PostInsert, TypeOK
  <2>5. QED
    BY <1>4, <2>3, <2>4 DEF PostInsert
<1>5. ASSUME NEW r \in Requests, PostConflict(r)
      PROVE  TypeOK'
  <2> DEFINE existing == CHOOSE id \in Requests : id \in RowsWithKey(Body(r).key)
  <2>1. RowsWithKey(Body(r).key) # {}
    BY <1>5 DEF PostConflict, ControlInv, RowKnown
  <2>2. existing \in Requests
    BY <2>1 DEF RowsWithKey
  <2>3. CASE Finish(r, 409, event[existing]) /\ UNCHANGED local
    <3>1. event[existing] \in Row \union {None}
      BY <2>2 DEF TypeOK
    <3>2. QED
      BY <1>5, <2>3, <3>1, FinishTypes DEF PostConflict, TypeOK
  <2>4. CASE /\ SetLocal(r, existing, 0, NoDiff, 200)
             /\ Goto(r, "respond")
             /\ UNCHANGED reply
    <3>1. local' \in [Requests -> Local]
      BY <2>2, <2>4, SetLocalTypes, NoDiffIsADiff
    <3>2. QED
      BY <1>5, <2>4, <3>1, GotoTypes DEF PostConflict, TypeOK
  <2>5. QED
    BY <1>5, <2>3, <2>4 DEF PostConflict
<1>6. ASSUME NEW r \in Requests, PatchRead(r)
      PROVE  TypeOK'
  <2> DEFINE b == Body(r)
             row == event[b.id]
             diff == ChangedFields(row.val, b.changes)
             verdict == PatchVerdict(row, b)
  <2>1. b \in PatchBody
    BY <1>6, BodyTypes DEF PatchRead, ControlInv, BodyKnown
  <2>2. b.id \in Requests /\ row \in Row \union {None} /\ b.changes \in Changes
    BY <2>1 DEF PatchBody, TypeOK
  <2>3. verdict \in {200, 404, 409, 422} /\ (row = None => verdict = 404)
    BY DEF PatchVerdict
  <2>4. CASE /\ Finish(r, verdict, IF verdict = 409 THEN row ELSE None)
             /\ UNCHANGED <<local, clock>>
    <3>1. (IF verdict = 409 THEN row ELSE None) \in Row \union {None}
      BY <2>2
    <3>2. /\ pc' \in [Requests -> Active \union {"idle"} \union Ended]
          /\ reply' \in [Requests -> Reply \union {None}]
      BY <2>3, <2>4, <3>1, FinishTypes
    <3>3. QED
      BY <1>6, <2>4, <3>2 DEF PatchRead, TypeOK
  <2>5. CASE /\ SetLocal(r, b.id, 0, NoDiff, 200)
             /\ Goto(r, "respond")
             /\ UNCHANGED <<reply, clock>>
    <3>1. local' \in [Requests -> Local]
      BY <2>2, <2>5, SetLocalTypes, NoDiffIsADiff
    <3>2. QED
      BY <1>6, <2>5, <3>1, GotoTypes DEF PatchRead, TypeOK
  <2>6. CASE /\ verdict = 200
             /\ SetLocal(r, b.id, clock, diff, 200)
             /\ TakeStamp
             /\ Goto(r, "update")
             /\ UNCHANGED reply
    <3>1. row \in Row
      BY <2>2, <2>3, <2>6
    <3>2. row.val \in Values
      BY <3>1 DEF Row
    <3>3. diff \in Diff
      BY <2>2, <3>2, ChangedFieldsFacts
    <3>4. local' \in [Requests -> Local]
      BY <2>2, <2>6, <3>3, SetLocalTypes DEF TypeOK
    <3>5. QED
      BY <1>6, <2>6, <3>4, TakeStampTypes, GotoTypes DEF PatchRead, TypeOK
  <2>7. QED
    BY <1>6, <2>4, <2>5, <2>6 DEF PatchRead
<1>7. ASSUME NEW r \in Requests, PatchUpdate(r)
      PROVE  TypeOK'
  <2>2. CASE Goto(r, "stale") /\ UNCHANGED <<write, reply>>
    BY <1>7, <2>2, GotoTypes DEF PatchUpdate, TypeOK
  <2>3. CASE Finish(r, 500, None) /\ UNCHANGED write
    BY <1>7, <2>3, FinishTypes DEF PatchUpdate, TypeOK
  <2>4. CASE /\ SatisfiesConstraints(UpdatedRow(r).val)
             /\ write' = [write EXCEPT ![r] =
                  [id |-> local[r].id, row |-> UpdatedRow(r), diff |-> local[r].diff]]
             /\ Goto(r, "commit")
             /\ UNCHANGED reply
    <3>1. write' \in [Requests -> Write \union {None}]
      BY <1>7, <2>4, UpdateIsAWrite DEF PatchUpdate, TypeOK
    <3>2. QED
      BY <1>7, <2>4, <3>1, GotoTypes DEF PatchUpdate, TypeOK
  <2>5. QED
    BY <1>7, <2>2, <2>3, <2>4 DEF PatchUpdate, UpdatedRow
<1>8. ASSUME NEW r \in Requests, PatchStale(r)
      PROVE  TypeOK'
  <2>1. event[local[r].id] \in Row \union {None}
    BY DEF TypeOK, Local
  <2>2. QED
    BY <1>8, <2>1, FinishTypes DEF PatchStale, TypeOK
<1>9. ASSUME NEW r \in Requests, Commit(r)
      PROVE  TypeOK'
  <2>1. write[r] \in Write
    BY <1>9 DEF Commit, ControlInv, WriteKnown, TypeOK
  <2>2. event' \in [Requests -> Row \union {None}]
    BY <1>9, <2>1 DEF Commit, TypeOK, Write
  <2>3. [by |-> r, changed |-> write[r].diff] \in AuditEntry
    BY <2>1 DEF AuditEntry, Write
  <2>4. Append(audit[write[r].id], [by |-> r, changed |-> write[r].diff])
          \in Seq(AuditEntry)
    BY <2>1, <2>3 DEF Write, TypeOK
  <2>5. audit' \in [Requests -> Seq(AuditEntry)]
    BY <1>9, <2>1, <2>4 DEF Commit, TypeOK, Write
  <2>6. write' \in [Requests -> Write \union {None}]
    BY <1>9 DEF Commit, TypeOK
  <2>7. QED
    BY <1>9, <2>2, <2>5, <2>6, GotoTypes DEF Commit, TypeOK
<1>10. ASSUME NEW r \in Requests, Respond(r)
       PROVE  TypeOK'
  <2>1. event[local[r].id] \in Row \union {None} /\ local[r].status \in {200, 201}
    BY DEF TypeOK, Local
  <2>2. QED
    BY <1>10, <2>1, FinishTypes DEF Respond, TypeOK
<1>11. ASSUME NEW r \in Requests, Fail(r)
       PROVE  TypeOK'
  BY <1>11, GotoTypes, FreshLocalIsALocal DEF Fail, DiesAs, TypeOK
<1>12. CASE UNCHANGED vars
  BY <1>12 DEF vars, TypeOK
<1>13. QED
  BY <1>1, <1>2, <1>3, <1>4, <1>5, <1>6, <1>7, <1>8, <1>9, <1>10, <1>11, <1>12
     DEF Next, Handle, Quiet

LEMMA VerdictFacts ==
  ASSUME NEW row, NEW b
  PROVE  /\ PatchVerdict(row, b) \in {200, 404, 409, 422}
         /\ PatchVerdict(row, b) = 200 =>
              /\ row # None
              /\ row.updated_at = b.expected
              /\ ValidPeriod(Merged(row.val, b.changes))
              /\ \A f \in NotNullableFields : b.changes[f] # Null
BY DEF PatchVerdict

(* A commit adds its row, and neither removes a row nor changes a key. *)
LEMMA CommitKeepsRows ==
  ASSUME TypeOK, ControlInv, NEW r \in Requests, Commit(r)
  PROVE  /\ write[r] \in Write
         /\ event'[write[r].id] = write[r].row
         /\ write[r].row # None
         /\ \A i \in Requests : i # write[r].id => event'[i] = event[i]
         /\ \A i \in Requests : event[i] # None =>
              event'[i] # None /\ event'[i].key = event[i].key
         /\ \A k : RowsWithKey(k) # {} => RowsWithKey(k)' # {}
<1>1. write[r] \in Write
  BY DEF Commit, ControlInv, WriteKnown, TypeOK
<1>2. write[r].id \in Requests /\ write[r].row \in Row /\ write[r].row # None
  BY <1>1, MarkersAreDistinct DEF Write
<1>3. event' = [event EXCEPT ![write[r].id] = write[r].row]
  BY DEF Commit
<1>4. Body(r).kind \in {"post", "patch"}
  BY BodyTypes DEF Commit, ControlInv, BodyKnown
<1>5. event[write[r].id] # None => write[r].row.key = event[write[r].id].key
  BY <1>4 DEF Commit, ControlInv, WriteKnown, OwnRow
<1>6. \A i \in Requests : event[i] # None =>
        event'[i] # None /\ event'[i].key = event[i].key
  BY <1>2, <1>3, <1>5 DEF TypeOK
<1>7. \A k : RowsWithKey(k) # {} => RowsWithKey(k)' # {}
  BY <1>6 DEF RowsWithKey
<1>8. QED
  BY <1>1, <1>2, <1>3, <1>6, <1>7 DEF TypeOK

(* Only what a handler does to its own label, body and locals matters to   *)
(* what it knows: no step of another handler removes a row or its key.     *)
LEMMA NextControlInv ==
  ASSUME TypeOK, ControlInv, [Next]_vars
  PROVE  ControlInv'
<1> SUFFICES ASSUME NEW q \in Requests
             PROVE  (BodyKnown(q) /\ RowKnown(q) /\ WriteKnown(q) /\ OwnRow(q))'
  BY DEF ControlInv
<1> USE DEF Active, Ended
<1>a. BodyKnown(q) /\ RowKnown(q) /\ WriteKnown(q) /\ OwnRow(q)
  BY DEF ControlInv
<1>b. Op(q) \in Ops
  BY RequestFacts
<1>1. ASSUME NEW o \in Ops, Send(o)
      PROVE  (BodyKnown(q) /\ RowKnown(q) /\ WriteKnown(q) /\ OwnRow(q))'
  <2>1. body'[o] # None
    <3>1. CASE SendPost(o)
      <4>1. PICK b \in PostBodies :
              body' = [body EXCEPT ![o] = [kind |-> "post", key |-> b.key, val |-> b.val]]
        BY <3>1 DEF SendPost
      <4>2. [kind |-> "post", key |-> b.key, val |-> b.val] \in PostBody
        BY BodiesAreTyped DEF PostBody
      <4>3. QED
        BY <4>1, <4>2, NoneIsNoRecord DEF TypeOK
    <3>2. CASE SendPatch(o)
      <4>1. PICK c \in PatchChanges, id \in Requests :
              body' = [body EXCEPT ![o] =
                [kind |-> "patch", id |-> id, changes |-> c,
                 expected |-> IF event[id] = None THEN clock
                              ELSE event[id].updated_at]]
        BY <3>2 DEF SendPatch
      <4>2. (IF event[id] = None THEN clock ELSE event[id].updated_at) \in Nat
        BY DEF TypeOK, Row
      <4>3. body'[o] \in PatchBody
        BY <4>1, <4>2, BodiesAreTyped DEF TypeOK, PatchBody
      <4>4. QED
        BY <4>3, NoneIsNoRecord
    <3>3. QED
      BY <1>1, <3>1, <3>2 DEF Send
  <2>2. Op(q) # o => body'[Op(q)] = body[Op(q)]
    BY <1>1, <1>b DEF Send, SendPost, SendPatch, TypeOK
  <2>3. Op(q) = o => pc[q] = "idle"
    BY <1>1, <1>a DEF Send, BodyKnown
  <2>4. pc'[q] = pc[q] \/ (Op(q) = o /\ pc'[q] = "sent")
    <3> DEFINE p == <<o, 1>>
    <3>1. p \in Requests /\ Op(p) = o /\ pc' = [pc EXCEPT ![p] = "sent"]
      BY <1>1, RequestFacts DEF Send, Op
    <3> HIDE DEF p
    <3>2. QED
      BY <3>1 DEF TypeOK
  <2>5. UNCHANGED <<event, local, write>>
    BY <1>1 DEF Send
  <2>6. QED
    BY <1>a, <2>1, <2>2, <2>3, <2>4, <2>5
       DEF BodyKnown, RowKnown, WriteKnown, OwnRow, Body, RowsWithKey
<1>2. ASSUME NEW o \in Ops, Resend(o)
      PROVE  (BodyKnown(q) /\ RowKnown(q) /\ WriteKnown(q) /\ OwnRow(q))'
  <2>1. PICK n \in 2..MaxAttempts[o] :
          /\ pc[<<o, n - 1>>] # "idle"
          /\ pc[<<o, n>>] = "idle"
          /\ pc' = [pc EXCEPT ![<<o, n>>] = "sent"]
    BY <1>2 DEF Resend
  <2>2. <<o, n - 1>> \in Requests /\ Op(<<o, n - 1>>) = o /\ Op(<<o, n>>) = o
    <3>1. n \in Nat
      BY BodiesAreTyped
    <3>2. QED
      BY <3>1, RequestFacts DEF Op
  <2>3. body[o] # None
    BY <2>1, <2>2 DEF ControlInv, BodyKnown
  <2>4. pc'[q] = pc[q] \/ (pc[q] = "idle" /\ pc'[q] = "sent" /\ Op(q) = o)
    <3> DEFINE p == <<o, n>>
    <3>1. Op(p) = o /\ pc[p] = "idle" /\ pc' = [pc EXCEPT ![p] = "sent"]
      BY <2>1, <2>2
    <3> HIDE DEF p
    <3>2. QED
      BY <3>1 DEF TypeOK
  <2>5. UNCHANGED <<event, body, local, write>>
    BY <1>2 DEF Resend
  <2>6. QED
    BY <1>a, <2>3, <2>4, <2>5
       DEF BodyKnown, RowKnown, WriteKnown, OwnRow, Body, RowsWithKey
<1>3. ASSUME NEW r \in Requests, PostReceive(r)
      PROVE  (BodyKnown(q) /\ RowKnown(q) /\ WriteKnown(q) /\ OwnRow(q))'
  <2>1. BodyKnown(q)'
    BY <1>3, <1>a, <1>b DEF PostReceive, BodyKnown, TypeOK, Body, Finish, Goto
  <2>2. RowKnown(q)'
    BY <1>3, <1>a
       DEF PostReceive, RowKnown, TypeOK, Body, RowsWithKey, Finish, Goto, SetLocal
  <2>3. WriteKnown(q)'
    BY <1>3, <1>a DEF PostReceive, WriteKnown, TypeOK, Body, Finish, Goto, SetLocal
  <2>4. OwnRow(q)'
    BY <1>3, <1>a DEF PostReceive, OwnRow, TypeOK, Body, Finish, Goto
  <2>5. QED
    BY <2>1, <2>2, <2>3, <2>4
<1>4. ASSUME NEW r \in Requests, PostInsert(r)
      PROVE  (BodyKnown(q) /\ RowKnown(q) /\ WriteKnown(q) /\ OwnRow(q))'
  <2>1. BodyKnown(q)'
    BY <1>4, <1>a, <1>b DEF PostInsert, BodyKnown, TypeOK, Body, Finish, Goto
  <2>2. RowKnown(q)'
    <3>1. CASE q # r
      BY <1>4, <1>a, <3>1
         DEF PostInsert, RowKnown, TypeOK, Body, RowsWithKey, Goto, SetLocal
    <3>2. CASE q = r
      <4>1. pc'[r] = "conflict" => RowsWithKey(Body(r).key) # {}
        BY <1>4 DEF PostInsert, TypeOK, Goto
      <4>2. pc'[r] \in {"conflict", "commit"}
        BY <1>4 DEF PostInsert, TypeOK, Goto
      <4>3. UNCHANGED <<event, body>>
        BY <1>4 DEF PostInsert
      <4>4. QED
        BY <3>2, <4>1, <4>2, <4>3 DEF RowKnown, Body, RowsWithKey
    <3>3. QED
      BY <3>1, <3>2
  <2>3. WriteKnown(q)'
    <3>1. CASE write' = write /\ pc'[r] # "commit"
      BY <1>4, <1>a, <3>1 DEF PostInsert, WriteKnown, TypeOK, Body, Goto, SetLocal, FreshLocal
    <3>2. CASE /\ write' = [write EXCEPT ![r] =
                    [id |-> r, diff |-> NoDiff,
                     row |-> [key |-> Body(r).key, val |-> Body(r).val,
                              updated_at |-> local[r].stamp]]]
               /\ SetLocal(r, r, local[r].stamp, NoDiff, 201)
               /\ Goto(r, "commit")
      <4>1. write'[r] # None
        BY <1>4, <3>2, InsertIsAWrite, NoneIsNoRecord DEF PostInsert, TypeOK
      <4>2. CASE q # r
        BY <1>4, <1>a, <3>2, <4>2 DEF PostInsert, WriteKnown, TypeOK, Body, Goto, SetLocal
      <4>3. CASE q = r
        <5>1. /\ write'[r].id = r
              /\ write'[r].row.key = Body(r).key
              /\ write'[r].row.val = Body(r).val
          BY <3>2 DEF TypeOK
        <5>2. local'[r].id = r /\ pc'[r] = "commit"
          BY <3>2 DEF TypeOK, SetLocal, Goto
        <5>3. Body(r)' = Body(r) /\ Body(r).kind = "post" /\ ValidPeriod(Body(r).val)
          BY <1>4, <1>a, <4>3 DEF PostInsert, BodyKnown, RowKnown, Body
        <5>4. QED
          BY <4>1, <4>3, <5>1, <5>2, <5>3 DEF WriteKnown
      <4>4. QED
        BY <4>2, <4>3
    <3>3. QED
      BY <1>4, <3>1, <3>2 DEF PostInsert, Goto, TypeOK
  <2>4. OwnRow(q)'
    BY <1>4, <1>a DEF PostInsert, OwnRow, TypeOK, Body, Finish, Goto
  <2>5. QED
    BY <2>1, <2>2, <2>3, <2>4
<1>5. ASSUME NEW r \in Requests, PostConflict(r)
      PROVE  (BodyKnown(q) /\ RowKnown(q) /\ WriteKnown(q) /\ OwnRow(q))'
  <2>1. BodyKnown(q)'
    BY <1>5, <1>a, <1>b DEF PostConflict, BodyKnown, TypeOK, Body, Finish, Goto
  <2>2. RowKnown(q)'
    BY <1>5, <1>a
       DEF PostConflict, RowKnown, TypeOK, Body, RowsWithKey, Finish, Goto, SetLocal
  <2>3. WriteKnown(q)'
    BY <1>5, <1>a DEF PostConflict, WriteKnown, TypeOK, Body, Finish, Goto, SetLocal
  <2>4. OwnRow(q)'
    BY <1>5, <1>a DEF PostConflict, OwnRow, TypeOK, Body, Finish, Goto
  <2>5. QED
    BY <2>1, <2>2, <2>3, <2>4
<1>6. ASSUME NEW r \in Requests, PatchRead(r)
      PROVE  (BodyKnown(q) /\ RowKnown(q) /\ WriteKnown(q) /\ OwnRow(q))'
  <2>1. BodyKnown(q)'
    BY <1>6, <1>a, <1>b DEF PatchRead, BodyKnown, TypeOK, Body, Finish, Goto
  <2>2. RowKnown(q)'
    BY <1>6, <1>a, <1>b, VerdictFacts
       DEF PatchRead, RowKnown, TypeOK, Body, RowsWithKey, Finish, Goto, SetLocal
  <2>3. WriteKnown(q)'
    BY <1>6, <1>a DEF PatchRead, WriteKnown, TypeOK, Body, Finish, Goto, SetLocal
  <2>4. OwnRow(q)'
    BY <1>6, <1>a DEF PatchRead, OwnRow, TypeOK, Body, Finish, Goto
  <2>5. QED
    BY <2>1, <2>2, <2>3, <2>4
<1>7. ASSUME NEW r \in Requests, PatchUpdate(r)
      PROVE  (BodyKnown(q) /\ RowKnown(q) /\ WriteKnown(q) /\ OwnRow(q))'
  <2>1. BodyKnown(q)'
    BY <1>7, <1>a, <1>b DEF PatchUpdate, BodyKnown, TypeOK, Body, Finish, Goto
  <2>2. RowKnown(q)'
    BY <1>7, <1>a
       DEF PatchUpdate, RowKnown, TypeOK, Body, RowsWithKey, Finish, Goto, SetLocal
  <2>3. WriteKnown(q)'
    <3>1. CASE write' = write /\ pc'[r] # "commit" /\ pc[r] # "commit"
      BY <1>7, <1>a, <3>1 DEF PatchUpdate, WriteKnown, TypeOK, Body, Finish, Goto
    <3>2. CASE /\ SatisfiesConstraints(UpdatedRow(r).val)
               /\ write' = [write EXCEPT ![r] =
                    [id |-> local[r].id, row |-> UpdatedRow(r), diff |-> local[r].diff]]
               /\ Goto(r, "commit")
      <4>1. [id |-> local[r].id, row |-> UpdatedRow(r), diff |-> local[r].diff] # None
        BY <1>7, <3>2, UpdateIsAWrite, NoneIsNoRecord DEF PatchUpdate
      <4>2. CASE q # r
        BY <1>7, <1>a, <3>2, <4>2 DEF PatchUpdate, WriteKnown, TypeOK, Body, Goto
      <4>3. CASE q = r
        BY <1>7, <1>a, <3>2, <4>1, <4>3
           DEF PatchUpdate, WriteKnown, RowKnown, BodyKnown, TypeOK, Body, Goto,
               UpdatedRow, SatisfiesConstraints
      <4>4. QED
        BY <4>2, <4>3
    <3>3. QED
      BY <1>7, <3>1, <3>2 DEF PatchUpdate, UpdatedRow, Finish, Goto, TypeOK
  <2>4. OwnRow(q)'
    BY <1>7, <1>a DEF PatchUpdate, OwnRow, TypeOK, Body, Finish, Goto
  <2>5. QED
    BY <2>1, <2>2, <2>3, <2>4
<1>8. ASSUME NEW r \in Requests, PatchStale(r)
      PROVE  (BodyKnown(q) /\ RowKnown(q) /\ WriteKnown(q) /\ OwnRow(q))'
  <2>1. BodyKnown(q)'
    BY <1>8, <1>a, <1>b DEF PatchStale, BodyKnown, TypeOK, Body, Finish, Goto
  <2>2. RowKnown(q)'
    BY <1>8, <1>a
       DEF PatchStale, RowKnown, TypeOK, Body, RowsWithKey, Finish, Goto, SetLocal
  <2>3. WriteKnown(q)'
    BY <1>8, <1>a DEF PatchStale, WriteKnown, TypeOK, Body, Finish, Goto
  <2>4. OwnRow(q)'
    BY <1>8, <1>a DEF PatchStale, OwnRow, TypeOK, Body, Finish, Goto
  <2>5. QED
    BY <2>1, <2>2, <2>3, <2>4
<1>9. ASSUME NEW r \in Requests, Commit(r)
      PROVE  (BodyKnown(q) /\ RowKnown(q) /\ WriteKnown(q) /\ OwnRow(q))'
  <2>1. BodyKnown(q)'
    BY <1>9, <1>a DEF Commit, BodyKnown, TypeOK, Body, Goto
  <2>2. RowKnown(q)'
    <3>1. local[q].id \in Requests
      BY DEF TypeOK, Local
    <3>2. event[local[q].id] # None => event'[local[q].id] # None
      BY <1>9, <3>1, CommitKeepsRows
    <3>3. pc'[q] = "respond" => pc[q] = "respond" \/ q = r
      BY <1>9 DEF Commit, Goto, TypeOK
    <3>4. event'[local[r].id] # None
      <4>1. write[r].id = local[r].id
        BY <1>9 DEF Commit, ControlInv, WriteKnown
      <4>2. QED
        BY <1>9, <4>1, CommitKeepsRows
    <3>5. RowsWithKey(Body(q).key) # {} => RowsWithKey(Body(q).key)' # {}
      BY <1>9, CommitKeepsRows DEF Commit, Body
    <3>6. QED
      BY <1>9, <1>a, <3>2, <3>3, <3>4, <3>5
         DEF Commit, RowKnown, TypeOK, Body, Goto, RowsWithKey
  <2>3. WriteKnown(q)'
    <3>1. q # r => write'[q] = write[q] /\ pc'[q] = pc[q]
      BY <1>9 DEF Commit, Goto, TypeOK
    <3>2. pc'[r] = "respond" /\ write'[r] = None
      BY <1>9 DEF Commit, Goto, TypeOK
    <3>3. write[q] # None /\ event[write[q].id] # None =>
            /\ event'[write[q].id] # None
            /\ event'[write[q].id].key = event[write[q].id].key
      BY <1>9, CommitKeepsRows DEF TypeOK, Write
    <3>4. QED
      BY <1>9, <1>a, <3>1, <3>2, <3>3 DEF Commit, WriteKnown, Body
  <2>4. OwnRow(q)'
    <3>1. event'[q] = event[q] \/ q = write[r].id
      BY <1>9, CommitKeepsRows
    <3>2. q = write[r].id => event[q] # None \/ (q = r /\ Body(r).kind = "post")
      BY <1>9, BodyTypes DEF Commit, ControlInv, WriteKnown, BodyKnown
    <3>3. q = r => pc'[q] = "respond"
      BY <1>9 DEF Commit, Goto, TypeOK
    <3>4. q # r => pc'[q] = pc[q]
      BY <1>9 DEF Commit, Goto, TypeOK
    <3>5. QED
      BY <1>9, <1>a, <3>1, <3>2, <3>3, <3>4 DEF Commit, OwnRow, Body
  <2>5. QED
    BY <2>1, <2>2, <2>3, <2>4
<1>10. ASSUME NEW r \in Requests, Respond(r)
      PROVE  (BodyKnown(q) /\ RowKnown(q) /\ WriteKnown(q) /\ OwnRow(q))'
  <2>1. BodyKnown(q)'
    BY <1>10, <1>a, <1>b DEF Respond, BodyKnown, TypeOK, Body, Finish, Goto
  <2>2. RowKnown(q)'
    BY <1>10, <1>a
       DEF Respond, RowKnown, TypeOK, Body, RowsWithKey, Finish, Goto, SetLocal
  <2>3. WriteKnown(q)'
    BY <1>10, <1>a DEF Respond, WriteKnown, TypeOK, Body, Finish, Goto
  <2>4. OwnRow(q)'
    BY <1>10, <1>a DEF Respond, OwnRow, TypeOK, Body, Finish, Goto
  <2>5. QED
    BY <2>1, <2>2, <2>3, <2>4
<1>11. ASSUME NEW r \in Requests, Fail(r)
      PROVE  (BodyKnown(q) /\ RowKnown(q) /\ WriteKnown(q) /\ OwnRow(q))'
  <2>1. BodyKnown(q)'
    BY <1>11, <1>a, <1>b DEF Fail, DiesAs, BodyKnown, TypeOK, Body, Finish, Goto
  <2>2. RowKnown(q)'
    BY <1>11, <1>a
       DEF Fail, DiesAs, RowKnown, TypeOK, Body, RowsWithKey, Finish, Goto, SetLocal
  <2>3. WriteKnown(q)'
    BY <1>11, <1>a DEF Fail, DiesAs, WriteKnown, TypeOK, Body, Finish, Goto
  <2>4. OwnRow(q)'
    BY <1>11, <1>a DEF Fail, DiesAs, OwnRow, TypeOK, Body, Finish, Goto
  <2>5. QED
    BY <2>1, <2>2, <2>3, <2>4
<1>12. CASE UNCHANGED vars
  BY <1>12, <1>a DEF vars, BodyKnown, RowKnown, WriteKnown, OwnRow, Body, RowsWithKey
<1>13. QED
  BY <1>1, <1>2, <1>3, <1>4, <1>5, <1>6, <1>7, <1>8, <1>9, <1>10, <1>11, <1>12
     DEF Next, Handle, Quiet

LEMMA InitControlInv == Init => ControlInv
BY DEF Init, ControlInv, BodyKnown, RowKnown, WriteKnown, OwnRow

-----------------------------------------------------------------------------
LEMMA ControlIsKept == Spec => [](TypeOK /\ ControlInv)
<1>1. Init => TypeOK /\ ControlInv
  BY InitTypeOK, InitControlInv
<1>2. TypeOK /\ ControlInv /\ [Next]_vars => (TypeOK /\ ControlInv)'
  BY NextTypeOK, NextControlInv
<1>3. QED
  BY <1>1, <1>2, PTL DEF Spec

(* Every variable keeps its type, whatever the interleaving.  It is not    *)
(* inductive by itself: that a commit has a write, a conflict an existing  *)
(* row and a success a row to answer with is what ControlInv adds.         *)
THEOREM TypeCorrect == Spec => []TypeOK
BY ControlIsKept, PTL

-----------------------------------------------------------------------------
(* The unique index.                                                       *)

(* A step that writes and commits nothing new disturbs nothing of it.      *)
LEMMA KeyInvUndisturbed ==
  ASSUME KeyInv, UNCHANGED event,
         \A r \in Requests : write'[r] \in {write[r], None},
         \A r \in Requests : pc'[r] = "commit" => pc[r] = "commit" /\ Body(r)' = Body(r)
  PROVE  KeyInv'
<1>1. OneRowPerKey'
  BY DEF KeyInv, OneRowPerKey, Ledger!OneRowPerKey
<1>2. LocksExclude'
  BY DEF KeyInv, LocksExclude
<1>3. InsertedKeyIsFree'
  BY DEF KeyInv, InsertedKeyIsFree, RowsWithKey
<1>4. QED
  BY <1>1, <1>2, <1>3 DEF KeyInv

LEMMA NextKeyInv ==
  ASSUME TypeOK, ControlInv, KeyInv, [Next]_vars
  PROVE  KeyInv'
<1> USE DEF Active, Ended
<1>1. ASSUME NEW o \in Ops, Send(o) \/ Resend(o)
      PROVE  KeyInv'
  <2>1. UNCHANGED <<event, write>>
    BY <1>1 DEF Send, Resend
  <2>2. ASSUME NEW r \in Requests, pc'[r] = "commit"
        PROVE  pc[r] = "commit" /\ Body(r)' = Body(r)
    <3>1. pc[r] = "commit"
      <4>1. PICK p : pc' = [pc EXCEPT ![p] = "sent"]
        BY <1>1 DEF Send, Resend
      <4>2. QED
        BY <2>2, <4>1 DEF TypeOK
    <3>2. body[Op(r)] # None
      BY <3>1 DEF ControlInv, BodyKnown
    <3>3. body'[Op(r)] = body[Op(r)]
      BY <1>1, <3>2, RequestFacts DEF Send, SendPost, SendPatch, Resend, TypeOK
    <3>4. QED
      BY <3>1, <3>3 DEF Body
  <2>3. QED
    BY <2>1, <2>2, KeyInvUndisturbed
<1>2. ASSUME NEW r \in Requests,
             PostReceive(r) \/ PostConflict(r) \/ PatchRead(r) \/ PatchStale(r) \/ Respond(r)
      PROVE  KeyInv'
  <2>1. UNCHANGED <<event, write, body>>
    BY <1>2 DEF PostReceive, PostConflict, PatchRead, PatchStale, Respond
  <2>2. PICK label \in {"insert", "respond", "update", "done"} : pc' = [pc EXCEPT ![r] = label]
    BY <1>2 DEF PostReceive, PostConflict, PatchRead, PatchStale, Respond, Finish, Goto
  <2>3. QED
    BY <2>1, <2>2, KeyInvUndisturbed DEF TypeOK, Body
<1>3. ASSUME NEW r \in Requests, PostInsert(r)
      PROVE  KeyInv'
  <2>1. CASE Goto(r, "conflict") /\ UNCHANGED write
    BY <1>3, <2>1, KeyInvUndisturbed DEF PostInsert, Goto, TypeOK, Body
  <2>2. CASE /\ Body(r).key = NoKey \/ RowsWithKey(Body(r).key) = {}
             /\ write' = [write EXCEPT ![r] =
                  [id |-> r, diff |-> NoDiff,
                   row |-> [key |-> Body(r).key, val |-> Body(r).val,
                            updated_at |-> local[r].stamp]]]
             /\ Goto(r, "commit")
    <3>1. UNCHANGED <<event, body>> /\ pc[r] = "insert"
      BY <1>3 DEF PostInsert
    <3>2. OneRowPerKey'
      BY <3>1 DEF KeyInv, OneRowPerKey, Ledger!OneRowPerKey
    <3>3. write'[r].id = r /\ write'[r].row.key = Body(r).key
      BY <2>2 DEF TypeOK
    <3>4. ASSUME NEW q \in Requests, q # r, write'[q] # None
          PROVE  /\ write'[q] = write[q]
                 /\ write[q].id # r
                 /\ write[q].row.key = Body(r).key => Body(r).key = NoKey
      <4>1. write'[q] = write[q]
        BY <2>2, <3>4 DEF TypeOK
      <4>2. event[r] = None
        BY <3>1 DEF ControlInv, OwnRow
      <4>3. Body(q).kind \in {"post", "patch"}
        BY <3>4, <4>1, BodyTypes DEF ControlInv, BodyKnown, WriteKnown
      <4>4. write[q].id # r
        BY <3>4, <4>1, <4>2, <4>3 DEF ControlInv, WriteKnown
      <4>5. QED
        BY <1>3, <3>4, <4>1, <4>4 DEF PostInsert, KeyLocked
    <3>5. LocksExclude'
      BY <3>3, <3>4 DEF KeyInv, LocksExclude
    <3>6. InsertedKeyIsFree'
      BY <2>2, <3>1 DEF KeyInv, InsertedKeyIsFree, RowsWithKey, Body, Goto, TypeOK
    <3>7. QED
      BY <3>2, <3>5, <3>6 DEF KeyInv
  <2>3. QED
    BY <1>3, <2>1, <2>2 DEF PostInsert
<1>4. ASSUME NEW r \in Requests, PatchUpdate(r)
      PROVE  KeyInv'
  <2>1. CASE pc' = [pc EXCEPT ![r] = "stale"] /\ UNCHANGED write
    BY <1>4, <2>1, KeyInvUndisturbed DEF PatchUpdate, TypeOK, Body
  <2>2. CASE pc' = [pc EXCEPT ![r] = "done"] /\ UNCHANGED write
    BY <1>4, <2>2, KeyInvUndisturbed DEF PatchUpdate, TypeOK, Body
  <2>3. CASE /\ write' = [write EXCEPT ![r] =
                  [id |-> local[r].id, row |-> UpdatedRow(r), diff |-> local[r].diff]]
             /\ pc' = [pc EXCEPT ![r] = "commit"]
    <3> DEFINE id == local[r].id
    <3>1. /\ UNCHANGED <<event, body>>
          /\ pc[r] = "update"
          /\ id \in Requests
          /\ ~RowLocked(id)
          /\ event[id] # None
          /\ Body(r).kind = "patch"
      BY <1>4 DEF PatchUpdate, TypeOK, Local, ControlInv, RowKnown, BodyKnown
    <3>2. OneRowPerKey'
      BY <3>1 DEF KeyInv, OneRowPerKey, Ledger!OneRowPerKey
    <3>3. write'[r].id = id /\ write'[r].row.key = event[id].key
      BY <2>3 DEF TypeOK, UpdatedRow
    <3>4. ASSUME NEW q \in Requests, q # r, write'[q] # None
          PROVE  /\ write'[q] = write[q]
                 /\ write[q].id # id
                 /\ write[q].row.key = event[id].key => event[id].key = NoKey
      <4>1. write'[q] = write[q] /\ pc[q] = "commit"
        BY <2>3, <3>4 DEF TypeOK, ControlInv, WriteKnown
      <4>2. write[q].id # id
        BY <3>1, <3>4, <4>1 DEF RowLocked
      <4>3. CASE Body(q).kind = "post"
        BY <3>1, <4>1, <4>2, <4>3
           DEF KeyInv, InsertedKeyIsFree, RowsWithKey, ControlInv, WriteKnown
      <4>4. CASE Body(q).kind = "patch"
        <5>1. /\ write[q].id \in Requests
              /\ event[write[q].id] # None
              /\ write[q].row.key = event[write[q].id].key
          BY <3>4, <4>1, <4>4 DEF ControlInv, WriteKnown, TypeOK, Write
        <5>2. QED
          BY <3>1, <4>1, <4>2, <5>1 DEF KeyInv, OneRowPerKey, Ledger!OneRowPerKey
      <4>5. Body(q).kind \in {"post", "patch"}
        BY <4>1, BodyTypes DEF ControlInv, BodyKnown
      <4>6. QED
        BY <4>1, <4>2, <4>3, <4>4, <4>5
    <3>5. LocksExclude'
      BY <3>3, <3>4 DEF KeyInv, LocksExclude
    <3>6. InsertedKeyIsFree'
      BY <2>3, <3>1 DEF KeyInv, InsertedKeyIsFree, RowsWithKey, Body, TypeOK
    <3>7. QED
      BY <3>2, <3>5, <3>6 DEF KeyInv
  <2>4. QED
    BY <1>4, <2>1, <2>2, <2>3 DEF PatchUpdate, Goto, Finish, UpdatedRow
<1>5. ASSUME NEW r \in Requests, Commit(r)
      PROVE  KeyInv'
  <2> DEFINE id == write[r].id
             key == write[r].row.key
  <2>1. /\ UNCHANGED body
        /\ pc[r] = "commit"
        /\ write[r] # None
        /\ write[r] \in Write
        /\ id \in Requests
        /\ event'[id] = write[r].row
        /\ \A i \in Requests : i # id => event'[i] = event[i]
        /\ write' = [write EXCEPT ![r] = None]
        /\ pc' = [pc EXCEPT ![r] = "respond"]
    BY <1>5, CommitKeepsRows, NoneIsNoRecord DEF Commit, Goto, Write
  <2>2. ASSUME NEW i \in Requests, i # id, event[i] # None, event[i].key = key
        PROVE  key = NoKey
    <3>1. CASE Body(r).kind = "post"
      BY <2>1, <2>2, <3>1 DEF KeyInv, InsertedKeyIsFree, RowsWithKey, ControlInv, WriteKnown
    <3>2. CASE Body(r).kind = "patch"
      BY <2>1, <2>2, <3>2
         DEF KeyInv, OneRowPerKey, Ledger!OneRowPerKey, ControlInv, WriteKnown
    <3>3. QED
      BY <2>1, <3>1, <3>2, BodyTypes DEF ControlInv, BodyKnown
  <2>3. OneRowPerKey'
    BY <2>1, <2>2 DEF KeyInv, OneRowPerKey, Ledger!OneRowPerKey
  <2>4. LocksExclude'
    BY <2>1 DEF KeyInv, LocksExclude, TypeOK
  <2>5. ASSUME NEW q \in Requests, pc'[q] = "commit", Body(q)'.kind = "post",
               Body(q)'.key # NoKey
        PROVE  RowsWithKey(Body(q).key)' = {}
    <3>1. q # r /\ pc[q] = "commit" /\ Body(q)' = Body(q)
      BY <2>1, <2>5 DEF TypeOK, Body
    <3>2. RowsWithKey(Body(q).key) = {}
      BY <2>5, <3>1 DEF KeyInv, InsertedKeyIsFree
    <3>3. key # Body(q).key
      BY <2>1, <2>5, <3>1 DEF KeyInv, LocksExclude, ControlInv, WriteKnown
    <3>4. QED
      BY <2>1, <3>1, <3>2, <3>3 DEF RowsWithKey
  <2>6. InsertedKeyIsFree'
    BY <2>5 DEF InsertedKeyIsFree
  <2>7. QED
    BY <2>3, <2>4, <2>6 DEF KeyInv
<1>6. ASSUME NEW r \in Requests, Fail(r)
      PROVE  KeyInv'
  BY <1>6, KeyInvUndisturbed DEF Fail, DiesAs, Goto, TypeOK, Body
<1>7. CASE UNCHANGED vars
  BY <1>7, KeyInvUndisturbed DEF vars, Body
<1>8. QED
  BY <1>1, <1>2, <1>3, <1>4, <1>5, <1>6, <1>7 DEF Next, Handle, Quiet

LEMMA InitKeyInv == Init => KeyInv
BY DEF Init, KeyInv, OneRowPerKey, Ledger!OneRowPerKey, LocksExclude, InsertedKeyIsFree

(* No two committed rows share an idempotency key, for any number of       *)
(* concurrent, repeated or failing POSTs and PATCHes and whatever the      *)
(* clock does: a write in flight holds its key, and a key being inserted   *)
(* is in no row.                                                           *)
THEOREM KeysStayUnique == Spec => []OneRowPerKey
<1>1. Init => KeyInv
  BY InitKeyInv
<1>2. TypeOK /\ ControlInv /\ KeyInv /\ [Next]_vars => KeyInv'
  BY NextKeyInv
<1>3. KeyInv => OneRowPerKey
  BY DEF KeyInv
<1>4. QED
  BY <1>1, <1>2, <1>3, ControlIsKept, PTL DEF Spec

-----------------------------------------------------------------------------
(* Whose step it is.                                                       *)

Still(q) ==
  pc'[q] = pc[q] /\ local'[q] = local[q] /\ write'[q] = write[q] /\ reply'[q] = reply[q]

IsSent(q) ==
  /\ pc[q] = "idle" /\ pc'[q] = "sent"
  /\ local'[q] = local[q] /\ write'[q] = write[q] /\ reply'[q] = reply[q]

LEMMA OthersStayStill ==
  ASSUME TypeOK, NEW r \in Requests, Handle(r) \/ Fail(r), NEW q \in Requests, q # r
  PROVE  Still(q)
<1> USE DEF TypeOK, Still, Finish, Goto, SetLocal
<1>1. CASE PostReceive(r) \/ PostConflict(r) \/ PatchRead(r)
  BY <1>1 DEF PostReceive, PostConflict, PatchRead
<1>2. CASE PostInsert(r) \/ PatchUpdate(r)
  BY <1>2 DEF PostInsert, PatchUpdate
<1>3. CASE PatchStale(r) \/ Commit(r) \/ Respond(r) \/ Fail(r)
  BY <1>3 DEF PatchStale, Commit, Respond, Fail, DiesAs
<1>4. QED
  BY <1>1, <1>2, <1>3 DEF Handle

(* To a request, a step is one of its own, or its client's, or leaves it   *)
(* where it is; and what was sent stays what it was.                       *)
LEMMA OneHandlerMoves ==
  ASSUME TypeOK, ControlInv, [Next]_vars, NEW q \in Requests
  PROVE  /\ body[Op(q)] # None => Body(q)' = Body(q) /\ body'[Op(q)] # None
         /\ Still(q) \/ IsSent(q) \/ Handle(q) \/ Fail(q)
<1>1. ASSUME NEW o \in Ops, Send(o) \/ Resend(o)
      PROVE  /\ body[Op(q)] # None => body'[Op(q)] = body[Op(q)]
             /\ Still(q) \/ IsSent(q)
  <2>1. PICK p \in Requests : pc' = [pc EXCEPT ![p] = "sent"] /\ pc[p] = "idle"
    <3>1. CASE Send(o)
      <4>1. <<o, 1>> \in Requests /\ Op(<<o, 1>>) = o
        BY RequestFacts DEF Op
      <4>2. pc[<<o, 1>>] = "idle"
        BY <3>1, <4>1 DEF Send, ControlInv, BodyKnown
      <4>3. QED
        BY <3>1, <4>1, <4>2 DEF Send
    <3>2. CASE Resend(o)
      <4>1. PICK n \in Nat :
              /\ n \in 2..MaxAttempts[o]
              /\ pc[<<o, n>>] = "idle"
              /\ pc' = [pc EXCEPT ![<<o, n>>] = "sent"]
        <5>1. 2..MaxAttempts[o] \subseteq Nat
          BY BodiesAreTyped
        <5>2. QED
          BY <3>2, <5>1 DEF Resend
      <4>2. <<o, n>> \in Requests
        BY <4>1, RequestFacts
      <4>3. QED
        BY <4>1, <4>2
    <3>3. QED
      BY <1>1, <3>1, <3>2
  <2>2. UNCHANGED <<local, write, reply>>
    BY <1>1 DEF Send, Resend
  <2>3. body[Op(q)] # None => body'[Op(q)] = body[Op(q)]
    BY <1>1, RequestFacts DEF Send, SendPost, SendPatch, Resend, TypeOK
  <2>4. pc'[q] = pc[q] \/ (pc[q] = "idle" /\ pc'[q] = "sent")
    BY <2>1 DEF TypeOK
  <2>5. QED
    BY <2>2, <2>3, <2>4 DEF Still, IsSent
<1>2. ASSUME NEW r \in Requests, Handle(r) \/ Fail(r)
      PROVE  /\ UNCHANGED body
             /\ q # r => Still(q)
  <2>1. UNCHANGED body
    BY <1>2 DEF Handle, PostReceive, PostInsert, PostConflict, PatchRead, PatchUpdate,
         PatchStale, Commit, Respond, Fail, DiesAs
  <2>2. QED
    BY <1>2, <2>1, OthersStayStill
<1>3. ASSUME UNCHANGED vars
      PROVE  UNCHANGED body /\ Still(q)
  BY <1>3 DEF vars, Still
<1>4. QED
  BY <1>1, <1>2, <1>3 DEF Next, Quiet, Body

(* The two tables change by commits alone.                                 *)
LEMMA TablesChangeByCommit ==
  ASSUME [Next]_vars
  PROVE  UNCHANGED <<event, audit>> \/ \E r \in Requests : Commit(r)
<1>1. ASSUME NEW o \in Ops, Send(o) \/ Resend(o)
      PROVE  UNCHANGED <<event, audit>>
  BY <1>1 DEF Send, Resend
<1>2. ASSUME NEW r \in Requests, Handle(r) \/ Fail(r), ~Commit(r)
      PROVE  UNCHANGED <<event, audit>>
  BY <1>2 DEF Handle, PostReceive, PostInsert, PostConflict, PatchRead, PatchUpdate,
       PatchStale, Respond, Fail, DiesAs
<1>3. CASE UNCHANGED vars
  BY <1>3 DEF vars
<1>4. QED
  BY <1>1, <1>2, <1>3 DEF Next, Quiet

(* What a commit does to the audit log.                                    *)
LEMMA CommitAudits ==
  ASSUME TypeOK, ControlInv, NEW r \in Requests, Commit(r)
  PROVE  /\ Body(r).kind = "post" => UNCHANGED audit
         /\ Body(r).kind = "patch" =>
              /\ \A i \in Requests : i # write[r].id => audit'[i] = audit[i]
              /\ audit'[write[r].id] =
                   Append(audit[write[r].id], [by |-> r, changed |-> write[r].diff])
              /\ audit'[write[r].id] # << >>
         /\ \A i \in Requests : audit[i] # << >> => audit'[i] # << >>
         /\ \A i \in Requests : \A n \in DOMAIN audit'[i] :
              \/ n \in DOMAIN audit[i] /\ audit'[i][n] = audit[i][n]
              \/ /\ audit'[i][n].by = r
                 /\ Body(r).kind = "patch"
                 /\ i = write[r].id
                 /\ n = Len(audit[i]) + 1
<1> DEFINE id == write[r].id
           entry == [by |-> r, changed |-> write[r].diff]
<1>1. /\ id \in Requests
      /\ entry \in AuditEntry
      /\ \A i \in Requests : audit[i] \in Seq(AuditEntry)
      /\ Body(r).kind \in {"post", "patch"}
  BY CommitKeepsRows, BodyTypes DEF TypeOK, Write, AuditEntry, Commit, ControlInv, BodyKnown
<1>2. Body(r).kind = "post" => UNCHANGED audit
  BY DEF Commit
<1>3. Body(r).kind = "patch" =>
        /\ \A i \in Requests : i # id => audit'[i] = audit[i]
        /\ audit'[id] = Append(audit[id], entry)
  BY <1>1 DEF Commit, TypeOK
<1> HIDE DEF entry
<1>4. /\ DOMAIN Append(audit[id], entry) = 1..(Len(audit[id]) + 1)
      /\ DOMAIN audit[id] = 1..Len(audit[id])
      /\ Len(audit[id]) \in Nat
      /\ \A n \in 1..Len(audit[id]) : Append(audit[id], entry)[n] = audit[id][n]
      /\ Append(audit[id], entry)[Len(audit[id]) + 1] = entry
      /\ Append(audit[id], entry) # << >>
  BY <1>1
<1>5. \A n \in 1..(Len(audit[id]) + 1) : n \in 1..Len(audit[id]) \/ n = Len(audit[id]) + 1
  BY <1>4
<1>6. entry.by = r
  BY DEF entry
<1>7. ASSUME NEW i \in Requests
      PROVE  /\ audit[i] # << >> => audit'[i] # << >>
             /\ \A n \in DOMAIN audit'[i] :
                  \/ n \in DOMAIN audit[i] /\ audit'[i][n] = audit[i][n]
                  \/ /\ audit'[i][n].by = r
                     /\ Body(r).kind = "patch"
                     /\ i = id
                     /\ n = Len(audit[i]) + 1
  <2>1. CASE audit'[i] = audit[i]
    BY <2>1
  <2>2. CASE i = id /\ audit'[i] = Append(audit[i], entry) /\ Body(r).kind = "patch"
    BY <1>4, <1>5, <1>6, <2>2
  <2>3. QED
    BY <1>1, <1>2, <1>3, <2>1, <2>2
<1>8. QED
  BY <1>2, <1>3, <1>4, <1>7 DEF entry

(* An audit entry is old or its commit's.                                  *)
LEMMA EntriesAreKept ==
  ASSUME TypeOK, ControlInv, NEW r \in Requests, Commit(r),
         NEW i \in Requests, NEW n \in DOMAIN audit'[i]
  PROVE  \/ n \in DOMAIN audit[i] /\ audit'[i][n] = audit[i][n]
         \/ /\ audit'[i][n].by = r
            /\ Body(r).kind = "patch"
            /\ i = write[r].id
            /\ n = Len(audit[i]) + 1
BY CommitAudits

-----------------------------------------------------------------------------
(* What a refused request leaves.                                          *)

AnsweredIsDone == \A r \in Requests : reply[r] # None => pc[r] = "done"

Wrote(r) ==
  \/ event[r] # None
  \/ \E i \in Requests : \E n \in DOMAIN audit[i] : audit[i][n].by = r

(* Only a request past its commit has left something behind.               *)
TraceKnown(r) ==
  Wrote(r) =>
    \/ pc[r] \in {"respond", "lost"}
    \/ pc[r] = "done" /\ reply[r].status \in {200, 201}

TraceInv == AnsweredIsDone /\ \A r \in Requests : TraceKnown(r)

(* A handler that goes on has not answered; one that answers is done.      *)
LEMMA AnswersComeLast ==
  ASSUME TypeOK, NEW q \in Requests, Handle(q) \/ Fail(q)
  PROVE  /\ pc[q] \in Active
         /\ pc'[q] = "done" \/ reply'[q] = reply[q]
         /\ pc[q] = "respond" =>
              pc'[q] = "lost" \/ (pc'[q] = "done" /\ reply'[q].status \in {200, 201})
<1> USE DEF TypeOK, Finish, Goto, SetLocal, Active
<1>1. CASE PostReceive(q) \/ PostConflict(q) \/ PatchRead(q)
  BY <1>1 DEF PostReceive, PostConflict, PatchRead
<1>2. CASE PostInsert(q) \/ PatchUpdate(q)
  BY <1>2 DEF PostInsert, PatchUpdate
<1>3. CASE PatchStale(q) \/ Commit(q) \/ Fail(q)
  BY <1>3 DEF PatchStale, Commit, Fail, DiesAs
<1>4. CASE Respond(q)
  BY <1>4 DEF Respond, Local
<1>5. QED
  BY <1>1, <1>2, <1>3, <1>4 DEF Handle

LEMMA NextAnsweredIsDone ==
  ASSUME TypeOK, ControlInv, AnsweredIsDone, [Next]_vars
  PROVE  AnsweredIsDone'
<1> SUFFICES ASSUME NEW q \in Requests, reply'[q] # None
             PROVE  pc'[q] = "done"
  BY DEF AnsweredIsDone
<1>1. CASE Still(q) \/ IsSent(q)
  BY <1>1 DEF Still, IsSent, AnsweredIsDone
<1>2. CASE Handle(q) \/ Fail(q)
  BY <1>2, AnswersComeLast DEF AnsweredIsDone, Active
<1>3. QED
  BY <1>1, <1>2, OneHandlerMoves

(* What a request leaves in the tables it leaves by its own commit.        *)
LEMMA OnlyACommitWrites ==
  ASSUME TypeOK, ControlInv, [Next]_vars, NEW q \in Requests, Wrote(q)'
  PROVE  Wrote(q) \/ Commit(q)
<1>1. CASE UNCHANGED <<event, audit>>
  BY <1>1 DEF Wrote
<1>2. ASSUME NEW r \in Requests, Commit(r), r # q
      PROVE  Wrote(q)
  <2>1. CASE event'[q] # None
    <3>1. CASE q # write[r].id
      BY <1>2, <2>1, <3>1, CommitKeepsRows DEF Wrote
    <3>2. CASE q = write[r].id
      <4>1. pc[r] = "commit" /\ Body(r).kind \in {"post", "patch"}
        BY <1>2, BodyTypes DEF Commit, ControlInv, BodyKnown
      <4>2. event[write[r].id] # None
        BY <1>2, <3>2, <4>1 DEF ControlInv, WriteKnown
      <4>3. QED
        BY <3>2, <4>2 DEF Wrote
    <3>3. QED
      BY <3>1, <3>2
  <2>2. ASSUME NEW i \in Requests, NEW n \in DOMAIN audit'[i], audit'[i][n].by = q
        PROVE  Wrote(q)
    <3>1. n \in DOMAIN audit[i] /\ audit'[i][n] = audit[i][n]
      BY <1>2, <2>2, EntriesAreKept
    <3>2. QED
      BY <2>2, <3>1 DEF Wrote
  <2>3. QED
    BY <2>1, <2>2 DEF Wrote
<1>3. QED
  BY <1>1, <1>2, TablesChangeByCommit

LEMMA NextTraceInv ==
  ASSUME TypeOK, ControlInv, TraceInv, [Next]_vars
  PROVE  TraceInv'
<1> SUFFICES ASSUME NEW q \in Requests, Wrote(q)'
             PROVE  \/ pc'[q] \in {"respond", "lost"}
                    \/ pc'[q] = "done" /\ reply'[q].status \in {200, 201}
  BY NextAnsweredIsDone DEF TraceInv, TraceKnown
<1>1. CASE Commit(q)
  BY <1>1 DEF Commit, Goto, TypeOK
<1>2. CASE Wrote(q)
  <2>1. \/ pc[q] \in {"respond", "lost"}
        \/ pc[q] = "done" /\ reply[q].status \in {200, 201}
    BY <1>2 DEF TraceInv, TraceKnown
  <2>2. CASE Still(q) \/ IsSent(q)
    BY <2>1, <2>2 DEF Still, IsSent
  <2>3. CASE Handle(q) \/ Fail(q)
    BY <2>1, <2>3, AnswersComeLast DEF Active
  <2>4. QED
    BY <2>2, <2>3, OneHandlerMoves
<1>3. QED
  BY <1>1, <1>2, OnlyACommitWrites

(* A delivery that is answered 404, 409, 422 or 500, and one that died     *)
(* before its transaction was over, has inserted no row and written no     *)
(* audit entry, and holds no lock: only what is past its commit has left   *)
(* anything, and from there the answer is a success or is lost.            *)
THEOREM RefusalsLeaveNothing == Spec => []RefusedLeavesNoTrace
<1>1. Init => TraceInv
  BY DEF Init, TraceInv, AnsweredIsDone, TraceKnown, Wrote
<1>2. TypeOK /\ ControlInv /\ TraceInv /\ [Next]_vars => TraceInv'
  BY NextTraceInv
<1>3. TypeOK /\ ControlInv /\ TraceInv => RefusedLeavesNoTrace
  BY DEF TraceInv, AnsweredIsDone, TraceKnown, Wrote, RefusedLeavesNoTrace, ControlInv, WriteKnown
<1>4. QED
  BY <1>1, <1>2, <1>3, ControlIsKept, PTL DEF Spec

-----------------------------------------------------------------------------
(* What a conflict means.                                                  *)

(* A row is the POST that inserted it until somebody corrects it.          *)
AsPosted(i) ==
  event[i] # None =>
    /\ event[i].key = Body(i).key
    /\ audit[i] = << >> => event[i].val = Body(i).val

(* There is a row with the key of r, and it is not what r posts unless it  *)
(* has been corrected.                                                     *)
HasReason(r) ==
  /\ Body(r).key # NoKey
  /\ \E i \in Requests :
       /\ event[i] # None
       /\ event[i].key = Body(r).key
       /\ Body(i) = Body(r) => audit[i] # << >>

ConflictKnown(r) ==
  /\ pc[r] = "conflict" => Body(r).key # NoKey
  /\ pc[r] = "commit" /\ Body(r).kind = "post" => write[r].row.val = Body(r).val
  /\ reply[r] # None /\ reply[r].status = 409 /\ Body(r).kind = "post" => HasReason(r)

ConflictInv == \A r \in Requests : AsPosted(r) /\ ConflictKnown(r)

LEMMA RowsStayAsPosted ==
  ASSUME TypeOK, ControlInv, ConflictInv, [Next]_vars, NEW i \in Requests
  PROVE  AsPosted(i)'
<1>1. CASE UNCHANGED <<event, audit>>
  <2>1. event[i] # None => Body(i)' = Body(i)
    BY OneHandlerMoves DEF ControlInv, OwnRow, BodyKnown
  <2>2. QED
    BY <1>1, <2>1 DEF ConflictInv, AsPosted
<1>2. ASSUME NEW r \in Requests, Commit(r)
      PROVE  AsPosted(i)'
  <2> DEFINE id == write[r].id
  <2>1. /\ id \in Requests
        /\ event'[id] = write[r].row
        /\ \A j \in Requests : j # id => event'[j] = event[j]
        /\ \A j \in Requests : audit[j] # << >> => audit'[j] # << >>
    BY <1>2, CommitKeepsRows, CommitAudits DEF Write
  <2>2. /\ pc[r] = "commit"
        /\ Body(r).kind \in {"post", "patch"}
        /\ UNCHANGED body
    BY <1>2, BodyTypes DEF Commit, ControlInv, BodyKnown
  <2>3. CASE i # id
    BY <2>1, <2>2, <2>3 DEF ConflictInv, AsPosted, Body
  <2>4. CASE i = id /\ Body(r).kind = "post"
    <3>1. /\ write[r].id = r
          /\ write[r].row.key = Body(r).key
          /\ write[r].row.val = Body(r).val
      BY <2>2, <2>4 DEF ControlInv, WriteKnown, ConflictInv, ConflictKnown
    <3>2. QED
      BY <2>1, <2>2, <2>4, <3>1 DEF AsPosted, Body
  <2>5. CASE i = id /\ Body(r).kind = "patch"
    <3>1. event[id] # None /\ write[r].row.key = event[id].key
      BY <2>2, <2>5 DEF ControlInv, WriteKnown
    <3>2. audit'[id] # << >>
      BY <1>2, <2>1, <2>5, CommitAudits DEF TypeOK
    <3>3. QED
      BY <2>1, <2>2, <2>5, <3>1, <3>2 DEF ConflictInv, AsPosted, Body
  <2>6. QED
    BY <2>2, <2>3, <2>4, <2>5
<1>3. QED
  BY <1>1, <1>2, TablesChangeByCommit

(* A reason stays one: rows keep their keys and their audit logs.          *)
LEMMA ReasonsStay ==
  ASSUME TypeOK, ControlInv, [Next]_vars, NEW r \in Requests, HasReason(r),
         body[Op(r)] # None
  PROVE  HasReason(r)'
<1>1. PICK i \in Requests :
        /\ event[i] # None
        /\ event[i].key = Body(r).key
        /\ Body(i) = Body(r) => audit[i] # << >>
  BY DEF HasReason
<1>2. Body(r)' = Body(r) /\ Body(i)' = Body(i)
  BY <1>1, OneHandlerMoves DEF ControlInv, OwnRow, BodyKnown
<1>3. event'[i] # None /\ event'[i].key = event[i].key /\ (audit[i] # << >> => audit'[i] # << >>)
  BY <1>1, TablesChangeByCommit, CommitKeepsRows, CommitAudits
<1>4. QED
  BY <1>1, <1>2, <1>3 DEF HasReason

(* What one handler's step leaves known about its request.                 *)
LEMMA ConflictKnownAfterItsStep ==
  ASSUME TypeOK, ControlInv, ConflictInv, NEW q \in Requests, Handle(q) \/ Fail(q),
         [Next]_vars, reply[q] = None
  PROVE  ConflictKnown(q)'
<1>1. Body(q)' = Body(q) /\ UNCHANGED body
  BY DEF Body, Handle, PostReceive, PostInsert, PostConflict, PatchRead, PatchUpdate,
     PatchStale, Commit, Respond, Fail, DiesAs
<1> USE DEF Finish, Goto, SetLocal
<1>2. CASE PostReceive(q)
  BY <1>1, <1>2 DEF PostReceive, TypeOK, ConflictKnown
<1>3. CASE PostInsert(q)
  <2>1. CASE Body(q).key # NoKey /\ Goto(q, "conflict")
    BY <1>1, <1>3, <2>1 DEF PostInsert, TypeOK, ConflictKnown
  <2>2. CASE /\ write' = [write EXCEPT ![q] =
                  [id |-> q, diff |-> NoDiff,
                   row |-> [key |-> Body(q).key, val |-> Body(q).val,
                            updated_at |-> local[q].stamp]]]
             /\ Goto(q, "commit")
    BY <1>1, <1>3, <2>2 DEF PostInsert, TypeOK, ConflictKnown
  <2>3. QED
    BY <1>3, <2>1, <2>2 DEF PostInsert
<1>4. CASE PostConflict(q)
  <2> DEFINE existing == CHOOSE id \in Requests : id \in RowsWithKey(Body(q).key)
  <2>1. pc[q] = "conflict" /\ UNCHANGED <<event, audit>>
    BY <1>4 DEF PostConflict
  <2>2. /\ existing \in Requests
        /\ event[existing] # None
        /\ event[existing].key = Body(q).key
        /\ Body(q).key # NoKey
    <3>1. RowsWithKey(Body(q).key) # {}
      BY <2>1 DEF ControlInv, RowKnown
    <3>2. existing \in RowsWithKey(Body(q).key)
      BY <3>1 DEF RowsWithKey
    <3>3. Body(q).key # NoKey
      BY <2>1 DEF ConflictInv, ConflictKnown
    <3>4. QED
      BY <3>2, <3>3 DEF RowsWithKey
  <2>3. pc'[q] \in {"done", "respond"} /\ (pc'[q] = "respond" => reply'[q] = reply[q])
    BY <1>4 DEF PostConflict, TypeOK
  <2>4. CASE event[existing].val # Body(q).val
    <3>1. Body(existing) = Body(q) => audit[existing] # << >>
      BY <2>2, <2>4 DEF ConflictInv, AsPosted
    <3>2. HasReason(q)
      BY <2>2, <3>1 DEF HasReason
    <3>3. HasReason(q)'
      BY <1>1, <2>1, <3>2 DEF HasReason, Body
    <3>4. QED
      BY <2>3, <3>3 DEF ConflictKnown
  <2>5. CASE event[existing].val = Body(q).val
    <3>1. pc'[q] = "respond"
      BY <1>4, <2>5 DEF PostConflict, TypeOK
    <3>2. QED
      BY <2>3, <3>1 DEF ConflictKnown
  <2>6. QED
    BY <2>4, <2>5
<1>5. CASE PatchRead(q) \/ PatchUpdate(q) \/ PatchStale(q)
  <2>1. Body(q).kind = "patch"
    BY <1>5 DEF PatchRead, PatchUpdate, PatchStale, ControlInv, BodyKnown
  <2>2. pc'[q] # "conflict"
    BY <1>5 DEF PatchRead, PatchUpdate, PatchStale, TypeOK
  <2>3. QED
    BY <1>1, <2>1, <2>2 DEF ConflictKnown
<1>6. CASE Commit(q) \/ Fail(q)
  BY <1>6 DEF Commit, Fail, DiesAs, TypeOK, ConflictKnown
<1>7. CASE Respond(q)
  <2>1. pc[q] = "respond" /\ pc'[q] = "done"
    BY <1>7 DEF Respond, TypeOK
  <2>2. reply'[q].status \in {200, 201}
    BY <2>1, AnswersComeLast
  <2>3. QED
    BY <2>1, <2>2 DEF ConflictKnown
<1>8. QED
  BY <1>2, <1>3, <1>4, <1>5, <1>6, <1>7 DEF Handle

LEMMA NextConflictInv ==
  ASSUME TypeOK, ControlInv, AnsweredIsDone, ConflictInv, [Next]_vars
  PROVE  ConflictInv'
<1> SUFFICES ASSUME NEW q \in Requests
             PROVE  ConflictKnown(q)'
  BY RowsStayAsPosted DEF ConflictInv
<1>1. CASE Handle(q) \/ Fail(q)
  BY <1>1, AnswersComeLast, ConflictKnownAfterItsStep DEF AnsweredIsDone, Active
<1>2. CASE Still(q) \/ IsSent(q)
  <2>1. /\ write'[q] = write[q] /\ reply'[q] = reply[q]
        /\ pc'[q] = pc[q] \/ pc'[q] = "sent"
    BY <1>2 DEF Still, IsSent
  <2>2. pc[q] # "idle" => Body(q)' = Body(q) /\ body[Op(q)] # None
    BY OneHandlerMoves DEF ControlInv, BodyKnown
  <2>3. reply[q] # None => pc[q] # "idle"
    BY DEF AnsweredIsDone
  <2>4. ConflictKnown(q)
    BY DEF ConflictInv
  <2>5. HasReason(q) /\ reply[q] # None => HasReason(q)'
    BY <2>2, <2>3, ReasonsStay
  <2>6. QED
    BY <2>1, <2>2, <2>3, <2>4, <2>5 DEF ConflictKnown
<1>3. QED
  BY <1>1, <1>2, OneHandlerMoves

(* A POST whose body somebody has already posted is refused with 409 only  *)
(* if that row has been corrected since: the row that caused the conflict  *)
(* has the key, the unique index leaves no other, and a row nobody has     *)
(* corrected is still the body it was posted with.                         *)
THEOREM ConflictsAreCorrections == Spec => []ConflictMeansCorrected
<1>1. Init => AnsweredIsDone /\ ConflictInv
  BY DEF Init, AnsweredIsDone, ConflictInv, AsPosted, ConflictKnown
<1>2. TypeOK /\ ControlInv /\ AnsweredIsDone /\ ConflictInv /\ [Next]_vars
        => AnsweredIsDone' /\ ConflictInv'
  BY NextAnsweredIsDone, NextConflictInv
<1>3. OneRowPerKey /\ ConflictInv => ConflictMeansCorrected
  <2>1. SUFFICES ASSUME OneRowPerKey, ConflictInv,
                        NEW r \in Requests, NEW q \in Requests,
                        reply[r] # None, reply[r].status = 409, Body(r).kind = "post",
                        event[q] # None, Body(q) = Body(r)
                 PROVE  audit[q] # << >>
    BY DEF ConflictMeansCorrected
  <2>2. Body(r).key # NoKey /\ event[q].key = Body(r).key
    BY <2>1 DEF ConflictInv, ConflictKnown, AsPosted, HasReason
  <2>3. PICK i \in Requests :
          /\ event[i] # None
          /\ event[i].key = Body(r).key
          /\ Body(i) = Body(r) => audit[i] # << >>
    BY <2>1 DEF ConflictInv, ConflictKnown, HasReason
  <2>4. i = q
    BY <2>1, <2>2, <2>3 DEF OneRowPerKey, Ledger!OneRowPerKey
  <2>5. QED
    BY <2>1, <2>3, <2>4
<1>4. QED
  BY <1>1, <1>2, <1>3, ControlIsKept, KeysStayUnique, PTL DEF Spec

-----------------------------------------------------------------------------
(* DowntimeEvents implements EventLedger whenever the clock gives every      *)
(* request a time of its own. The versions (updated_at) are the whole        *)
(* argument: no two writes in flight carry the same one, none of them is in  *)
(* the table, and none of them is a token somebody is about to compare.      *)

InFlight == {"insert", "update", "commit"}

StampInv ==
  /\ \A i \in Requests : event[i] # None => event[i].updated_at < clock
  /\ \A r \in Requests :
       pc[r] \in InFlight =>
         /\ local[r].stamp < clock
         /\ \A i \in Requests : event[i] # None => event[i].updated_at # local[r].stamp
         /\ \A q \in Requests :
              q # r /\ pc[q] \in InFlight => local[q].stamp # local[r].stamp
         /\ pc[r] = "commit" => write[r].row.updated_at = local[r].stamp

(* What the PATCH handler concluded from the row it read.                  *)
ReadHolds(r, row) ==
  /\ local[r].diff = ChangedFields(row.val, Body(r).changes)
  /\ local[r].diff # NoDiff
  /\ SatisfiesConstraints(Merged(row.val, Body(r).changes))

(* If the token still matches, so does everything else that was read.      *)
TokenKnown(r) ==
  pc[r] = "update" =>
    /\ Body(r).expected < local[r].stamp
    /\ \A q \in Requests : pc[q] \in InFlight => local[q].stamp # Body(r).expected
    /\ event[local[r].id].updated_at = Body(r).expected
         => ReadHolds(r, event[local[r].id])

CorrectionKnown(r) ==
  pc[r] = "commit" /\ Body(r).kind = "patch" =>
    LET old == event[write[r].id] IN
    /\ write[r].diff = ChangedFields(old.val, Body(r).changes)
    /\ write[r].diff # NoDiff
    /\ write[r].row.val = Merged(old.val, Body(r).changes)
    /\ write[r].row.updated_at > old.updated_at

TokenInv == \A r \in Requests : TokenKnown(r) /\ CorrectionKnown(r)

-----------------------------------------------------------------------------
(* Facts about corrections.                                                *)

LEMMA MergedIsTyped ==
  ASSUME NEW val \in Values, NEW changes \in Changes,
         \A f \in NotNullableFields : changes[f] # Null
  PROVE  Merged(val, changes) \in Values
<1>1. /\ val \in [Fields -> Value]
      /\ \A f \in Fields \ {"ended_at"} : val[f] # Null
      /\ \A f \in PatchableFields : changes[f] \in Value \union {None}
  BY DEF Values, Changes
<1>2. Merged(val, changes) \in [Fields -> Value]
  BY <1>1 DEF Merged
<1>3. ASSUME NEW f \in Fields \ {"ended_at"}
      PROVE  Merged(val, changes)[f] # Null
  BY <1>1 DEF Merged, Fields, PatchableFields, NotNullableFields
<1>4. QED
  BY <1>2, <1>3 DEF Values

(* What ChangedFields finds is what the merge does to the row.             *)
LEMMA ChangedFieldsAreTheDifference ==
  ASSUME NEW val \in Values, NEW changes \in Changes
  PROVE  /\ Difference(val, Merged(val, changes)) = ChangedFields(val, changes)
         /\ ChangedFields(val, changes) # NoDiff => Merged(val, changes) # val
         /\ Merged(val, changes)["line_id"] = val["line_id"]
<1>1. \A f \in Fields :
        (IF Merged(val, changes)[f] = val[f] THEN None ELSE <<val[f], Merged(val, changes)[f]>>)
        = (IF f \in PatchableFields /\ changes[f] \notin {None, val[f]}
             THEN <<val[f], changes[f]>> ELSE None)
  BY DEF Merged
<1>2. Difference(val, Merged(val, changes)) = ChangedFields(val, changes)
  BY <1>1 DEF Difference, ChangedFields
<1>3. Merged(val, changes) = val => ChangedFields(val, changes) = NoDiff
  BY <1>2 DEF Difference, NoDiff
<1>4. Merged(val, changes)["line_id"] = val["line_id"]
  BY DEF Merged, Fields, PatchableFields
<1>5. QED
  BY <1>2, <1>3, <1>4

-----------------------------------------------------------------------------
(* Versions.                                                               *)

LEMMA StampInvUndisturbed ==
  ASSUME StampInv, UNCHANGED <<event, clock>>,
         \A r \in Requests : pc'[r] \in InFlight =>
           /\ pc[r] \in InFlight
           /\ local'[r].stamp = local[r].stamp
           /\ pc'[r] = "commit" => write'[r].row.updated_at = local[r].stamp
  PROVE  StampInv'
BY DEF StampInv

LEMMA StampInvStampTaken ==
  ASSUME TypeOK, StampInv, NEW r \in Requests,
         clock' = clock + 1, UNCHANGED <<event, write>>,
         pc'[r] # "commit", local'[r].stamp = clock,
         \A q \in Requests : q # r => pc'[q] = pc[q] /\ local'[q] = local[q]
  PROVE  StampInv'
<1>1. ASSUME NEW i \in Requests, event[i] # None
      PROVE  event[i].updated_at \in Nat /\ event[i].updated_at < clock
  BY <1>1 DEF TypeOK, Row, StampInv
<1>2. ASSUME NEW q \in Requests, q # r, pc[q] \in InFlight
      PROVE  local[q].stamp \in Nat /\ local[q].stamp < clock
  BY <1>2 DEF TypeOK, Local, StampInv
<1>3. clock \in Nat
  BY DEF TypeOK
<1>4. \A i \in Requests : event'[i] # None => event'[i].updated_at < clock'
  BY <1>1, <1>3
<1>5. ASSUME NEW q \in Requests, pc'[q] \in InFlight
      PROVE  /\ local'[q].stamp < clock'
             /\ \A i \in Requests : event'[i] # None => event'[i].updated_at # local'[q].stamp
             /\ \A p \in Requests :
                  p # q /\ pc'[p] \in InFlight => local'[p].stamp # local'[q].stamp
             /\ pc'[q] = "commit" => write'[q].row.updated_at = local'[q].stamp
  <2>1. CASE q = r
    BY <1>1, <1>2, <1>3, <2>1
  <2>2. CASE q # r
    BY <1>2, <1>3, <1>5, <2>2 DEF StampInv
  <2>3. QED
    BY <2>1, <2>2
<1>6. QED
  BY <1>4, <1>5 DEF StampInv

LEMMA InFlightAfter ==
  ASSUME TypeOK, NEW r \in Requests, NEW label, pc' = [pc EXCEPT ![r] = label]
  PROVE  pc'[r] = label /\ \A q \in Requests : q # r => pc'[q] = pc[q]
BY DEF TypeOK

LEMMA NextStampInv ==
  ASSUME UniqueStamps = TRUE, TypeOK, ControlInv, StampInv, [Next]_vars
  PROVE  StampInv'
<1> USE DEF InFlight
<1>1. ASSUME NEW o \in Ops, Send(o) \/ Resend(o)
      PROVE  StampInv'
  <2>1. PICK p : pc' = [pc EXCEPT ![p] = "sent"]
    BY <1>1 DEF Send, Resend
  <2>2. UNCHANGED <<event, clock, local, write>>
    BY <1>1 DEF Send, Resend
  <2>3. \A r \in Requests : pc'[r] \in InFlight => pc'[r] = pc[r]
    BY <2>1 DEF TypeOK
  <2>4. QED
    BY <2>2, <2>3, StampInvUndisturbed DEF StampInv
<1>2. ASSUME NEW r \in Requests, PostReceive(r)
      PROVE  StampInv'
  <2>1. CASE pc' = [pc EXCEPT ![r] = "done"] /\ UNCHANGED <<local, clock>>
    BY <1>2, <2>1, InFlightAfter, StampInvUndisturbed DEF PostReceive, StampInv
  <2>2. CASE SetLocal(r, r, clock, NoDiff, 200) /\ TakeStamp /\ Goto(r, "insert")
    BY <1>2, <2>2, InFlightAfter, StampInvStampTaken
       DEF PostReceive, SetLocal, TakeStamp, Goto, TypeOK
  <2>3. QED
    BY <1>2, <2>1, <2>2 DEF PostReceive, Finish, Goto
<1>3. ASSUME NEW r \in Requests, PatchRead(r)
      PROVE  StampInv'
  <2> DEFINE row == event[Body(r).id]
             diff == ChangedFields(row.val, Body(r).changes)
  <2>1. CASE pc' = [pc EXCEPT ![r] = "done"] /\ UNCHANGED <<local, clock>>
    BY <1>3, <2>1, InFlightAfter, StampInvUndisturbed DEF PatchRead, StampInv
  <2>2. CASE SetLocal(r, Body(r).id, 0, NoDiff, 200) /\ Goto(r, "respond") /\ UNCHANGED clock
    BY <1>3, <2>2, InFlightAfter, StampInvUndisturbed
       DEF PatchRead, SetLocal, Goto, TypeOK, StampInv
  <2>3. CASE SetLocal(r, Body(r).id, clock, diff, 200) /\ TakeStamp /\ Goto(r, "update")
    <3> HIDE DEF diff
    <3>1. QED
      BY <1>3, <2>3, InFlightAfter, StampInvStampTaken
         DEF PatchRead, SetLocal, TakeStamp, Goto, TypeOK
  <2>4. QED
    BY <1>3, <2>1, <2>2, <2>3 DEF PatchRead, Finish, Goto
<1>4. ASSUME NEW r \in Requests, PostInsert(r)
      PROVE  StampInv'
  <2>1. CASE Goto(r, "conflict") /\ local' = [local EXCEPT ![r] = FreshLocal(r)]
             /\ UNCHANGED write
    BY <1>4, <2>1, InFlightAfter, StampInvUndisturbed
       DEF PostInsert, Goto, TypeOK, StampInv
  <2>2. CASE /\ write' = [write EXCEPT ![r] =
                  [id |-> r, diff |-> NoDiff,
                   row |-> [key |-> Body(r).key, val |-> Body(r).val,
                            updated_at |-> local[r].stamp]]]
             /\ SetLocal(r, r, local[r].stamp, NoDiff, 201)
             /\ Goto(r, "commit")
    <3>1. write'[r].row.updated_at = local[r].stamp /\ local'[r].stamp = local[r].stamp
      BY <2>2 DEF TypeOK, SetLocal
    <3>2. \A q \in Requests : q # r => write'[q] = write[q] /\ local'[q] = local[q]
      BY <2>2 DEF TypeOK, SetLocal
    <3>3. QED
      BY <1>4, <2>2, <3>1, <3>2, InFlightAfter, StampInvUndisturbed
         DEF PostInsert, Goto, StampInv
  <2>3. QED
    BY <1>4, <2>1, <2>2 DEF PostInsert
<1>5. ASSUME NEW r \in Requests, PatchUpdate(r)
      PROVE  StampInv'
  <2>1. CASE pc' = [pc EXCEPT ![r] = "stale"] /\ UNCHANGED write
    BY <1>5, <2>1, InFlightAfter, StampInvUndisturbed DEF PatchUpdate, StampInv
  <2>2. CASE pc' = [pc EXCEPT ![r] = "done"] /\ UNCHANGED write
    BY <1>5, <2>2, InFlightAfter, StampInvUndisturbed DEF PatchUpdate, StampInv
  <2>3. CASE /\ write' = [write EXCEPT ![r] =
                  [id |-> local[r].id, row |-> UpdatedRow(r), diff |-> local[r].diff]]
             /\ pc' = [pc EXCEPT ![r] = "commit"]
    <3>1. write'[r].row.updated_at = local[r].stamp
      BY <2>3 DEF TypeOK, UpdatedRow
    <3>2. \A q \in Requests : q # r => write'[q] = write[q]
      BY <2>3 DEF TypeOK
    <3>3. QED
      BY <1>5, <2>3, <3>1, <3>2, InFlightAfter, StampInvUndisturbed DEF PatchUpdate, StampInv
  <2>4. QED
    BY <1>5, <2>1, <2>2, <2>3 DEF PatchUpdate, Goto, Finish, UpdatedRow
<1>6. ASSUME NEW r \in Requests, Commit(r)
      PROVE  StampInv'
  <2> DEFINE id == write[r].id
  <2>1. /\ UNCHANGED <<clock, local>>
        /\ pc[r] = "commit"
        /\ id \in Requests
        /\ event'[id].updated_at = local[r].stamp
        /\ \A i \in Requests : i # id => event'[i] = event[i]
    BY <1>6, CommitKeepsRows DEF Commit, Write, StampInv
  <2>2. pc'[r] = "respond" /\ \A q \in Requests : q # r => pc'[q] = pc[q] /\ write'[q] = write[q]
    BY <1>6, InFlightAfter DEF Commit, Goto, TypeOK
  <2>3. QED
    BY <2>1, <2>2 DEF StampInv
<1>7. ASSUME NEW r \in Requests, PostConflict(r) \/ PatchStale(r) \/ Respond(r) \/ Fail(r)
      PROVE  StampInv'
  <2>1. /\ UNCHANGED <<event, clock>>
        /\ \A q \in Requests : q # r => local'[q] = local[q] /\ write'[q] = write[q]
    BY <1>7 DEF PostConflict, PatchStale, Respond, Fail, DiesAs, SetLocal, TypeOK
  <2>2. PICK label \in {"respond", "done", "failed", "lost"} : pc' = [pc EXCEPT ![r] = label]
    BY <1>7 DEF PostConflict, PatchStale, Respond, Fail, DiesAs, Finish, Goto
  <2>3. \A q \in Requests : pc'[q] \in InFlight => q # r /\ pc'[q] = pc[q]
    BY <2>2 DEF TypeOK
  <2>4. QED
    BY <2>1, <2>3, StampInvUndisturbed DEF StampInv
<1>8. CASE UNCHANGED vars
  BY <1>8, StampInvUndisturbed DEF vars, StampInv
<1>9. QED
  BY <1>1, <1>2, <1>3, <1>4, <1>5, <1>6, <1>7, <1>8 DEF Next, Handle, Quiet

-----------------------------------------------------------------------------
(* Tokens.                                                                 *)

LEMMA TokenInvUndisturbed ==
  ASSUME TokenInv, UNCHANGED event,
         \A r \in Requests : pc'[r] \in InFlight =>
           pc[r] \in InFlight /\ local'[r].stamp = local[r].stamp,
         \A r \in Requests : pc'[r] = "update" =>
           pc[r] = "update" /\ local'[r] = local[r] /\ Body(r)' = Body(r),
         \A r \in Requests : pc'[r] = "commit" /\ Body(r)'.kind = "patch" =>
           pc[r] = "commit" /\ write'[r] = write[r] /\ Body(r)' = Body(r)
  PROVE  TokenInv'
<1> SUFFICES ASSUME NEW r \in Requests
             PROVE  (TokenKnown(r) /\ CorrectionKnown(r))'
  BY DEF TokenInv
<1>1. TokenKnown(r)'
  <2>1. ASSUME pc'[r] = "update"
        PROVE  /\ (Body(r).expected < local[r].stamp)'
               /\ (event[local[r].id].updated_at = Body(r).expected
                    => ReadHolds(r, event[local[r].id]))'
    BY <2>1 DEF TokenInv, TokenKnown, ReadHolds
  <2>2. ASSUME pc'[r] = "update", NEW q \in Requests, pc'[q] \in InFlight
        PROVE  local'[q].stamp # Body(r)'.expected
    BY <2>2 DEF TokenInv, TokenKnown
  <2>3. QED
    BY <2>1, <2>2 DEF TokenKnown
<1>2. CorrectionKnown(r)'
  BY DEF TokenInv, CorrectionKnown
<1>3. QED
  BY <1>1, <1>2

(* A new version is none of the tokens being compared.                     *)
LEMMA TokenInvStampTaken ==
  ASSUME TypeOK, ControlInv, StampInv, TokenInv, NEW r \in Requests,
         UNCHANGED <<event, write, body>>,
         pc'[r] # "commit", local'[r].stamp = clock,
         \A q \in Requests : q # r => pc'[q] = pc[q] /\ local'[q] = local[q],
         pc'[r] = "update" => TokenKnown(r)'
  PROVE  TokenInv'
<1> SUFFICES ASSUME NEW q \in Requests
             PROVE  (TokenKnown(q) /\ CorrectionKnown(q))'
  BY DEF TokenInv
<1>1. CASE q = r
  BY <1>1 DEF TokenKnown, CorrectionKnown
<1>2. CASE q # r
  <2>1. CorrectionKnown(q)'
    BY <1>2 DEF TokenInv, CorrectionKnown, Body
  <2>2. ASSUME pc'[q] = "update"
        PROVE  TokenKnown(q)'
    <3>1. pc[q] = "update" /\ local'[q] = local[q] /\ Body(q)' = Body(q)
      BY <1>2, <2>2 DEF Body
    <3>2. /\ Body(q).expected < local[q].stamp
          /\ local[q].stamp < clock
          /\ Body(q).expected \in Nat
          /\ local[q].stamp \in Nat
          /\ clock \in Nat
      <4>1. Body(q) \in PatchBody
        BY <3>1, BodyTypes DEF ControlInv, BodyKnown
      <4>2. QED
        BY <3>1, <4>1 DEF TokenInv, TokenKnown, StampInv, InFlight, TypeOK, Local, PatchBody
    <3>3. \A p \in Requests : pc'[p] \in InFlight => local'[p].stamp # Body(q).expected
      BY <3>1, <3>2 DEF TokenInv, TokenKnown
    <3>4. event[local[q].id].updated_at = Body(q).expected => ReadHolds(q, event[local[q].id])
      BY <3>1 DEF TokenInv, TokenKnown
    <3>5. QED
      BY <3>1, <3>2, <3>3, <3>4 DEF TokenKnown, ReadHolds
  <2>3. QED
    BY <2>1, <2>2 DEF TokenKnown
<1>3. QED
  BY <1>1, <1>2

LEMMA NextTokenInv ==
  ASSUME UniqueStamps = TRUE, TypeOK, ControlInv, KeyInv, StampInv, TokenInv, [Next]_vars
  PROVE  TokenInv'
<1> USE DEF InFlight
<1>1. ASSUME NEW o \in Ops, Send(o) \/ Resend(o)
      PROVE  TokenInv'
  <2>1. PICK p : pc' = [pc EXCEPT ![p] = "sent"]
    BY <1>1 DEF Send, Resend
  <2>2. UNCHANGED <<event, local, write>>
    BY <1>1 DEF Send, Resend
  <2>3. \A r \in Requests : pc'[r] \in InFlight => pc'[r] = pc[r]
    BY <2>1 DEF TypeOK
  <2>4. ASSUME NEW r \in Requests, pc'[r] \in InFlight
        PROVE  Body(r)' = Body(r)
    <3>1. body[Op(r)] # None
      BY <2>3, <2>4 DEF ControlInv, BodyKnown
    <3>2. body'[Op(r)] = body[Op(r)]
      BY <1>1, <3>1, RequestFacts DEF Send, SendPost, SendPatch, Resend, TypeOK
    <3>3. QED
      BY <3>2 DEF Body
  <2>5. QED
    BY <2>2, <2>3, <2>4, TokenInvUndisturbed
<1>2. ASSUME NEW r \in Requests, PostReceive(r)
      PROVE  TokenInv'
  <2>1. CASE pc' = [pc EXCEPT ![r] = "done"] /\ UNCHANGED <<local, clock>>
    BY <1>2, <2>1, InFlightAfter, TokenInvUndisturbed DEF PostReceive, Body
  <2>2. CASE SetLocal(r, r, clock, NoDiff, 200) /\ Goto(r, "insert")
    BY <1>2, <2>2, InFlightAfter, TokenInvStampTaken DEF PostReceive, SetLocal, Goto, TypeOK
  <2>3. QED
    BY <1>2, <2>1, <2>2 DEF PostReceive, Finish, Goto
<1>3. ASSUME NEW r \in Requests, PatchRead(r)
      PROVE  TokenInv'
  <2> DEFINE row == event[Body(r).id]
             diff == ChangedFields(row.val, Body(r).changes)
  <2>1. CASE pc' = [pc EXCEPT ![r] = "done"] /\ UNCHANGED local
    BY <1>3, <2>1, InFlightAfter, TokenInvUndisturbed DEF PatchRead, Body
  <2>2. CASE SetLocal(r, Body(r).id, 0, NoDiff, 200) /\ Goto(r, "respond")
    BY <1>3, <2>2, InFlightAfter, TokenInvUndisturbed
       DEF PatchRead, SetLocal, Goto, TypeOK, Body
  <2>3. CASE /\ PatchVerdict(row, Body(r)) = 200
             /\ diff # NoDiff
             /\ SetLocal(r, Body(r).id, clock, diff, 200)
             /\ Goto(r, "update")
    <3>1. UNCHANGED <<event, write, body>> /\ pc[r] = "sent"
      BY <1>3 DEF PatchRead
    <3>2. Body(r) \in PatchBody
      BY <1>3, BodyTypes DEF PatchRead, ControlInv, BodyKnown
    <3>3. /\ row \in Row
          /\ row # None
          /\ row.updated_at = Body(r).expected
          /\ ValidPeriod(Merged(row.val, Body(r).changes))
          /\ \A f \in NotNullableFields : Body(r).changes[f] # Null
      BY <2>3, <3>2, VerdictFacts DEF PatchBody, TypeOK
    <3>4. SatisfiesConstraints(Merged(row.val, Body(r).changes))
      BY <3>2, <3>3, MergedIsTyped DEF SatisfiesConstraints, PatchBody, Row
    <3>5. /\ local'[r].stamp = clock
          /\ local'[r].id = Body(r).id
          /\ local'[r].diff = diff
          /\ \A q \in Requests : q # r => local'[q] = local[q]
      BY <2>3 DEF SetLocal, TypeOK
    <3>6. pc'[r] = "update" /\ \A q \in Requests : q # r => pc'[q] = pc[q]
      <4>1. pc' = [pc EXCEPT ![r] = "update"]
        BY <2>3 DEF Goto
      <4>2. QED
        BY <4>1, InFlightAfter
    <3>7. Body(r).expected < clock
      BY <3>2, <3>3 DEF StampInv, PatchBody
    <3>8. ASSUME NEW q \in Requests, pc'[q] \in InFlight
          PROVE  local'[q].stamp # Body(r).expected
      <4>1. CASE q = r
        BY <3>2, <3>5, <3>7, <4>1 DEF PatchBody, TypeOK
      <4>2. CASE q # r
        BY <3>2, <3>3, <3>5, <3>6, <3>8, <4>2 DEF StampInv, PatchBody
      <4>3. QED
        BY <4>1, <4>2
    <3>9. TokenKnown(r)'
      BY <2>3, <3>1, <3>4, <3>5, <3>7, <3>8 DEF TokenKnown, ReadHolds, Body
    <3>10. QED
      BY <3>1, <3>5, <3>6, <3>9, TokenInvStampTaken
  <2>4. QED
    BY <1>3, <2>1, <2>2, <2>3 DEF PatchRead, Finish, Goto
<1>4. ASSUME NEW r \in Requests, PostInsert(r)
      PROVE  TokenInv'
  <2>1. UNCHANGED <<event, body>> /\ pc[r] = "insert" /\ Body(r).kind = "post"
    BY <1>4 DEF PostInsert, ControlInv, BodyKnown
  <2>2. /\ pc'[r] \in {"conflict", "commit"}
        /\ pc'[r] = "commit" => local'[r].stamp = local[r].stamp
        /\ \A q \in Requests : q # r =>
             pc'[q] = pc[q] /\ write'[q] = write[q] /\ local'[q] = local[q]
    BY <1>4 DEF PostInsert, Goto, SetLocal, TypeOK
  <2>3. QED
    BY <2>1, <2>2, TokenInvUndisturbed DEF Body
<1>5. ASSUME NEW r \in Requests, PatchUpdate(r)
      PROVE  TokenInv'
  <2>1. CASE pc' = [pc EXCEPT ![r] = "stale"] /\ UNCHANGED write
    BY <1>5, <2>1, InFlightAfter, TokenInvUndisturbed DEF PatchUpdate, Body
  <2>2. CASE pc' = [pc EXCEPT ![r] = "done"] /\ UNCHANGED write
    BY <1>5, <2>2, InFlightAfter, TokenInvUndisturbed DEF PatchUpdate, Body
  <2>3. CASE /\ event[local[r].id].updated_at = Body(r).expected
             /\ write' = [write EXCEPT ![r] =
                  [id |-> local[r].id, row |-> UpdatedRow(r), diff |-> local[r].diff]]
             /\ pc' = [pc EXCEPT ![r] = "commit"]
    <3> DEFINE old == event[local[r].id]
    <3>1. UNCHANGED <<event, body, local>> /\ pc[r] = "update"
      BY <1>5 DEF PatchUpdate
    <3>2. Body(r) \in PatchBody /\ old \in Row
      BY <3>1, BodyTypes DEF ControlInv, BodyKnown, RowKnown, TypeOK, Local
    <3>3. ReadHolds(r, old) /\ Body(r).expected < local[r].stamp
      BY <2>3, <3>1 DEF TokenInv, TokenKnown
    <3>4. /\ write'[r].id = local[r].id
          /\ write'[r].diff = local[r].diff
          /\ write'[r].row.val = Patched(old.val, local[r].diff)
          /\ write'[r].row.updated_at = local[r].stamp
      BY <2>3 DEF TypeOK, UpdatedRow
    <3>5. Patched(old.val, local[r].diff) = Merged(old.val, Body(r).changes)
      BY <3>2, <3>3, ChangedFieldsFacts DEF ReadHolds, Row, PatchBody
    <3>6. CorrectionKnown(r)'
      BY <2>3, <3>1, <3>2, <3>3, <3>4, <3>5
         DEF CorrectionKnown, ReadHolds, Body, PatchBody, TypeOK, Local
    <3>7. \A q \in Requests : q # r => pc'[q] = pc[q] /\ write'[q] = write[q]
      BY <2>3, InFlightAfter DEF TypeOK
    <3>8. pc'[r] = "commit"
      BY <2>3, InFlightAfter
    <3>9. ASSUME NEW q \in Requests
          PROVE  TokenKnown(q)'
      BY <3>1, <3>7, <3>8 DEF TokenInv, TokenKnown, ReadHolds, Body
    <3>10. ASSUME NEW q \in Requests, q # r
           PROVE  CorrectionKnown(q)'
      BY <3>1, <3>7, <3>10 DEF TokenInv, CorrectionKnown, Body
    <3>11. QED
      BY <3>6, <3>9, <3>10 DEF TokenInv
  <2>4. QED
    BY <1>5, <2>1, <2>2, <2>3 DEF PatchUpdate, Goto, Finish, UpdatedRow
<1>6. ASSUME NEW r \in Requests, Commit(r)
      PROVE  TokenInv'
  <2> DEFINE id == write[r].id
  <2>1. /\ UNCHANGED <<local, body>>
        /\ pc[r] = "commit"
        /\ write[r] # None
        /\ id \in Requests
        /\ event'[id].updated_at = local[r].stamp
        /\ \A i \in Requests : i # id => event'[i] = event[i]
    BY <1>6, CommitKeepsRows DEF Commit, Write, StampInv, ControlInv, WriteKnown
  <2>2. pc'[r] = "respond" /\ \A q \in Requests : q # r => pc'[q] = pc[q] /\ write'[q] = write[q]
    BY <1>6, InFlightAfter DEF Commit, Goto, TypeOK
  <2>3. ASSUME NEW q \in Requests, pc'[q] = "commit", Body(q)'.kind = "patch"
        PROVE  CorrectionKnown(q)'
    <3>1. q # r /\ pc[q] = "commit" /\ write'[q] = write[q] /\ Body(q)' = Body(q)
      BY <2>1, <2>2, <2>3 DEF Body
    <3>2. write[q] # None /\ write[q].id \in Requests
      BY <3>1 DEF ControlInv, WriteKnown, TypeOK, Write
    <3>3. event'[write[q].id] = event[write[q].id]
      BY <2>1, <3>1, <3>2 DEF KeyInv, LocksExclude
    <3>4. QED
      BY <2>3, <3>1, <3>3 DEF TokenInv, CorrectionKnown
  <2>4. ASSUME NEW q \in Requests, pc'[q] = "update"
        PROVE  TokenKnown(q)'
    <3>1. q # r /\ pc[q] = "update" /\ Body(q)' = Body(q)
      BY <2>1, <2>2, <2>4 DEF Body
    <3>2. event'[local[q].id].updated_at = Body(q).expected
            => event'[local[q].id] = event[local[q].id]
      <4>1. CASE local[q].id = id
        BY <2>1, <3>1, <4>1 DEF TokenInv, TokenKnown
      <4>2. CASE local[q].id # id
        BY <2>1, <4>2 DEF TypeOK, Local
      <4>3. QED
        BY <4>1, <4>2
    <3>3. \A p \in Requests : pc'[p] \in InFlight => pc[p] \in InFlight
      BY <2>1, <2>2
    <3>4. QED
      BY <2>1, <3>1, <3>2, <3>3 DEF TokenInv, TokenKnown, ReadHolds
  <2>5. QED
    BY <2>3, <2>4 DEF TokenInv, TokenKnown, CorrectionKnown
<1>7. ASSUME NEW r \in Requests, PostConflict(r) \/ PatchStale(r) \/ Respond(r) \/ Fail(r)
      PROVE  TokenInv'
  <2>1. /\ UNCHANGED <<event, body>>
        /\ \A q \in Requests : q # r => local'[q] = local[q] /\ write'[q] = write[q]
    BY <1>7 DEF PostConflict, PatchStale, Respond, Fail, DiesAs, SetLocal, TypeOK
  <2>2. PICK label \in {"respond", "done", "failed", "lost"} : pc' = [pc EXCEPT ![r] = label]
    BY <1>7 DEF PostConflict, PatchStale, Respond, Fail, DiesAs, Finish, Goto
  <2>3. \A q \in Requests : pc'[q] \in InFlight => q # r /\ pc'[q] = pc[q]
    BY <2>2 DEF TypeOK
  <2>4. QED
    BY <2>1, <2>3, TokenInvUndisturbed DEF Body
<1>8. CASE UNCHANGED vars
  BY <1>8, TokenInvUndisturbed DEF vars, Body
<1>9. QED
  BY <1>1, <1>2, <1>3, <1>4, <1>5, <1>6, <1>7, <1>8 DEF Next, Handle, Quiet

-----------------------------------------------------------------------------
(* The strengthening as a whole.                                           *)

LedgerInv == TypeOK /\ ControlInv /\ KeyInv /\ StampInv /\ TokenInv

LEMMA LedgerInvIsKept ==
  ASSUME UniqueStamps = TRUE
  PROVE  Spec => []LedgerInv
<1>1. Init => LedgerInv
  <2>1. ASSUME Init
        PROVE  StampInv /\ TokenInv
    BY <2>1 DEF Init, StampInv, TokenInv, TokenKnown, CorrectionKnown, InFlight
  <2>2. QED
    BY <2>1, InitTypeOK, InitControlInv, InitKeyInv DEF LedgerInv
<1>2. LedgerInv /\ [Next]_vars => LedgerInv'
  BY NextTypeOK, NextControlInv, NextKeyInv, NextStampInv, NextTokenInv DEF LedgerInv
<1>3. QED
  BY <1>1, <1>2, PTL DEF Spec

(* An update whose token matches writes what was validated.                *)
LEMMA MatchingUpdateIsValid ==
  ASSUME LedgerInv, NEW r \in Requests, pc[r] = "update",
         event[local[r].id].updated_at = Body(r).expected
  PROVE  SatisfiesConstraints(Patched(event[local[r].id].val, local[r].diff))
<1>1. ReadHolds(r, event[local[r].id])
  BY DEF LedgerInv, TokenInv, TokenKnown
<1>2. event[local[r].id] \in Row
  BY DEF LedgerInv, ControlInv, RowKnown, TypeOK, Local
<1>3. Body(r) \in PatchBody
  BY BodyTypes DEF LedgerInv, ControlInv, BodyKnown
<1>4. QED
  BY <1>1, <1>2, <1>3, ChangedFieldsFacts DEF ReadHolds, Row, PatchBody

LEMMA NextNoServerError ==
  ASSUME LedgerInv, NoServerError, [Next]_vars
  PROVE  NoServerError'
<1> SUFFICES ASSUME NEW q \in Requests, reply'[q] # None
             PROVE  reply'[q].status # 500
  BY DEF NoServerError
<1>1. CASE reply'[q] = reply[q]
  BY <1>1 DEF NoServerError
<1>2. ASSUME NEW r \in Requests, NEW status \in {200, 201, 404, 409, 422}, NEW row,
             Finish(r, status, row)
      PROVE  reply'[q].status # 500
  <2>1. reply' = [reply EXCEPT ![r] = [status |-> status, row |-> row]]
    BY <1>2 DEF Finish
  <2>2. QED
    BY <2>1 DEF LedgerInv, TypeOK, NoServerError
<1>3. ASSUME NEW r \in Requests, PatchUpdate(r)
      PROVE  reply'[q].status # 500
  <2>1. event[local[r].id].updated_at = Body(r).expected =>
          SatisfiesConstraints(Patched(event[local[r].id].val, local[r].diff))
    BY <1>3, MatchingUpdateIsValid DEF PatchUpdate
  <2>2. reply' = reply
    BY <1>3, <2>1 DEF PatchUpdate
  <2>3. QED
    BY <2>2 DEF NoServerError
<1>4. ASSUME NEW r \in Requests, PatchRead(r)
      PROVE  reply'[q].status # 500
  <2> DEFINE verdict == PatchVerdict(event[Body(r).id], Body(r))
  <2>1. CASE reply' = reply
    BY <2>1 DEF NoServerError
  <2>2. CASE verdict # 200 /\ Finish(r, verdict, IF verdict = 409 THEN event[Body(r).id] ELSE None)
    <3>1. verdict \in {404, 409, 422}
      BY <2>2, VerdictFacts
    <3>2. QED
      BY <1>2, <2>2, <3>1
  <2>3. QED
    BY <1>4, <2>1, <2>2 DEF PatchRead
<1>5. ASSUME NEW r \in Requests, Respond(r)
      PROVE  reply'[q].status # 500
  <2>1. local[r].status \in {200, 201}
    BY DEF LedgerInv, TypeOK, Local
  <2>2. Finish(r, local[r].status, event[local[r].id])
    BY <1>5 DEF Respond
  <2>3. QED
    BY <1>2, <2>1, <2>2
<1>6. ASSUME NEW r \in Requests, PostReceive(r) \/ PostConflict(r) \/ PatchStale(r)
      PROVE  reply'[q].status # 500
  <2>1. CASE reply' = reply
    BY <2>1 DEF NoServerError
  <2>2. CASE \E status \in {404, 409, 422} : \E row : Finish(r, status, row)
    BY <1>2, <2>2
  <2>3. QED
    BY <1>6, <2>1, <2>2 DEF PostReceive, PostConflict, PatchStale
<1>7. ASSUME NEW r \in Requests, PostInsert(r) \/ Commit(r) \/ Fail(r)
      PROVE  reply'[q].status # 500
  BY <1>7 DEF PostInsert, Commit, Fail, DiesAs, NoServerError
<1>8. ASSUME NEW o \in Ops, Send(o) \/ Resend(o)
      PROVE  reply'[q].status # 500
  <2>1. reply' = reply
    BY <1>8 DEF Send, Resend
  <2>2. QED
    BY <2>1 DEF NoServerError
<1>9. CASE UNCHANGED vars
  BY <1>9 DEF vars, NoServerError
<1>10. QED
  BY <1>3, <1>4, <1>5, <1>6, <1>7, <1>8, <1>9 DEF Next, Handle, Quiet

(* The CHECK constraint on the period never fires inside a PATCH: when the *)
(* token still matches, the row is the one the handler validated, so the   *)
(* 422 is given before the write and no request ends in a 500.             *)
THEOREM ConstraintsNeverFire ==
  ASSUME UniqueStamps = TRUE
  PROVE  Spec => []NoServerError
<1>1. Init => NoServerError
  BY DEF Init, NoServerError
<1>2. LedgerInv /\ NoServerError /\ [Next]_vars => NoServerError'
  BY NextNoServerError
<1>3. QED
  BY <1>1, <1>2, LedgerInvIsKept, PTL DEF Spec

-----------------------------------------------------------------------------
(* Refinement.                                                             *)

(* The ledger has the rows, constraints and differences of the tables.     *)
LEMMA LedgerData ==
  /\ Ledger!Row = Row
  /\ \A val : Ledger!SatisfiesConstraints(val) <=> SatisfiesConstraints(val)
  /\ \A old, new : Ledger!Difference(old, new) = Difference(old, new)
BY DEF Ledger!Row, Row, Ledger!Values, Values, Ledger!Value, Value, Ledger!Fields, Fields,
     Ledger!SatisfiesConstraints, SatisfiesConstraints, Ledger!ValidPeriod, ValidPeriod,
     Ledger!Difference, Difference

LEMMA CommitOfAPostRecords ==
  ASSUME LedgerInv, NEW r \in Requests, Commit(r), Body(r).kind = "post"
  PROVE  Ledger!Record(r)
<1>1. /\ pc[r] = "commit"
      /\ write[r].id = r
      /\ write[r].row.key = Body(r).key
      /\ ValidPeriod(write[r].row.val)
  BY DEF LedgerInv, Commit, ControlInv, WriteKnown
<1>2. write[r].row \in Row
  BY CommitKeepsRows DEF LedgerInv, Write
<1>3. event[r] = None
  BY <1>1 DEF LedgerInv, ControlInv, OwnRow
<1>4. event'[r] = write[r].row /\ event' = [event EXCEPT ![r] = event'[r]]
  <2>1. event' = [event EXCEPT ![r] = write[r].row]
    BY <1>1 DEF Commit
  <2>2. event'[r] = write[r].row
    BY <2>1 DEF LedgerInv, TypeOK
  <2>3. QED
    BY <2>1, <2>2
<1>5. Ledger!KeyUnused(write[r].row.key)
  BY <1>1 DEF LedgerInv, KeyInv, InsertedKeyIsFree, RowsWithKey, Ledger!KeyUnused
<1>6. UNCHANGED audit
  BY DEF Commit
<1>7. SatisfiesConstraints(write[r].row.val)
  BY <1>1, <1>2 DEF SatisfiesConstraints, Row
<1>8. QED
  BY <1>2, <1>3, <1>4, <1>5, <1>6, <1>7, LedgerData DEF Ledger!Record

LEMMA CommitOfAPatchCorrects ==
  ASSUME LedgerInv, NEW r \in Requests, Commit(r), Body(r).kind = "patch"
  PROVE  Ledger!Correct(write[r].id)
<1> DEFINE id == write[r].id
           old == event[id]
           row == write[r].row
           changes == Body(r).changes
<1>1. /\ pc[r] = "commit"
      /\ old # None
      /\ row.key = old.key
      /\ ValidPeriod(row.val)
  BY DEF LedgerInv, Commit, ControlInv, WriteKnown
<1>2. id \in Requests /\ row \in Row
  BY CommitKeepsRows DEF LedgerInv, Write
<1>3. old \in Row /\ changes \in Changes
  <2>1. Body(r) \in PatchBody
    BY <1>1, BodyTypes DEF LedgerInv, ControlInv, BodyKnown
  <2>2. QED
    BY <1>1, <1>2, <2>1 DEF LedgerInv, TypeOK, PatchBody
<1>4. /\ write[r].diff = ChangedFields(old.val, changes)
      /\ write[r].diff # NoDiff
      /\ row.val = Merged(old.val, changes)
      /\ row.updated_at > old.updated_at
  BY <1>1 DEF LedgerInv, TokenInv, CorrectionKnown
<1>5. /\ write[r].diff = Difference(old.val, row.val)
      /\ row.val # old.val
      /\ row.val["line_id"] = old.val["line_id"]
  BY <1>3, <1>4, ChangedFieldsAreTheDifference DEF Row
<1>6. event'[id] = row /\ event' = [event EXCEPT ![id] = event'[id]]
  <2>1. event' = [event EXCEPT ![id] = row]
    BY DEF Commit
  <2>2. event'[id] = row
    BY <1>2, <2>1 DEF LedgerInv, TypeOK
  <2>3. QED
    BY <2>1, <2>2
<1>7. audit' = [audit EXCEPT ![id] =
                 Append(@, [by |-> r, changed |-> Difference(old.val, row.val)])]
  BY <1>5 DEF Commit
<1>8. SatisfiesConstraints(row.val)
  BY <1>1, <1>2 DEF SatisfiesConstraints, Row
<1>9. QED
  BY <1>1, <1>2, <1>4, <1>5, <1>6, <1>7, <1>8, LedgerData DEF Ledger!Correct

LEMMA NextIsALedgerStep ==
  ASSUME LedgerInv, [Next]_vars
  PROVE  [Ledger!Next]_Ledger!lvars
<1>1. ASSUME NEW r \in Requests, Commit(r)
      PROVE  Ledger!Next
  <2>1. Body(r).kind \in {"post", "patch"}
    BY <1>1, BodyTypes DEF LedgerInv, Commit, ControlInv, BodyKnown
  <2>2. write[r].id \in Requests
    BY <1>1, CommitKeepsRows DEF LedgerInv, Write
  <2>3. QED
    BY <1>1, <2>1, <2>2, CommitOfAPostRecords, CommitOfAPatchCorrects DEF Ledger!Next
<1>2. ASSUME NEW r \in Requests, Handle(r) \/ Fail(r), ~Commit(r)
      PROVE  UNCHANGED Ledger!lvars
  BY <1>2 DEF Handle, PostReceive, PostInsert, PostConflict, PatchRead, PatchUpdate,
       PatchStale, Respond, Fail, DiesAs, Ledger!lvars
<1>3. ASSUME NEW o \in Ops, Send(o) \/ Resend(o)
      PROVE  UNCHANGED Ledger!lvars
  BY <1>3 DEF Send, Resend, Ledger!lvars
<1>4. CASE UNCHANGED vars
  BY <1>4 DEF vars, Ledger!lvars
<1>5. QED
  BY <1>1, <1>2, <1>3, <1>4 DEF Next, Quiet

(* The handlers implement the ledger: each commit is one recorded row or   *)
(* one correction of the row as it then is, audited as exactly the         *)
(* difference it makes, and no other step touches the two tables.          *)
THEOREM HandlersImplementTheLedger ==
  ASSUME UniqueStamps = TRUE
  PROVE  Spec => LedgerSpec
<1>1. Init => Ledger!Init
  BY DEF Init, Ledger!Init
<1>2. LedgerInv /\ [Next]_vars => [Ledger!Next]_Ledger!lvars
  BY NextIsALedgerStep
<1>3. QED
  BY <1>1, <1>2, LedgerInvIsKept, PTL DEF Spec, LedgerSpec, Ledger!Spec

(* What is proved about any ledger, about this one.                        *)
Promises == INSTANCE EventLedgerProofs WITH Ids <- Requests

LEMMA PromisesAreAboutTheLedger ==
  /\ Promises!MarkersAreDistinct
  /\ Ledger!Init <=> Promises!Init
  /\ [Ledger!Next]_Ledger!lvars <=> [Promises!Next]_Promises!lvars
  /\ AuditChain <=> Promises!AuditChain
<1> USE DEF Ledger!Row, Promises!Row, Ledger!Values, Promises!Values, Ledger!Value,
            Promises!Value, Ledger!Fields, Promises!Fields
<1>1. Promises!MarkersAreDistinct
  BY MarkersAreDistinct DEF Promises!MarkersAreDistinct, Row, Values, Value, Fields
<1>2. Ledger!Init <=> Promises!Init
  BY DEF Ledger!Init, Promises!Init
<1>3. [Ledger!Next]_Ledger!lvars <=> [Promises!Next]_Promises!lvars
  BY DEF Ledger!Next, Promises!Next, Ledger!lvars, Promises!lvars,
         Ledger!Record, Promises!Record, Ledger!Correct, Promises!Correct,
         Ledger!SatisfiesConstraints, Promises!SatisfiesConstraints,
         Ledger!ValidPeriod, Promises!ValidPeriod,
         Ledger!Difference, Promises!Difference, Ledger!KeyUnused, Promises!KeyUnused
<1>4. AuditChain <=> Promises!AuditChain
  BY DEF AuditChain, Ledger!AuditChain, Promises!AuditChain
<1>5. QED
  BY <1>1, <1>2, <1>3, <1>4

(* The audit log explains every row the handlers leave in the table, field *)
(* by field, for any interleaving, retry and failure: what the ledger      *)
(* promises holds of whatever implements it.                               *)
THEOREM AuditLogExplainsTheRows ==
  ASSUME UniqueStamps = TRUE
  PROVE  Spec => []AuditChain
<1>1. Promises!Spec => []Promises!AuditChain
  BY Promises!LedgerKeepsItsPromises, PromisesAreAboutTheLedger, PTL
<1>2. LedgerSpec => Promises!Spec
  BY PromisesAreAboutTheLedger, PTL DEF LedgerSpec, Ledger!Spec, Promises!Spec
<1>3. AuditChain <=> Promises!AuditChain
  BY PromisesAreAboutTheLedger
<1>4. QED
  BY <1>1, <1>2, <1>3, HandlersImplementTheLedger, PTL

-----------------------------------------------------------------------------
(* Versions only grow.                                                     *)

(* Row i is left as it is or becomes a later version of itself.            *)
MovesOn(i) ==
  /\ event'[i] # None
  /\ event'[i].key = event[i].key
  /\ event[i].updated_at \in Nat
  /\ event'[i].updated_at \in Nat
  /\ event'[i] = event[i] \/ event'[i].updated_at > event[i].updated_at

LEMMA RowsMoveOn ==
  ASSUME LedgerInv, [Next]_vars, NEW i \in Requests, event[i] # None
  PROVE  MovesOn(i)
<1>1. event[i] \in Row /\ event[i].updated_at \in Nat
  BY DEF LedgerInv, TypeOK, Row
<1>2. CASE UNCHANGED <<event, audit>>
  BY <1>1, <1>2 DEF MovesOn
<1>3. ASSUME NEW r \in Requests, Commit(r)
      PROVE  MovesOn(i)
  <2>1. /\ write[r] \in Write
        /\ event'[write[r].id] = write[r].row
        /\ event'[i] # None
        /\ event'[i].key = event[i].key
        /\ i # write[r].id => event'[i] = event[i]
    BY <1>3, CommitKeepsRows DEF LedgerInv
  <2>2. CASE i # write[r].id
    BY <1>1, <2>1, <2>2 DEF MovesOn
  <2>3. CASE i = write[r].id
    <3>1. Body(r).kind = "patch"
      BY <1>3, <2>3, BodyTypes DEF LedgerInv, Commit, ControlInv, BodyKnown, WriteKnown, OwnRow
    <3>2. write[r].row.updated_at > event[i].updated_at
      BY <1>3, <2>3, <3>1 DEF LedgerInv, TokenInv, CorrectionKnown, Commit
    <3>3. write[r].row.updated_at \in Nat
      BY <2>1 DEF Write, Row
    <3>4. QED
      BY <1>1, <2>1, <2>3, <3>2, <3>3 DEF MovesOn
  <2>4. QED
    BY <2>2, <2>3
<1>4. QED
  BY <1>2, <1>3, TablesChangeByCommit

LEMMA SentPatches ==
  ASSUME LedgerInv, NEW r \in Requests, body[Op(r)] # None, Body(r).kind = "patch"
  PROVE  Body(r).id \in Requests /\ Body(r).expected \in Nat
BY BodyTypes DEF LedgerInv, PatchBody

-----------------------------------------------------------------------------
(* A token is spent once.                                                  *)

(* A correction about to be committed is of the version its client read.   *)
HeldToken(r) ==
  pc[r] = "commit" /\ Body(r).kind = "patch" =>
    /\ write[r].id = Body(r).id
    /\ event[write[r].id].updated_at = Body(r).expected

(* One that is audited has replaced that version.                          *)
SpentOn(r, i) ==
  /\ body[Op(r)] # None
  /\ Body(r).kind = "patch"
  /\ Body(r).id = i
  /\ event[i] # None
  /\ event[i].updated_at > Body(r).expected

Spent(i) == \A n \in DOMAIN audit[i] : SpentOn(audit[i][n].by, i)

SpentInv == (\A r \in Requests : HeldToken(r) /\ Spent(r)) /\ AppliedAtMostOnce

LEMMA NextHeldToken ==
  ASSUME LedgerInv, SpentInv, [Next]_vars, NEW q \in Requests
  PROVE  HeldToken(q)'
<1> SUFFICES ASSUME pc'[q] = "commit", Body(q)'.kind = "patch"
             PROVE  /\ write'[q].id = Body(q)'.id
                    /\ event'[write'[q].id].updated_at = Body(q)'.expected
  BY DEF HeldToken
<1>1. CASE PatchUpdate(q)
  <2>1. /\ pc[q] = "update"
        /\ local[q].id = Body(q).id
        /\ UNCHANGED <<event, body>>
        /\ local[q].id \in Requests
    BY <1>1 DEF PatchUpdate, LedgerInv, ControlInv, RowKnown, TypeOK, Local
  <2>2. CASE Goto(q, "stale") \/ Goto(q, "done")
    BY <2>2 DEF Goto, LedgerInv, TypeOK
  <2>3. CASE /\ event[local[q].id].updated_at = Body(q).expected
             /\ write' = [write EXCEPT ![q] =
                  [id |-> local[q].id, row |-> UpdatedRow(q), diff |-> local[q].diff]]
    BY <2>1, <2>3 DEF LedgerInv, TypeOK, Body
  <2>4. QED
    BY <1>1, <2>2, <2>3 DEF PatchUpdate, Finish, UpdatedRow
<1>2. CASE (Handle(q) \/ Fail(q)) /\ ~PatchUpdate(q)
  <2>1. PostInsert(q)
    BY <1>2 DEF Handle, PostReceive, PostConflict, PatchRead, PatchStale, Commit, Respond,
         Fail, DiesAs, Finish, Goto, LedgerInv, TypeOK
  <2>2. Body(q)'.kind = "post"
    BY <2>1 DEF PostInsert, Body, LedgerInv, ControlInv, BodyKnown
  <2>3. QED
    BY <2>2
<1>3. CASE Still(q) \/ IsSent(q)
  <2>1. pc[q] = "commit" /\ write'[q] = write[q]
    BY <1>3 DEF Still, IsSent
  <2>2. Body(q)' = Body(q)
    BY <2>1, OneHandlerMoves DEF LedgerInv, ControlInv, BodyKnown
  <2>3. /\ write[q].id = Body(q).id
        /\ event[write[q].id].updated_at = Body(q).expected
    BY <2>1, <2>2 DEF SpentInv, HeldToken
  <2>4. write[q] # None /\ write[q] \in Write
    BY <2>1 DEF LedgerInv, ControlInv, WriteKnown, TypeOK
  <2>5. event'[write[q].id] = event[write[q].id]
    <3>1. ASSUME NEW r \in Requests, Commit(r)
          PROVE  event'[write[q].id] = event[write[q].id]
      <4>1. r # q
        BY <1>3, <3>1, <2>1 DEF Commit, Goto, Still, IsSent, LedgerInv, TypeOK
      <4>2. write[r] # None
        BY <3>1 DEF Commit, LedgerInv, ControlInv, WriteKnown
      <4>3. write[r].id # write[q].id
        BY <2>4, <4>1, <4>2 DEF LedgerInv, KeyInv, LocksExclude
      <4>4. QED
        BY <2>4, <3>1, <4>3, CommitKeepsRows DEF LedgerInv, Write
    <3>2. QED
      BY <3>1, TablesChangeByCommit
  <2>6. QED
    BY <2>1, <2>2, <2>3, <2>5
<1>4. QED
  BY <1>1, <1>2, <1>3, OneHandlerMoves DEF LedgerInv

LEMMA SpentStays ==
  ASSUME LedgerInv, [Next]_vars, NEW r \in Requests, NEW i \in Requests, SpentOn(r, i)
  PROVE  SpentOn(r, i)'
<1>1. /\ body[Op(r)] # None
      /\ Body(r).kind = "patch"
      /\ Body(r).id = i
      /\ event[i] # None
      /\ event[i].updated_at > Body(r).expected
  BY DEF SpentOn
<1>2. Body(r)' = Body(r) /\ body'[Op(r)] # None
  BY <1>1, OneHandlerMoves DEF LedgerInv
<1>3. MovesOn(i) /\ Body(r).expected \in Nat
  BY <1>1, RowsMoveOn, SentPatches
<1>4. event'[i].updated_at > Body(r).expected
  BY <1>1, <1>3 DEF MovesOn
<1>5. QED
  BY <1>1, <1>2, <1>3, <1>4 DEF SpentOn, MovesOn

LEMMA CommitSpends ==
  ASSUME LedgerInv, SpentInv, [Next]_vars, NEW r \in Requests, Commit(r),
         Body(r).kind = "patch", NEW i \in Requests, i = write[r].id
  PROVE  SpentOn(r, i)'
<1>1. /\ pc[r] = "commit"
      /\ body[Op(r)] # None
      /\ i = Body(r).id
      /\ event[i].updated_at = Body(r).expected
      /\ event[i] # None
  BY DEF Commit, LedgerInv, ControlInv, BodyKnown, WriteKnown, SpentInv, HeldToken
<1>2. Body(r)' = Body(r) /\ body'[Op(r)] # None
  BY <1>1, OneHandlerMoves DEF LedgerInv
<1>3. event'[i] = write[r].row /\ event'[i] # None
  BY <1>1, CommitKeepsRows DEF LedgerInv
<1>4. write[r].row.updated_at > event[i].updated_at
  BY <1>1 DEF LedgerInv, TokenInv, CorrectionKnown
<1>5. QED
  BY <1>1, <1>2, <1>3, <1>4 DEF SpentOn

LEMMA AuditedByRequests ==
  ASSUME TypeOK, NEW i \in Requests, NEW n \in DOMAIN audit[i]
  PROVE  audit[i][n].by \in Requests
<1>1. audit[i] \in Seq(AuditEntry)
  BY DEF TypeOK
<1>2. audit[i][n] \in AuditEntry
  BY <1>1
<1>3. QED
  BY <1>2 DEF AuditEntry

(* Each entry of the log after a step is an old one or the commit's.       *)
LEMMA NextSpent ==
  ASSUME LedgerInv, SpentInv, [Next]_vars, NEW i \in Requests, NEW n \in DOMAIN audit'[i]
  PROVE  \E r \in Requests : r = audit'[i][n].by /\ SpentOn(r, i)'
<1>1. CASE n \in DOMAIN audit[i] /\ audit'[i][n] = audit[i][n]
  <2>1. PICK r \in Requests : r = audit[i][n].by
    BY <1>1, AuditedByRequests DEF LedgerInv
  <2>2. SpentOn(r, i)
    BY <1>1, <2>1 DEF SpentInv, Spent
  <2>3. SpentOn(r, i)'
    BY <2>2, SpentStays
  <2>4. QED
    BY <1>1, <2>1, <2>3
<1>2. CASE UNCHANGED <<event, audit>>
  BY <1>1, <1>2
<1>3. ASSUME NEW r \in Requests, Commit(r)
      PROVE  \E q \in Requests : q = audit'[i][n].by /\ SpentOn(q, i)'
  <2>1. CASE audit'[i][n].by = r /\ Body(r).kind = "patch" /\ i = write[r].id
    <3>1. SpentOn(r, i)'
      BY <1>3, <2>1, CommitSpends
    <3>2. QED
      BY <2>1, <3>1
  <2>2. QED
    BY <1>1, <1>3, <2>1, EntriesAreKept DEF LedgerInv
<1>4. QED
  BY <1>2, <1>3, TablesChangeByCommit

(* No entry of the row being corrected is by the operation committing.     *)
LEMMA CommitIsTheFirst ==
  ASSUME LedgerInv, SpentInv, NEW r \in Requests, Commit(r), Body(r).kind = "patch",
         NEW i \in Requests, i = write[r].id, NEW n \in DOMAIN audit[i]
  PROVE  Op(audit[i][n].by) # Op(r)
<1>1. PICK q \in Requests : q = audit[i][n].by
  BY AuditedByRequests DEF LedgerInv
<1>2. event[i].updated_at > Body(q).expected
  BY <1>1 DEF SpentInv, Spent, SpentOn
<1>3. event[i].updated_at = Body(r).expected
  BY DEF SpentInv, HeldToken, Commit
<1>4. body[Op(r)] # None /\ Body(r).expected \in Nat
  BY SentPatches DEF LedgerInv, Commit, ControlInv, BodyKnown
<1>5. ASSUME Op(q) = Op(r)
      PROVE  FALSE
  BY <1>2, <1>3, <1>4, <1>5 DEF Body
<1>6. QED
  BY <1>1, <1>5

LEMMA NextAppliedAtMostOnce ==
  ASSUME LedgerInv, SpentInv, [Next]_vars,
         NEW i \in Requests, NEW j \in Requests,
         NEW m \in DOMAIN audit'[i], NEW n \in DOMAIN audit'[j],
         Op(audit'[i][m].by) = Op(audit'[j][n].by)
  PROVE  i = j /\ m = n
<1>1. i = j
  <2>1. PICK q \in Requests : q = audit'[i][m].by /\ SpentOn(q, i)'
    BY NextSpent
  <2>2. PICK r \in Requests : r = audit'[j][n].by /\ SpentOn(r, j)'
    BY NextSpent
  <2>3. Op(q) = Op(r)
    BY <2>1, <2>2
  <2>4. QED
    BY <2>1, <2>2, <2>3 DEF SpentOn, Body
<1>2. CASE /\ m \in DOMAIN audit[i] /\ audit'[i][m] = audit[i][m]
           /\ n \in DOMAIN audit[i] /\ audit'[i][n] = audit[i][n]
  <2>1. PICK q \in Requests : q = audit[i][m].by
    BY <1>2, AuditedByRequests DEF LedgerInv
  <2>2. Op(q) \in Ops
    BY RequestFacts
  <2>3. QED
    BY <1>1, <1>2, <2>1, <2>2 DEF SpentInv, AppliedAtMostOnce
<1>3. CASE UNCHANGED <<event, audit>>
  BY <1>1, <1>2, <1>3
<1>4. ASSUME NEW r \in Requests, Commit(r)
      PROVE  m = n
  <2> DEFINE Old(k) == k \in DOMAIN audit[i] /\ audit'[i][k] = audit[i][k]
             New(k) == /\ audit'[i][k].by = r
                       /\ Body(r).kind = "patch"
                       /\ i = write[r].id
                       /\ k = Len(audit[i]) + 1
  <2>1. (Old(m) \/ New(m)) /\ (Old(n) \/ New(n))
    BY <1>1, <1>4, EntriesAreKept DEF LedgerInv
  <2>2. ~(Old(m) /\ New(n))
    BY <1>1, <1>4, CommitIsTheFirst
  <2>3. ~(New(m) /\ Old(n))
    BY <1>1, <1>4, CommitIsTheFirst
  <2>4. CASE New(m) /\ New(n)
    BY <2>4
  <2>5. QED
    BY <1>2, <2>1, <2>2, <2>3, <2>4
<1>5. QED
  BY <1>1, <1>3, <1>4, TablesChangeByCommit

LEMMA NextSpentInv ==
  ASSUME LedgerInv, SpentInv, [Next]_vars
  PROVE  SpentInv'
<1>1. \A r \in Requests : HeldToken(r)'
  BY NextHeldToken
<1>2. ASSUME NEW i \in Requests
      PROVE  Spent(i)'
  BY NextSpent DEF Spent, SpentOn
<1>3. AppliedAtMostOnce'
  BY NextAppliedAtMostOnce DEF AppliedAtMostOnce
<1>4. QED
  BY <1>1, <1>2, <1>3 DEF SpentInv

(* However often a PATCH is delivered, and whichever of its deliveries     *)
(* runs late, one of them at most changes the row: its commit replaces the *)
(* version the body names, and versions never come back.                   *)
THEOREM CorrectionsApplyOnce ==
  ASSUME UniqueStamps = TRUE
  PROVE  Spec => []AppliedAtMostOnce
<1>1. Init => SpentInv
  BY DEF Init, SpentInv, HeldToken, Spent, AppliedAtMostOnce
<1>2. LedgerInv /\ SpentInv /\ [Next]_vars => SpentInv'
  BY NextSpentInv
<1>3. SpentInv => AppliedAtMostOnce
  BY DEF SpentInv
<1>4. QED
  BY <1>1, <1>2, <1>3, LedgerInvIsKept, PTL DEF Spec

-----------------------------------------------------------------------------
(* What a stale token means.                                               *)

(* A token is the version the row had, or an earlier one; one that names   *)
(* no row names none for good: its id is the client's own.                 *)
TokenOrder(o) ==
  body[o] # None /\ body[o].kind = "patch" =>
    /\ event[body[o].id] # None \/ Op(body[o].id) = o
    /\ event[body[o].id] # None => event[body[o].id].updated_at >= body[o].expected

StaleKnown(r) ==
  /\ pc[r] = "stale" => event[local[r].id].updated_at > Body(r).expected
  /\ reply[r] # None /\ reply[r].status = 409 /\ Body(r).kind = "patch" =>
       reply[r].row.updated_at > Body(r).expected

StaleInv == (\A o \in Ops : TokenOrder(o)) /\ (\A r \in Requests : StaleKnown(r))

LEMMA NextTokenOrder ==
  ASSUME LedgerInv, LedgerInv', StaleInv, [Next]_vars, NEW o \in Ops
  PROVE  TokenOrder(o)'
<1> DEFINE p == <<o, 1>>
<1>1. p \in Requests /\ Op(p) = o
  BY RequestFacts DEF Op
<1>2. CASE body[o] # None
  <2>1. body'[o] = body[o]
    BY <1>1, <1>2, OneHandlerMoves DEF LedgerInv, Body
  <2>2. SUFFICES ASSUME body[o].kind = "patch", NEW i \in Requests, i = body[o].id
                 PROVE  /\ event'[i] # None \/ Op(i) = o
                        /\ event'[i] # None => event'[i].updated_at >= body[o].expected
    BY <1>1, <1>2, <2>1, SentPatches DEF TokenOrder, Body
  <2>3. body[o].expected \in Nat
    BY <1>1, <1>2, <2>2, SentPatches DEF Body
  <2>4. CASE event[i] # None
    <3>1. MovesOn(i)
      BY <2>4, RowsMoveOn
    <3>2. event[i].updated_at >= body[o].expected
      BY <1>2, <2>2, <2>4 DEF StaleInv, TokenOrder
    <3>3. QED
      BY <2>3, <3>1, <3>2 DEF MovesOn
  <2>5. CASE event[i] = None
    <3>1. Op(i) = o
      BY <1>2, <2>2, <2>5 DEF StaleInv, TokenOrder
    <3>2. event'[i] # None => body'[Op(i)].kind = "post"
      BY DEF LedgerInv, ControlInv, OwnRow, Body
    <3>3. QED
      BY <2>1, <2>2, <3>1, <3>2
  <2>6. QED
    BY <2>4, <2>5
<1>3. CASE body[o] = None
  <2>1. CASE Send(o) /\ SendPatch(o)
    <3>1. PICK c \in PatchChanges, i \in Requests :
            /\ event[i] # None \/ i = <<o, 1>>
            /\ body' = [body EXCEPT ![o] =
                 [kind |-> "patch", id |-> i, changes |-> c,
                  expected |-> IF event[i] = None THEN clock ELSE event[i].updated_at]]
      BY <2>1 DEF SendPatch
    <3>2. UNCHANGED event
      BY <2>1 DEF Send
    <3>3. body'[o].id = i /\ (event[i] # None => body'[o].expected = event[i].updated_at)
      BY <3>1 DEF LedgerInv, TypeOK
    <3>4. event[i] # None => event[i].updated_at \in Nat
      BY DEF LedgerInv, TypeOK, Row
    <3>5. QED
      BY <1>1, <3>1, <3>2, <3>3, <3>4 DEF TokenOrder
  <2>2. CASE Send(o) /\ SendPost(o)
    BY <2>2 DEF SendPost, TokenOrder, LedgerInv, TypeOK
  <2>3. CASE body'[o] = None
    BY <2>3 DEF TokenOrder
  <2>4. ASSUME NEW q \in Ops, Send(q)
        PROVE  TokenOrder(o)'
    <3>1. CASE q = o
      BY <2>1, <2>2, <2>4, <3>1 DEF Send
    <3>2. CASE q # o
      BY <1>3, <2>3, <2>4, <3>2 DEF Send, SendPost, SendPatch, LedgerInv, TypeOK
    <3>3. QED
      BY <3>1, <3>2
  <2>5. ASSUME NEW q \in Ops, Resend(q)
        PROVE  body'[o] = None
    BY <1>3, <2>5 DEF Resend
  <2>6. ASSUME NEW r \in Requests, Handle(r) \/ Fail(r)
        PROVE  body'[o] = None
    BY <1>3, <2>6 DEF Handle, PostReceive, PostInsert, PostConflict, PatchRead, PatchUpdate,
       PatchStale, Commit, Respond, Fail, DiesAs
  <2>7. UNCHANGED vars => body'[o] = None
    BY <1>3 DEF vars
  <2>8. QED
    BY <2>3, <2>4, <2>5, <2>6, <2>7 DEF Next, Quiet
<1>4. QED
  BY <1>2, <1>3

(* The version a PATCH compares with is not in the future.                 *)
LEMMA TokensAreOld ==
  ASSUME LedgerInv, StaleInv, NEW r \in Requests, body[Op(r)] # None,
         Body(r).kind = "patch", event[Body(r).id] # None
  PROVE  /\ event[Body(r).id].updated_at \in Nat
         /\ Body(r).expected \in Nat
         /\ event[Body(r).id].updated_at >= Body(r).expected
<1>1. Op(r) \in Ops /\ Body(r).id \in Requests /\ Body(r).expected \in Nat
  BY RequestFacts, SentPatches
<1>2. event[Body(r).id].updated_at >= Body(r).expected
  BY <1>1 DEF StaleInv, TokenOrder, Body
<1>3. event[Body(r).id].updated_at \in Nat
  BY <1>1 DEF LedgerInv, TypeOK, Row
<1>4. QED
  BY <1>1, <1>2, <1>3

LEMMA StaleKnownAfterItsStep ==
  ASSUME LedgerInv, StaleInv, NEW q \in Requests, Handle(q) \/ Fail(q), reply[q] = None
  PROVE  StaleKnown(q)'
<1>1. Body(q)' = Body(q)
  BY DEF Body, Handle, PostReceive, PostInsert, PostConflict, PatchRead, PatchUpdate,
     PatchStale, Commit, Respond, Fail, DiesAs
<1> USE DEF Finish, Goto, SetLocal
<1>2. CASE PostReceive(q) \/ PostInsert(q) \/ PostConflict(q)
  <2>1. Body(q).kind = "post"
    BY <1>2 DEF PostReceive, PostInsert, PostConflict, LedgerInv, ControlInv, BodyKnown
  <2>2. pc'[q] # "stale"
    BY <1>2 DEF PostReceive, PostInsert, PostConflict, LedgerInv, TypeOK
  <2>3. QED
    BY <1>1, <2>1, <2>2 DEF StaleKnown
<1>3. CASE PatchRead(q)
  <2> DEFINE row == event[Body(q).id]
             verdict == PatchVerdict(row, Body(q))
  <2>1. body[Op(q)] # None /\ Body(q).kind = "patch"
    BY <1>3 DEF PatchRead, LedgerInv, ControlInv, BodyKnown
  <2>2. verdict = 409 => row # None /\ row.updated_at # Body(q).expected
    BY DEF PatchVerdict
  <2>3. verdict = 409 => row.updated_at > Body(q).expected
    BY <2>1, <2>2, TokensAreOld
  <2> HIDE DEF verdict
  <2>4. CASE Finish(q, verdict, IF verdict = 409 THEN row ELSE None)
    BY <1>1, <2>3, <2>4 DEF StaleKnown, LedgerInv, TypeOK
  <2>5. CASE UNCHANGED reply /\ (Goto(q, "respond") \/ Goto(q, "update"))
    BY <2>5 DEF StaleKnown, LedgerInv, TypeOK
  <2>6. QED
    BY <1>3, <2>4, <2>5 DEF PatchRead, verdict
<1>4. CASE PatchUpdate(q)
  <2>1. /\ pc[q] = "update"
        /\ body[Op(q)] # None /\ Body(q).kind = "patch"
        /\ local[q].id = Body(q).id /\ event[local[q].id] # None
        /\ UNCHANGED <<event, local>>
    BY <1>4 DEF PatchUpdate, LedgerInv, ControlInv, BodyKnown, RowKnown
  <2>2. CASE event[local[q].id].updated_at # Body(q).expected /\ UNCHANGED reply
    BY <1>1, <2>1, <2>2, TokensAreOld DEF StaleKnown
  <2>3. CASE pc'[q] # "stale" /\ (UNCHANGED reply \/ Finish(q, 500, None))
    BY <2>3 DEF StaleKnown, LedgerInv, TypeOK
  <2>4. QED
    BY <1>4, <2>2, <2>3 DEF PatchUpdate, LedgerInv, TypeOK
<1>5. CASE PatchStale(q)
  <2>1. event[local[q].id].updated_at > Body(q).expected
    BY <1>5 DEF PatchStale, StaleInv, StaleKnown
  <2>2. reply'[q].row = event[local[q].id] /\ pc'[q] = "done"
    BY <1>5 DEF PatchStale, LedgerInv, TypeOK
  <2>3. QED
    BY <1>1, <2>1, <2>2 DEF StaleKnown
<1>6. CASE Commit(q) \/ Fail(q)
  BY <1>6 DEF Commit, Fail, DiesAs, StaleKnown, LedgerInv, TypeOK
<1>7. CASE Respond(q)
  <2>1. pc'[q] = "done" /\ reply'[q].status \in {200, 201}
    BY <1>7 DEF Respond, LedgerInv, TypeOK, Local
  <2>2. QED
    BY <2>1 DEF StaleKnown
<1>8. QED
  BY <1>2, <1>3, <1>4, <1>5, <1>6, <1>7 DEF Handle

LEMMA NextStaleInv ==
  ASSUME LedgerInv, LedgerInv', AnsweredIsDone, StaleInv, [Next]_vars
  PROVE  StaleInv'
<1>1. SUFFICES ASSUME NEW q \in Requests
               PROVE  StaleKnown(q)'
  BY NextTokenOrder DEF StaleInv
<1>2. CASE Handle(q) \/ Fail(q)
  BY <1>2, AnswersComeLast, StaleKnownAfterItsStep DEF LedgerInv, AnsweredIsDone, Active
<1>3. CASE Still(q) \/ IsSent(q)
  <2>1. /\ local'[q] = local[q] /\ reply'[q] = reply[q]
        /\ pc'[q] = pc[q] \/ pc'[q] = "sent"
    BY <1>3 DEF Still, IsSent
  <2>2. pc[q] # "idle" => Body(q)' = Body(q) /\ body[Op(q)] # None
    BY OneHandlerMoves DEF LedgerInv, ControlInv, BodyKnown
  <2>3. reply[q] # None => pc[q] # "idle"
    BY DEF AnsweredIsDone
  <2>4. StaleKnown(q)
    BY DEF StaleInv
  <2>5. pc'[q] = "stale" => event'[local[q].id].updated_at > Body(q).expected
    <3>1. SUFFICES ASSUME pc[q] = "stale"
                   PROVE  event'[local[q].id].updated_at > Body(q).expected
      BY <2>1
    <3>2. /\ local[q].id \in Requests /\ event[local[q].id] # None
          /\ Body(q).kind = "patch"
      BY <3>1 DEF LedgerInv, ControlInv, RowKnown, BodyKnown, TypeOK, Local
    <3>3. MovesOn(local[q].id) /\ Body(q).expected \in Nat
      BY <2>2, <3>1, <3>2, RowsMoveOn, SentPatches
    <3>4. event[local[q].id].updated_at > Body(q).expected
      BY <2>4, <3>1 DEF StaleKnown
    <3>5. QED
      BY <3>3, <3>4 DEF MovesOn
  <2>6. QED
    BY <2>1, <2>2, <2>3, <2>4, <2>5 DEF StaleKnown
<1>4. QED
  BY <1>2, <1>3, OneHandlerMoves DEF LedgerInv

(* A PATCH that is refused as stale is told of a row that really is newer  *)
(* than the version it named: tokens are versions the row has had, and a   *)
(* version that does not match is a later one, however long the handler    *)
(* waited before it looked again.                                          *)
THEOREM StaleIsNewer ==
  ASSUME UniqueStamps = TRUE
  PROVE  Spec => []StaleReportsANewerRow
<1>1. Init => AnsweredIsDone /\ StaleInv
  BY DEF Init, AnsweredIsDone, StaleInv, TokenOrder, StaleKnown
<1>2. LedgerInv /\ LedgerInv' /\ AnsweredIsDone /\ StaleInv /\ [Next]_vars
        => AnsweredIsDone' /\ StaleInv'
  BY NextAnsweredIsDone, NextStaleInv DEF LedgerInv
<1>3. StaleInv => StaleReportsANewerRow
  BY DEF StaleInv, StaleKnown, StaleReportsANewerRow
<1>4. QED
  BY <1>1, <1>2, <1>3, LedgerInvIsKept, PTL DEF Spec

-----------------------------------------------------------------------------
(* What a success means.                                                   *)

(* The row a handler is about to answer with is there, at the version it   *)
(* wrote or a later one, and under the key that was posted.                *)
AnswerKnown(r) ==
  pc[r] = "respond" =>
    LET row == event[local[r].id] IN
    /\ row # None
    /\ local[r].status = 201 \/ local[r].diff # NoDiff => row.updated_at >= local[r].stamp
    /\ Body(r).kind = "post" => row.key = Body(r).key

(* The row that was answered is in the table, or an earlier version of it. *)
Answered(r) ==
  reply[r] # None /\ reply[r].status \in {200, 201} =>
    LET id == local[r].id IN
    /\ event[id] # None
    /\ reply[r].row # None
    /\ reply[r].row.updated_at \in Nat
    /\ reply[r].row.updated_at <= event[id].updated_at
    /\ reply[r].row.updated_at = event[id].updated_at => reply[r].row = event[id]
    /\ reply[r].status = 201 \/ local[r].diff # NoDiff
         => reply[r].row.updated_at >= local[r].stamp
    /\ Body(r).kind = "post" => reply[r].row.key = Body(r).key

AnswerInv == \A r \in Requests : AnswerKnown(r) /\ Answered(r)

LEMMA AnswerKnownAfterItsStep ==
  ASSUME LedgerInv, NEW q \in Requests, Handle(q) \/ Fail(q)
  PROVE  AnswerKnown(q)'
<1>1. Body(q)' = Body(q)
  BY DEF Body, Handle, PostReceive, PostInsert, PostConflict, PatchRead, PatchUpdate,
     PatchStale, Commit, Respond, Fail, DiesAs
<1> SUFFICES ASSUME pc'[q] = "respond"
             PROVE  AnswerKnown(q)'
  BY DEF AnswerKnown
<1>2. CASE PostConflict(q)
  <2> DEFINE existing == CHOOSE id \in Requests : id \in RowsWithKey(Body(q).key)
  <2>1. /\ existing \in Requests
        /\ event[existing] # None
        /\ event[existing].key = Body(q).key
    <3>1. RowsWithKey(Body(q).key) # {}
      BY <1>2 DEF PostConflict, LedgerInv, ControlInv, RowKnown
    <3>2. existing \in RowsWithKey(Body(q).key)
      BY <3>1 DEF RowsWithKey
    <3>3. QED
      BY <3>2 DEF RowsWithKey
  <2>2. SetLocal(q, existing, 0, NoDiff, 200) /\ UNCHANGED event
    BY <1>2 DEF PostConflict, Finish, Goto, LedgerInv, TypeOK
  <2> HIDE DEF existing
  <2>3. local'[q] = [id |-> existing, stamp |-> 0, diff |-> NoDiff, status |-> 200]
    BY <2>2 DEF SetLocal, LedgerInv, TypeOK
  <2>4. QED
    BY <1>1, <2>1, <2>2, <2>3 DEF AnswerKnown
<1>3. CASE PatchRead(q)
  <2>1. event[Body(q).id] # None /\ SetLocal(q, Body(q).id, 0, NoDiff, 200) /\ UNCHANGED event
    BY <1>3, VerdictFacts DEF PatchRead, Finish, Goto, LedgerInv, TypeOK
  <2>2. local'[q] = [id |-> Body(q).id, stamp |-> 0, diff |-> NoDiff, status |-> 200]
    BY <2>1 DEF SetLocal, LedgerInv, TypeOK
  <2>3. Body(q).kind = "patch"
    BY <1>3 DEF PatchRead
  <2>4. QED
    BY <1>1, <2>1, <2>2, <2>3 DEF AnswerKnown
<1>4. CASE Commit(q)
  <2>1. /\ pc[q] = "commit"
        /\ UNCHANGED local
        /\ write[q].id = local[q].id
        /\ write[q].row.updated_at = local[q].stamp
        /\ local[q].stamp \in Nat
    BY <1>4 DEF Commit, LedgerInv, ControlInv, WriteKnown, StampInv, InFlight, TypeOK, Local
  <2>2. event'[local[q].id] = write[q].row /\ write[q].row # None
    BY <1>4, <2>1, CommitKeepsRows DEF LedgerInv
  <2>3. Body(q).kind = "post" => write[q].row.key = Body(q).key
    BY <2>1 DEF LedgerInv, ControlInv, WriteKnown
  <2>4. QED
    BY <1>1, <2>1, <2>2, <2>3 DEF AnswerKnown
<1>5. CASE PostReceive(q) \/ PostInsert(q) \/ PatchUpdate(q) \/ PatchStale(q) \/ Respond(q) \/ Fail(q)
  BY <1>5 DEF PostReceive, PostInsert, PatchUpdate, PatchStale, Respond, Fail, DiesAs, Finish, Goto,
     LedgerInv, TypeOK
<1>6. QED
  BY <1>2, <1>3, <1>4, <1>5 DEF Handle

LEMMA AnsweredAfterItsStep ==
  ASSUME LedgerInv, AnswerInv, NEW q \in Requests, Handle(q) \/ Fail(q), reply[q] = None
  PROVE  Answered(q)'
<1>1. CASE Respond(q)
  <2> DEFINE row == event[local[q].id]
  <2>1. /\ pc[q] = "respond"
        /\ UNCHANGED <<event, local, body>>
        /\ reply'[q] = [status |-> local[q].status, row |-> row]
    BY <1>1 DEF Respond, Finish, LedgerInv, TypeOK
  <2>2. /\ row # None
        /\ local[q].status = 201 \/ local[q].diff # NoDiff => row.updated_at >= local[q].stamp
        /\ Body(q).kind = "post" => row.key = Body(q).key
    BY <2>1 DEF AnswerInv, AnswerKnown
  <2>3. row.updated_at \in Nat
    BY <2>2 DEF LedgerInv, TypeOK, Local, Row
  <2> HIDE DEF row
  <2>4. event'[local'[q].id] = row
    BY <2>1 DEF row
  <2>5. QED
    BY <2>1, <2>2, <2>3, <2>4 DEF Answered, Body
<1>2. CASE (Handle(q) \/ Fail(q)) /\ ~Respond(q)
  <2>1. reply'[q] = None \/ reply'[q].status \in {404, 409, 422, 500}
    <3> USE DEF Finish, LedgerInv, TypeOK
    <3>1. CASE PatchRead(q)
      BY <3>1, VerdictFacts DEF PatchRead
    <3>2. CASE PostReceive(q) \/ PostConflict(q) \/ PatchUpdate(q)
      BY <3>2 DEF PostReceive, PostConflict, PatchUpdate
    <3>3. CASE PostInsert(q) \/ PatchStale(q) \/ Commit(q) \/ Fail(q)
      BY <3>3 DEF PostInsert, PatchStale, Commit, Fail, DiesAs
    <3>4. QED
      BY <1>2, <3>1, <3>2, <3>3 DEF Handle
  <2>2. QED
    BY <2>1 DEF Answered
<1>3. QED
  BY <1>1, <1>2

LEMMA NextAnswerInv ==
  ASSUME LedgerInv, AnsweredIsDone, AnswerInv, [Next]_vars
  PROVE  AnswerInv'
<1>1. SUFFICES ASSUME NEW q \in Requests
               PROVE  AnswerKnown(q)' /\ Answered(q)'
  BY DEF AnswerInv
<1>2. CASE Handle(q) \/ Fail(q)
  BY <1>2, AnswersComeLast, AnswerKnownAfterItsStep, AnsweredAfterItsStep
     DEF LedgerInv, AnsweredIsDone, Active
<1>3. CASE Still(q) \/ IsSent(q)
  <2>1. /\ local'[q] = local[q] /\ reply'[q] = reply[q]
        /\ pc'[q] = pc[q] \/ pc'[q] = "sent"
    BY <1>3 DEF Still, IsSent
  <2>2. pc[q] # "idle" => Body(q)' = Body(q)
    BY OneHandlerMoves DEF LedgerInv, ControlInv, BodyKnown
  <2>3. reply[q] # None => pc[q] # "idle"
    BY DEF AnsweredIsDone
  <2>4. AnswerKnown(q) /\ Answered(q)
    BY DEF AnswerInv
  <2>5. event[local[q].id] # None => MovesOn(local[q].id)
    BY RowsMoveOn DEF LedgerInv, TypeOK, Local
  <2>6. local[q].stamp \in Nat
    BY DEF LedgerInv, TypeOK, Local
  <2>7. AnswerKnown(q)'
    <3>1. SUFFICES ASSUME pc[q] = "respond"
                   PROVE  AnswerKnown(q)'
      BY <2>1 DEF AnswerKnown
    <3>2. /\ event[local[q].id] # None
          /\ local[q].status = 201 \/ local[q].diff # NoDiff
               => event[local[q].id].updated_at >= local[q].stamp
          /\ Body(q).kind = "post" => event[local[q].id].key = Body(q).key
      BY <2>4, <3>1 DEF AnswerKnown
    <3>3. QED
      BY <2>1, <2>2, <2>5, <2>6, <3>1, <3>2 DEF AnswerKnown, MovesOn
  <2>8. Answered(q)'
    <3>1. SUFFICES ASSUME reply[q] # None, reply[q].status \in {200, 201}
                   PROVE  Answered(q)'
      BY <2>1 DEF Answered
    <3>2. /\ event[local[q].id] # None
          /\ reply[q].row # None
          /\ reply[q].row.updated_at \in Nat
          /\ reply[q].row.updated_at <= event[local[q].id].updated_at
          /\ reply[q].row.updated_at = event[local[q].id].updated_at
               => reply[q].row = event[local[q].id]
      BY <2>4, <3>1 DEF Answered
    <3>3. /\ event'[local[q].id] # None
          /\ reply[q].row.updated_at <= event'[local[q].id].updated_at
          /\ reply[q].row.updated_at = event'[local[q].id].updated_at
               => reply[q].row = event'[local[q].id]
      BY <2>5, <3>2 DEF MovesOn
    <3>4. Body(q)' = Body(q)
      BY <2>2, <2>3, <3>1
    <3>5. QED
      BY <2>1, <2>4, <3>1, <3>2, <3>3, <3>4 DEF Answered
  <2>9. QED
    BY <2>7, <2>8
<1>4. QED
  BY <1>2, <1>3, OneHandlerMoves DEF LedgerInv

(* A 200 or 201 is never taken back: the row in the response is in the     *)
(* table for good, at the version answered or a later one, it includes     *)
(* what the request wrote, and a POST is answered with a row of its key.   *)
THEOREM SuccessLasts ==
  ASSUME UniqueStamps = TRUE
  PROVE  Spec => []SuccessIsDurable
<1>1. Init => AnsweredIsDone /\ AnswerInv
  BY DEF Init, AnsweredIsDone, AnswerInv, AnswerKnown, Answered
<1>2. LedgerInv /\ AnsweredIsDone /\ AnswerInv /\ [Next]_vars => AnsweredIsDone' /\ AnswerInv'
  BY NextAnsweredIsDone, NextAnswerInv DEF LedgerInv
<1>3. AnswerInv => SuccessIsDurable
  BY DEF AnswerInv, Answered, SuccessIsDurable
<1>4. QED
  BY <1>1, <1>2, <1>3, LedgerInvIsKept, PTL DEF Spec

=============================================================================
