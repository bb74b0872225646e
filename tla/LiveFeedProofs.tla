---------------------------- MODULE LiveFeedProofs ----------------------------
(***************************************************************************)
(* Proofs about LiveFeed, for any lines, deterministic events, window,     *)
(* pool, number of overlapping runs, faults and corrections.               *)
(***************************************************************************)
EXTENDS LiveFeed, FiniteSetTheorems, TLAPS

(* The strengthening. *)

Things == (Lines \X Nat) \union Events

FeedRows == [started : Nat, end : Nat \union {Open}, version : Nat,
             by : {"feed", "operator"}]

Calls == [kind : {"record", "event", "close"}, what : Things, end : Nat \union {Open},
          expected : Nat, saw : SUBSET FeedRows, attempt : 1..Attempts]

RunStates == [pc : {"idle", "posting"}, cutoff : Nat, failed : BOOLEAN,
              calls : Seq(Calls), gap : BOOLEAN]

Typed ==
  /\ now \in 0..LastTick
  /\ stored \subseteq Lines \X Nat
  /\ event \in [Events -> SUBSET FeedRows]
  /\ run \in [Runs -> RunStates]
  /\ stray \subseteq Calls
  /\ troubles \in 0..MaxTroubles
  /\ disturbed \subseteq Runs /\ succeeded \subseteq Nat /\ alarm \in BOOLEAN

(* The unique index holds one row of an event.                             *)
OneRow == \A e \in Events : Exists(e) => event[e] = {Row(e)}

(* What a call asks has happened, and a closing names the version of the    *)
(* open row that it was planned from.                                       *)
CallKnown(c) ==
  /\ c.kind = "record" => c.what \in Lines \X Nat /\ (c.what[2] + 1) * Bucket <= now
  /\ c.kind = "event" =>
       /\ c.what \in Events
       /\ EventStart[c.what] < now
       /\ c.end = Open \/ (c.end = EventEnd[c.what] /\ c.end <= now)
  /\ c.kind = "close" =>
       /\ c.what \in Events
       /\ c.end = EventEnd[c.what] /\ c.end <= now
       /\ Exists(c.what)
       /\ c.expected <= Row(c.what).version
       /\ c.expected = Row(c.what).version => event[c.what] = c.saw /\ Row(c.what).end = Open

CallsKnown ==
  /\ \A c \in stray : CallKnown(c)
  /\ \A r \in Runs : \A i \in DOMAIN run[r].calls : CallKnown(run[r].calls[i])

RunsAtRest == \A r \in Runs : run[r].pc = "idle" => run[r] = NotRunning

FeedInv == Typed /\ OneRow /\ RunsAtRest /\ CallsKnown /\ NothingFromTheFuture

Settled(e) == Exists(e) /\ (Row(e).end # Open \/ Row(e).by = "operator")

ToDo(r, kind, what) ==
  \E i \in DOMAIN run[r].calls : run[r].calls[i].kind = kind /\ run[r].calls[i].what = what

(* Nothing of the plan of a run without a failure is forgotten.            *)
PlanIsCovered(r) ==
  run[r].pc = "posting" /\ ~run[r].failed =>
    /\ \A x \in PlannedRecords(run[r].cutoff) : x \in stored \/ ToDo(r, "record", x)
    /\ \A e \in PlannedEvents(run[r].cutoff) :
         /\ Exists(e) \/ ToDo(r, "event", e)
         /\ EventEnd[e] <= run[r].cutoff =>
              Settled(e) \/ ToDo(r, "event", e) \/ ToDo(r, "close", e)

(* The calls of a run are of its plan, and no two of one event.            *)
CallsArePlanned(r) ==
  \A i \in DOMAIN run[r].calls :
    LET c == run[r].calls[i] IN
    c.kind # "record" =>
      /\ c.what \in PlannedEvents(run[r].cutoff)
      /\ c.kind = "event" => c.end = VisibleEnd(c.what, run[r].cutoff)
      /\ \A j \in DOMAIN run[r].calls :
           j # i /\ run[r].calls[j].kind # "record" => run[r].calls[j].what # c.what

(* What an undisturbed run has planned is still right.                     *)
PlanStillHolds(r) ==
  r \notin disturbed =>
    /\ \A i \in DOMAIN run[r].calls :
         LET c == run[r].calls[i] IN
         /\ c.kind = "event" => ~Exists(c.what)
         /\ c.kind = "close" => Row(c.what).version = c.expected
    /\ run[r].failed => \E e \in PlannedEvents(run[r].cutoff) : Hopeless(e)

PlanInv == \A r \in Runs : PlanIsCovered(r) /\ CallsArePlanned(r) /\ PlanStillHolds(r)

(* No run has failed or found a gap.                                       *)
Quiet == ~alarm /\ \A r \in Running : ~run[r].failed /\ ~run[r].gap

(* The windows that were or will be filled, if all stays quiet,            *)
Cutoffs == succeeded \union {run[r].cutoff : r \in Running}

Covered(i) == \E c \in Cutoffs : c - CatchUp <= i * Bucket /\ (i + 1) * Bucket <= c

(* and the buckets that are or will be stored.                             *)
Begun == stored \union {x \in Lines \X Nat : \E r \in Running : ToDo(r, "record", x)}

RunsAreRecent ==
  \A r \in Running :
    /\ LatestClosedBucket(now) <= run[r].cutoff + Patience
    /\ \A i \in DOMAIN run[r].calls :
         run[r].calls[i].kind = "record" =>
           run[r].calls[i].what \in PlannedRecords(run[r].cutoff)

CutoffsArePast == \A c \in Cutoffs : c <= now /\ \E k \in Nat : c = k * Bucket

(* The windows leave no bucket out between them.                           *)
WindowsOverlap ==
  /\ \A d \in stray : d.kind = "record" => d.what \in Begun
  /\ \A x \in Begun : \E c \in Cutoffs : (x[2] + 1) * Bucket <= c
  /\ \A x \in Begun, c \in Cutoffs, i \in Nat :
       x[2] <= i /\ (i + 1) * Bucket <= c => Covered(i)

WindowInv == RunsAreRecent /\ CutoffsArePast /\ (Quiet => WindowsOverlap)

-----------------------------------------------------------------------------
(* Lists of calls. *)

LEMMA Concatenation ==
  ASSUME NEW S, NEW p \in Seq(S), NEW q \in Seq(S)
  PROVE  /\ p \o q \in Seq(S) /\ Len(p \o q) = Len(p) + Len(q)
         /\ Len(p) \in Nat /\ Len(q) \in Nat
         /\ \A i \in 1..(Len(p) + Len(q)) :
              (p \o q)[i] = IF i <= Len(p) THEN p[i] ELSE q[i - Len(p)]
OBVIOUS

LEMMA RemoveAtFacts ==
  ASSUME NEW S, NEW s \in Seq(S), NEW i \in DOMAIN s
  PROVE  /\ RemoveAt(s, i) \in Seq(S)
         /\ DOMAIN RemoveAt(s, i) = 1..(Len(s) - 1)
         /\ DOMAIN s = 1..Len(s) /\ Len(s) \in Nat
         /\ \A k \in 1..(Len(s) - 1) :
              RemoveAt(s, i)[k] = IF k < i THEN s[k] ELSE s[k + 1]
<1> DEFINE front == SubSeq(s, 1, i - 1)
           back == SubSeq(s, i + 1, Len(s))
<1>1. Len(s) \in Nat /\ i \in 1..Len(s) /\ DOMAIN s = 1..Len(s)
  OBVIOUS
<1>2. front \in Seq(S) /\ Len(front) = i - 1 /\ \A k \in 1..(i - 1) : front[k] = s[k]
  <2>1. \A k \in 1..(i - 1) : s[k] \in S
    BY <1>1
  <2>2. QED
    BY <1>1, <2>1
<1>3. back \in Seq(S) /\ Len(back) = Len(s) - i /\ \A k \in 1..(Len(s) - i) : back[k] = s[k + i]
  <2>1. \A k \in (i + 1)..Len(s) : s[k] \in S
    BY <1>1
  <2>2. QED
    BY <1>1, <2>1
<1> HIDE DEF front, back
<1>4. PICK w : w = front \o back
  OBVIOUS
<1>5. /\ w \in Seq(S)
      /\ DOMAIN w = 1..(Len(s) - 1)
      /\ \A k \in 1..(Len(s) - 1) : w[k] = IF k <= i - 1 THEN front[k] ELSE back[k - (i - 1)]
  <2>1. /\ w \in Seq(S) /\ Len(w) = Len(front) + Len(back)
        /\ \A k \in 1..(Len(front) + Len(back)) :
             w[k] = IF k <= Len(front) THEN front[k] ELSE back[k - Len(front)]
    BY <1>2, <1>3, <1>4, Concatenation
  <2>2. Len(front) = i - 1 /\ Len(front) + Len(back) = Len(s) - 1
    BY <1>1, <1>2, <1>3
  <2>3. DOMAIN w = 1..Len(w)
    BY ONLY <2>1
  <2>4. QED
    BY ONLY <2>1, <2>2, <2>3
<1>6. \A k \in 1..(Len(s) - 1) : w[k] = IF k < i THEN s[k] ELSE s[k + 1]
  <2>1. ASSUME NEW k \in 1..(Len(s) - 1), k < i
        PROVE  w[k] = s[k]
    <3>1. k <= i - 1 /\ k \in 1..(i - 1)
      BY <1>1, <2>1
    <3>2. QED
      BY ONLY <1>2, <1>5, <2>1, <3>1
  <2>2. ASSUME NEW k \in 1..(Len(s) - 1), ~(k < i)
        PROVE  w[k] = s[k + 1]
    <3>1. k - (i - 1) \in 1..(Len(s) - i) /\ (k - (i - 1)) + i = k + 1 /\ ~(k <= i - 1)
      BY <1>1, <2>2
    <3>2. back[k - (i - 1)] = s[k + 1]
      BY <1>3, <3>1
    <3>3. QED
      BY ONLY <1>5, <2>2, <3>1, <3>2
  <2>3. QED
    BY <2>1, <2>2
<1>7. RemoveAt(s, i) = w
  BY <1>4 DEF RemoveAt, front, back
<1>8. QED
  BY ONLY <1>1, <1>5, <1>6, <1>7

(* A finite set in its order: every member once.                           *)
LEMMA ListedFacts ==
  ASSUME NEW S, IsFiniteSet(S), NEW q \in [1..Cardinality(S) -> S], Range(q) = S
  PROVE  /\ q \in Seq(S) /\ DOMAIN q = 1..Len(q) /\ Len(q) \in Nat
         /\ \A x \in S : \E i \in DOMAIN q : q[i] = x
         /\ \A i, j \in DOMAIN q : q[i] = q[j] => i = j
<1>1. Cardinality(S) \in Nat
  BY FS_CardinalityType
<1>2. q \in Seq(S) /\ Len(q) = Cardinality(S) /\ DOMAIN q = 1..Cardinality(S)
  BY <1>1
<1>3. \A x \in S : \E i \in 1..Cardinality(S) : q[i] = x
  BY DEF Range
<1>4. q \in Surjection(1..Cardinality(S), S)
  BY <1>3 DEF Surjection
<1>5. IsFiniteSet(1..Cardinality(S)) /\ Cardinality(1..Cardinality(S)) = Cardinality(S)
  BY <1>1, FS_Interval
<1>6. q \in Injection(1..Cardinality(S), S)
  BY <1>4, <1>5, FS_SurjSameCardinalityImpliesInj
<1>7. \A i, j \in 1..Cardinality(S) : q[i] = q[j] => i = j
  BY <1>6 DEF Injection, IsInjective
<1>8. QED
  BY <1>1, <1>2, <1>3, <1>7

-----------------------------------------------------------------------------
(* The plan. *)

LEMMA CutoffFacts ==
  ASSUME NEW t \in 0..LastTick
  PROVE  LatestClosedBucket(t) \in Nat /\ LatestClosedBucket(t) <= t
<1>1. t \in Nat /\ Bucket \in Nat \ {0}
  BY FeedConstants
<1>2. QED
  BY <1>1 DEF LatestClosedBucket

LEMMA FeedFacts ==
  /\ LastTick \in Nat /\ Attempts \in Nat \ {0} /\ MaxTroubles \in Nat
  /\ Bucket \in Nat \ {0}
  /\ EventStart \in [Events -> Nat] /\ EventEnd \in [Events -> Nat]
  /\ Open \notin Nat
  /\ IsFiniteSet(Events)
<1>1. EventOrder \in Seq(Events) /\ DOMAIN EventOrder = 1..Len(EventOrder) /\ Len(EventOrder) \in Nat
  BY FeedConstants
<1>2. IsFiniteSet(1..Len(EventOrder))
  BY <1>1, FS_Interval
<1>3. EventOrder \in Surjection(1..Len(EventOrder), Events)
  BY <1>1 DEF Surjection, Events, Range
<1>4. IsFiniteSet(Events)
  BY <1>2, <1>3, FS_Surjection
<1>5. QED
  BY <1>4, FeedConstants

LEMMA PlanFacts ==
  ASSUME NEW cutoff \in Nat
  PROVE  /\ PlannedEvents(cutoff) \subseteq Events
         /\ IsFiniteSet(PlannedEvents(cutoff))
         /\ \A e \in PlannedEvents(cutoff) : EventStart[e] < cutoff
         /\ PlannedRecords(cutoff) \subseteq Lines \X Nat
         /\ IsFiniteSet(PlannedRecords(cutoff))
         /\ \A x \in PlannedRecords(cutoff) : (x[2] + 1) * Bucket <= cutoff
<1>1. PlannedEvents(cutoff) \subseteq Events
  BY DEF PlannedEvents, DayRuns
<1>2. \A e \in PlannedEvents(cutoff) : EventStart[e] < cutoff
  BY DEF PlannedEvents, IntersectsWindow
<1>3. LastTick \div Bucket \in Nat
  BY FeedFacts
<1> DEFINE grid == Lines \X (0..(LastTick \div Bucket))
<1>4. IsFiniteSet(grid)
  <2>1. IsFiniteSet(0..(LastTick \div Bucket))
    BY <1>3, FS_Interval
  <2>2. QED
    BY <2>1, FeedConstants, FS_Product
<1>5. PlannedRecords(cutoff) \subseteq grid
  BY DEF PlannedRecords
<1>6. grid \subseteq Lines \X Nat
  BY <1>3
<1>7. \A x \in PlannedRecords(cutoff) : (x[2] + 1) * Bucket <= cutoff
  BY DEF PlannedRecords
<1> HIDE DEF grid
<1>8. IsFiniteSet(PlannedEvents(cutoff)) /\ IsFiniteSet(PlannedRecords(cutoff))
  BY <1>1, <1>4, <1>5, FeedFacts, FS_Subset
<1>9. QED
  BY <1>1, <1>2, <1>5, <1>6, <1>7, <1>8

-----------------------------------------------------------------------------
(* The server. *)

(* The server serves c.                                                    *)
ServerStep(c) == stored' = Outcome(c).after.stored /\ event' = Outcome(c).after.event

(* What may become of an event: the feed inserts it once it has begun,     *)
Inserted(e, end) ==
  /\ ~Exists(e)
  /\ EventStart[e] < now
  /\ end = Open \/ (end = EventEnd[e] /\ end <= now)
  /\ event'[e] = {FeedRow(e, end)}

(* ends it once it has ended, if it is open,                               *)
Ended(e) ==
  /\ Exists(e)
  /\ Row(e).end = Open
  /\ EventEnd[e] <= now
  /\ EventEnd[e] > Row(e).started
  /\ event'[e] = {[started |-> Row(e).started, end |-> EventEnd[e],
                   version |-> Row(e).version + 1, by |-> "feed"]}

(* and operators write what they like.                                     *)
Corrected(e, started, end) ==
  /\ Exists(e)
  /\ event'[e] = {[started |-> started, end |-> end, version |-> Row(e).version + 1,
                   by |-> IF end = Row(e).end THEN Row(e).by ELSE "operator"]}

FeedStep(e) ==
  \/ event'[e] = event[e]
  \/ \E end \in Nat \union {Open} : Inserted(e, end)
  \/ Ended(e)

RowStep(e) ==
  \/ FeedStep(e)
  \/ \E started \in Nat, end \in Nat \union {Open} : Corrected(e, started, end)

OthersRest(e) ==
  /\ stored' = stored
  /\ \A f \in Events : f # e => event'[f] = event[f]
  /\ event' \in [Events -> SUBSET FeedRows]

DatabaseStep ==
  /\ stored \subseteq stored'
  /\ \A x \in stored' : x \in stored \/ (x \in Lines \X Nat /\ (x[2] + 1) * Bucket <= now)
  /\ event' \in [Events -> SUBSET FeedRows]
  /\ \A e \in Events : RowStep(e)

LEMMA RowFacts ==
  ASSUME Typed, OneRow, NEW e \in Events, Exists(e)
  PROVE  /\ event[e] = {Row(e)}
         /\ Row(e) \in FeedRows
         /\ Row(e) = [started |-> Row(e).started, end |-> Row(e).end,
                      version |-> Row(e).version, by |-> Row(e).by]
<1>1. event[e] = {Row(e)}
  BY DEF OneRow
<1>2. Row(e) \in FeedRows
  BY <1>1 DEF Typed
<1>3. QED
  BY <1>1, <1>2 DEF FeedRows

LEMMA RowOf ==
  ASSUME NEW e, NEW row, event'[e] = {row}
  PROVE  Exists(e)' /\ Row(e)' = row
BY DEF Exists, Row

LEMMA ServedRows ==
  ASSUME NEW c, ServerStep(c), NEW ok, NEW rows, NEW events,
         Outcome(c) = [ok |-> ok, after |-> [stored |-> rows, event |-> events]]
  PROVE  stored' = rows /\ event' = events /\ Outcome(c).ok = ok
<1>1. /\ Outcome(c).after = [stored |-> rows, event |-> events]
      /\ Outcome(c).ok = ok
  OBVIOUS
<1>2. QED
  BY <1>1 DEF ServerStep

LEMMA ServeRecord ==
  ASSUME NEW c, c.kind = "record", ServerStep(c)
  PROVE  event' = event /\ stored' = stored \union {c.what} /\ Outcome(c).ok
BY DEF ServerStep, Outcome, PostRecord, Unchanged

LEMMA ServeEvent ==
  ASSUME Typed, OneRow, NEW c \in Calls, CallKnown(c), c.kind = "event", ServerStep(c),
         NEW e \in Events, e = c.what
  PROVE  /\ OthersRest(e)
         /\ event' = event \/ Inserted(e, c.end)
         /\ Outcome(c).ok =>
              /\ Exists(e)'
              /\ c.end # Open => Row(e)'.end = c.end
         /\ ~Outcome(c).ok =>
              /\ event' = event
              /\ Exists(e) \/ (c.end # Open /\ c.end <= EventStart[e])
<1>1. Outcome(c) = PostEvent(c)
  BY DEF Outcome
<1>2. CASE c.end # Open /\ c.end <= EventStart[e]
  <2>1. Outcome(c) = [ok |-> FALSE, after |-> Unchanged]
    BY <1>1, <1>2 DEF PostEvent
  <2>2. QED
    BY <1>2, <2>1 DEF ServerStep, Unchanged, OthersRest, Typed
<1>3. CASE ~(c.end # Open /\ c.end <= EventStart[e]) /\ Exists(e)
  <2>1. Outcome(c) = [ok |-> SamePayload(Row(e), c), after |-> Unchanged]
    BY <1>1, <1>3 DEF PostEvent
  <2>2. UNCHANGED <<stored, event>>
    BY <2>1 DEF ServerStep, Unchanged
  <2>3. Outcome(c).ok => Row(e).end = c.end
    <3>1. Outcome(c).ok = SamePayload(Row(e), c)
      BY <2>1
    <3>2. QED
      BY <3>1 DEF SamePayload
  <2>4. Exists(e)' /\ Row(e)' = Row(e)
    BY <1>3, <2>2 DEF Exists, Row
  <2>5. QED
    BY <1>3, <2>2, <2>3, <2>4 DEF OthersRest, Typed
<1>4. CASE ~(c.end # Open /\ c.end <= EventStart[e]) /\ ~Exists(e)
  <2>1. Outcome(c) = [ok |-> TRUE, after |-> [stored |-> stored,
                        event |-> [event EXCEPT ![e] = {FeedRow(e, c.end)}]]]
    BY <1>1, <1>4 DEF PostEvent
  <2>2. stored' = stored /\ event' = [event EXCEPT ![e] = {FeedRow(e, c.end)}]
    BY ONLY <2>1, ServerStep(c), ServedRows
  <2>3. event'[e] = {FeedRow(e, c.end)} /\ \A f \in Events : f # e => event'[f] = event[f]
    BY <2>2 DEF Typed
  <2>4. Inserted(e, c.end)
    BY <1>4, <2>3 DEF Inserted, CallKnown
  <2>5. Exists(e)' /\ Row(e)'.end = c.end
    <3>1. Exists(e)' /\ Row(e)' = FeedRow(e, c.end)
      BY <2>3, RowOf
    <3>2. QED
      BY <3>1 DEF FeedRow
  <2>6. event' \in [Events -> SUBSET FeedRows]
    <3>1. FeedRow(e, c.end) \in FeedRows
      BY FeedFacts DEF FeedRow, FeedRows, Calls
    <3>2. QED
      BY <2>2, <3>1 DEF Typed
  <2>7. QED
    BY <2>1, <2>2, <2>3, <2>4, <2>5, <2>6 DEF OthersRest
<1>5. QED
  BY <1>2, <1>3, <1>4

LEMMA ServeClosing ==
  ASSUME Typed, OneRow, NEW c \in Calls, CallKnown(c), c.kind = "close", ServerStep(c),
         NEW e \in Events, e = c.what
  PROVE  /\ OthersRest(e)
         /\ event' = event \/ Ended(e)
         /\ Outcome(c).ok => Ended(e)
         /\ ~Outcome(c).ok =>
              /\ event' = event
              /\ c.end <= Row(e).started \/ c.expected # Row(e).version
<1>1. Outcome(c) = PatchEvent(c)
  BY DEF Outcome
<1>2. /\ Exists(e) /\ c.end = EventEnd[e] /\ c.end <= now
      /\ c.expected = Row(e).version => Row(e).end = Open
      /\ Row(e) \in FeedRows
      /\ EventEnd[e] \in Nat
  BY RowFacts, FeedFacts DEF CallKnown
<1>3. CASE ~(c.end > Row(e).started /\ c.expected = Row(e).version)
  <2>1. Outcome(c) = [ok |-> FALSE, after |-> Unchanged]
    BY <1>1, <1>3 DEF PatchEvent
  <2>2. UNCHANGED <<stored, event>>
    BY <2>1 DEF ServerStep, Unchanged
  <2>3. c.end <= Row(e).started \/ c.expected # Row(e).version
    BY <1>2, <1>3 DEF FeedRows
  <2>4. QED
    BY <2>1, <2>2, <2>3 DEF OthersRest, Typed
<1>4. CASE c.end > Row(e).started /\ c.expected = Row(e).version
  <2> DEFINE row == PatchedRow(Row(e), c.end)
  <2>1. Outcome(c) = [ok |-> TRUE, after |-> [stored |-> stored,
                        event |-> [event EXCEPT ![e] = {row}]]]
    BY <1>1, <1>4 DEF PatchEvent
  <2>2. row = [started |-> Row(e).started, end |-> EventEnd[e],
               version |-> Row(e).version + 1, by |-> "feed"]
    BY <1>2 DEF PatchedRow
  <2> HIDE DEF row
  <2>3. stored' = stored /\ event' = [event EXCEPT ![e] = {row}]
    BY ONLY <2>1, ServerStep(c), ServedRows
  <2>4. event'[e] = {row} /\ \A f \in Events : f # e => event'[f] = event[f]
    BY <2>3 DEF Typed
  <2>5. Ended(e)
    BY <1>2, <1>4, <2>2, <2>4 DEF Ended
  <2>6. event' \in [Events -> SUBSET FeedRows]
    <3>1. row \in FeedRows
      BY <1>2, <2>2 DEF FeedRows
    <3>2. QED
      BY <2>3, <3>1 DEF Typed
  <2>7. QED
    BY <2>1, <2>3, <2>4, <2>5, <2>6 DEF OthersRest
<1>5. QED
  BY <1>3, <1>4

(* Serving a known call.                                                   *)
LEMMA Served ==
  ASSUME Typed, OneRow, NEW c \in Calls, CallKnown(c), ServerStep(c)
  PROVE  /\ DatabaseStep
         /\ \A e \in Events : FeedStep(e)
         /\ \A e \in Events : e # c.what => event'[e] = event[e]
<1>1. CASE c.kind = "record"
  <2>1. event' = event /\ stored' = stored \union {c.what}
    BY <1>1, ServeRecord
  <2>2. c.what \in Lines \X Nat /\ (c.what[2] + 1) * Bucket <= now
    BY <1>1 DEF CallKnown
  <2>3. event' \in [Events -> SUBSET FeedRows]
    BY <2>1 DEF Typed
  <2>4. QED
    BY <2>1, <2>2, <2>3 DEF DatabaseStep, RowStep, FeedStep
<1>2. CASE c.kind = "event"
  <2>1. PICK e \in Events : e = c.what
    BY <1>2 DEF CallKnown
  <2>2. OthersRest(e) /\ (event' = event \/ Inserted(e, c.end))
    BY <1>2, <2>1, ServeEvent
  <2>3. c.end \in Nat \union {Open}
    BY DEF Calls
  <2>4. \A f \in Events : FeedStep(f)
    BY <2>2, <2>3 DEF FeedStep, OthersRest
  <2>5. QED
    BY <2>1, <2>2, <2>4 DEF DatabaseStep, RowStep, OthersRest
<1>3. CASE c.kind = "close"
  <2>1. PICK e \in Events : e = c.what
    BY <1>3 DEF CallKnown
  <2>2. OthersRest(e) /\ (event' = event \/ Ended(e))
    BY <1>3, <2>1, ServeClosing
  <2>3. \A f \in Events : FeedStep(f)
    BY <2>2 DEF FeedStep, OthersRest
  <2>4. QED
    BY <2>1, <2>2, <2>3 DEF DatabaseStep, RowStep, OthersRest
<1>4. QED
  BY <1>1, <1>2, <1>3 DEF Calls

LEMMA NothingServed ==
  ASSUME Typed, UNCHANGED <<stored, event>>
  PROVE  DatabaseStep /\ \A e \in Events : FeedStep(e)
<1>1. event' \in [Events -> SUBSET FeedRows]
  BY DEF Typed
<1>2. QED
  BY <1>1 DEF DatabaseStep, RowStep, FeedStep

(* A row stays, its version grows when it is written, and it stays         *)
(* settled.                                                                *)
LEMMA RowMoves ==
  ASSUME Typed, OneRow, NEW e \in Events, RowStep(e), Exists(e)
  PROVE  /\ Exists(e)'
         /\ event'[e] = {Row(e)'}
         /\ \/ event'[e] = event[e] /\ Row(e)' = Row(e)
            \/ Row(e)'.version = Row(e).version + 1
         /\ Settled(e) => Settled(e)'
         /\ \/ Row(e)' = Row(e)
            \/ Row(e)'.end = EventEnd[e] /\ EventEnd[e] <= now
            \/ Row(e)'.by = "operator"
            \/ Row(e)'.end = Row(e).end /\ Row(e)'.by = Row(e).by
<1>0. event[e] = {Row(e)} /\ Row(e) \in FeedRows /\ EventEnd[e] \in Nat /\ Open \notin Nat
  BY RowFacts, FeedFacts
<1>1. CASE event'[e] = event[e]
  <2>1. Exists(e)' /\ Row(e)' = Row(e)
    BY <1>1 DEF Exists, Row
  <2>2. QED
    BY <1>0, <1>1, <2>1 DEF Settled
<1>2. CASE Ended(e)
  <2> DEFINE row == [started |-> Row(e).started, end |-> EventEnd[e],
                     version |-> Row(e).version + 1, by |-> "feed"]
  <2>1. event'[e] = {row}
    BY <1>2 DEF Ended
  <2>2. row.end = EventEnd[e] /\ row.version = Row(e).version + 1
    OBVIOUS
  <2> HIDE DEF row
  <2>3. Exists(e)' /\ Row(e)' = row
    BY ONLY <2>1, RowOf
  <2>4. EventEnd[e] <= now
    BY <1>2 DEF Ended
  <2>5. Row(e)'.end # Open
    BY ONLY <1>0, <2>2, <2>3
  <2>6. QED
    BY ONLY <2>1, <2>2, <2>3, <2>4, <2>5 DEF Settled
<1>3. CASE \E started \in Nat, end \in Nat \union {Open} : Corrected(e, started, end)
  <2>1. PICK started \in Nat, end \in Nat \union {Open} : Corrected(e, started, end)
    BY <1>3
  <2> DEFINE row == [started |-> started, end |-> end, version |-> Row(e).version + 1,
                     by |-> IF end = Row(e).end THEN Row(e).by ELSE "operator"]
  <2>2. event'[e] = {row}
    BY <2>1 DEF Corrected
  <2>3. /\ row.version = Row(e).version + 1
        /\ row.end = end
        /\ row.by = IF end = Row(e).end THEN Row(e).by ELSE "operator"
    OBVIOUS
  <2> HIDE DEF row
  <2>4. Exists(e)' /\ Row(e)' = row
    BY ONLY <2>2, RowOf
  <2>5. (Row(e)'.end = Row(e).end /\ Row(e)'.by = Row(e).by) \/ Row(e)'.by = "operator"
    BY ONLY <2>3, <2>4
  <2>6. Settled(e) => Settled(e)'
    BY ONLY <2>4, <2>5 DEF Settled
  <2>7. QED
    BY ONLY <2>2, <2>3, <2>4, <2>5, <2>6
<1>4. QED
  BY <1>1, <1>2, <1>3 DEF RowStep, FeedStep, Inserted

LEMMA InsertedRow ==
  ASSUME NEW e, NEW end, Inserted(e, end)
  PROVE  /\ Exists(e)' /\ ~Exists(e)
         /\ event'[e] = {Row(e)'}
         /\ Row(e)' = FeedRow(e, end)
         /\ Row(e)'.end = end /\ Row(e)'.version = 1 /\ Row(e)'.by = "feed"
<1>1. event'[e] = {FeedRow(e, end)} /\ ~Exists(e)
  BY DEF Inserted
<1>2. Exists(e)' /\ Row(e)' = FeedRow(e, end)
  BY ONLY <1>1, RowOf
<1>3. /\ FeedRow(e, end).end = end
      /\ FeedRow(e, end).version = 1
      /\ FeedRow(e, end).by = "feed"
  BY DEF FeedRow
<1>4. QED
  BY ONLY <1>1, <1>2, <1>3

LEMMA CorrectStep ==
  ASSUME Typed, OneRow, NEW e \in Events, Correct(e)
  PROVE  DatabaseStep
<1>1. Exists(e) /\ Row(e) \in FeedRows
  BY RowFacts DEF Correct
<1>2. PICK started \in CorrectedStarts \union {Row(e).started},
           end \in CorrectedEnds \union {Row(e).end, Open} :
        event' = [event EXCEPT ![e] =
          {[started |-> started, end |-> end, version |-> Row(e).version + 1,
            by |-> IF end = Row(e).end THEN Row(e).by ELSE "operator"]}]
  BY DEF Correct
<1>3. started \in Nat /\ end \in Nat \union {Open}
  BY <1>1, FeedConstants DEF FeedRows
<1> DEFINE row == [started |-> started, end |-> end, version |-> Row(e).version + 1,
                   by |-> IF end = Row(e).end THEN Row(e).by ELSE "operator"]
<1>4. row \in FeedRows
  BY <1>1, <1>3 DEF FeedRows
<1>5. Corrected(e, started, end)
  BY <1>1, <1>2 DEF Corrected, Typed
<1>6. event' \in [Events -> SUBSET FeedRows] /\ \A f \in Events : f # e => event'[f] = event[f]
  BY <1>2, <1>4 DEF Typed
<1>7. stored' = stored
  BY DEF Correct
<1>8. QED
  BY <1>3, <1>5, <1>6, <1>7 DEF DatabaseStep, RowStep, FeedStep

(* The call at place i of a run.                                           *)
LEMMA CallFacts ==
  ASSUME FeedInv, NEW r \in Runs, NEW i \in DOMAIN run[r].calls
  PROVE  /\ run[r].calls \in Seq(Calls)
         /\ run[r].calls[i] \in Calls
         /\ CallKnown(run[r].calls[i])
         /\ r \in Running
<1>1. run[r] \in RunStates
  BY DEF FeedInv, Typed
<1>2. run[r].calls \in Seq(Calls) /\ run[r].pc \in {"idle", "posting"}
  BY <1>1 DEF RunStates
<1>3. run[r].calls[i] \in Calls /\ CallKnown(run[r].calls[i])
  BY <1>2 DEF FeedInv, CallsKnown
<1>4. run[r].calls # << >>
  BY <1>2
<1>5. NotRunning.calls = << >>
  BY DEF NotRunning
<1>6. r \in Running
  BY <1>2, <1>4, <1>5 DEF FeedInv, RunsAtRest, Running
<1>7. QED
  BY <1>2, <1>3, <1>6

LEMMA AnsweredServes ==
  ASSUME FeedInv, NEW r \in Runs, Answered(r)
  PROVE  \E i \in DOMAIN run[r].calls :
           /\ ServerStep(run[r].calls[i])
           /\ Serve(run[r].calls[i], r)
           /\ Done(r, i, Fails(run[r].calls[i]))
BY DEF Answered, InFlight, Serve, ServerStep

LEMMA WrongServes ==
  ASSUME FeedInv, NEW r \in Runs, GoesWrong(r)
  PROVE  \E i \in DOMAIN run[r].calls :
           /\ ServerStep(run[r].calls[i]) \/ UNCHANGED <<stored, event>>
           /\ (MayRetry(run[r].calls[i]) /\ Again(r, i)) \/ Done(r, i, TRUE)
           /\ stray' \subseteq stray \union {run[r].calls[i]}
           /\ ~UNCHANGED <<stored, event>> => disturbed' = disturbed \union Running
           /\ disturbed' = disturbed \union Running \/ disturbed' = disturbed \union {r}
<1>1. PICK i \in InFlight(r) :
        LET c     == run[r].calls[i]
            after == Outcome(c).after
        IN
        /\ (MayRetry(c) /\ Again(r, i)) \/ Done(r, i, TRUE)
        /\ \/ /\ stored' = after.stored
              /\ event' = after.event
              /\ disturbed' = disturbed \union (IF after = Unchanged THEN {r} ELSE Running)
              /\ UNCHANGED stray
           \/ /\ stray' \in {stray, stray \union {c}}
              /\ disturbed' = disturbed \union {r}
              /\ UNCHANGED <<stored, event>>
  BY DEF GoesWrong
<1>2. Unchanged.stored = stored /\ Unchanged.event = event
  BY DEF Unchanged
<1>3. i \in DOMAIN run[r].calls
  BY DEF InFlight
<1>4. QED
  BY <1>1, <1>2, <1>3 DEF ServerStep

LEMMA EveryStep ==
  ASSUME FeedInv, [Next]_vars
  PROVE  /\ DatabaseStep
         /\ \A e \in Events : FeedStep(e) \/ UNCHANGED <<run, stray>>
         /\ now' \in 0..LastTick /\ now <= now'
<1> USE DEF FeedInv
<1>1. LastTick \in Nat /\ now \in 0..LastTick
  BY FeedFacts DEF Typed
<1>2. CASE Tick
  BY <1>1, <1>2, NothingServed DEF Tick
<1>3. CASE ServeStray
  <2>1. PICK c \in stray : ServerStep(c)
    BY <1>3 DEF ServeStray, ServerStep
  <2>2. c \in Calls /\ CallKnown(c)
    BY DEF Typed, CallsKnown
  <2>3. DatabaseStep /\ \A e \in Events : FeedStep(e)
    BY ONLY FeedInv, <2>1, <2>2, Served DEF FeedInv
  <2>4. now' = now
    BY <1>3 DEF ServeStray
  <2>5. QED
    BY <1>1, <2>3, <2>4
<1>4. ASSUME NEW e \in Events, Correct(e)
      PROVE  DatabaseStep /\ UNCHANGED <<now, run, stray>>
  BY <1>4, CorrectStep DEF Correct
<1>5. ASSUME NEW r \in Runs, Answered(r)
      PROVE  DatabaseStep /\ (\A e \in Events : FeedStep(e)) /\ now' = now
  <2>1. PICK i \in DOMAIN run[r].calls : ServerStep(run[r].calls[i])
    BY <1>5, AnsweredServes
  <2>2. run[r].calls[i] \in Calls /\ CallKnown(run[r].calls[i])
    BY CallFacts
  <2>3. DatabaseStep /\ \A e \in Events : FeedStep(e)
    BY <2>1, <2>2, Served
  <2>4. QED
    BY <1>5, <2>3 DEF Answered
<1>6. ASSUME NEW r \in Runs, GoesWrong(r)
      PROVE  DatabaseStep /\ (\A e \in Events : FeedStep(e)) /\ now' = now
  <2>1. PICK i \in DOMAIN run[r].calls :
          ServerStep(run[r].calls[i]) \/ UNCHANGED <<stored, event>>
    BY <1>6, WrongServes
  <2>2. run[r].calls[i] \in Calls /\ CallKnown(run[r].calls[i])
    BY CallFacts
  <2>3. DatabaseStep /\ \A e \in Events : FeedStep(e)
    BY <2>1, <2>2, Served, NothingServed
  <2>4. QED
    BY <1>6, <2>3 DEF GoesWrong
<1>7. ASSUME NEW r \in Runs, Plan(r) \/ Exit(r) \/ Killed(r)
      PROVE  DatabaseStep /\ (\A e \in Events : FeedStep(e)) /\ now' = now
  BY <1>7, NothingServed DEF Plan, Exit, Killed
<1>8. CASE UNCHANGED vars
  BY <1>1, <1>8, NothingServed DEF vars
<1> HIDE DEF FeedInv
<1>9. QED
  BY <1>1, <1>2, <1>3, <1>4, <1>5, <1>6, <1>7, <1>8 DEF Next

-----------------------------------------------------------------------------
(* The runs. *)

Blocks(w, p, q, s) ==
  /\ DOMAIN p \subseteq DOMAIN w /\ \A i \in DOMAIN p : w[i] = p[i]
  /\ \A i \in DOMAIN q : Len(p) + i \in DOMAIN w /\ w[Len(p) + i] = q[i]
  /\ \A i \in DOMAIN s : Len(p) + Len(q) + i \in DOMAIN w /\ w[Len(p) + Len(q) + i] = s[i]
  /\ \A k \in DOMAIN w :
       \/ k \in DOMAIN p
       \/ \E i \in DOMAIN q : k = Len(p) + i
       \/ \E i \in DOMAIN s : k = Len(p) + Len(q) + i

LEMMA ThreeBlocks ==
  ASSUME NEW S, NEW p \in Seq(S), NEW q \in Seq(S), NEW s \in Seq(S), NEW w, w = p \o q \o s
  PROVE  w \in Seq(S) /\ Blocks(w, p, q, s)
<1>1. Len(p) \in Nat /\ Len(q) \in Nat /\ Len(s) \in Nat
  OBVIOUS
<1>2. DOMAIN p = 1..Len(p) /\ DOMAIN q = 1..Len(q) /\ DOMAIN s = 1..Len(s)
  OBVIOUS
<1>3. PICK u : u = p \o q
  OBVIOUS
<1>4. /\ u \in Seq(S) /\ Len(u) = Len(p) + Len(q)
      /\ \A i \in 1..(Len(p) + Len(q)) : u[i] = IF i <= Len(p) THEN p[i] ELSE q[i - Len(p)]
  BY <1>3, Concatenation
<1>5. w = u \o s
  BY <1>3
<1>6. /\ w \in Seq(S) /\ Len(w) = Len(u) + Len(s)
      /\ \A i \in 1..(Len(u) + Len(s)) : w[i] = IF i <= Len(u) THEN u[i] ELSE s[i - Len(u)]
  <2>1. u \in Seq(S) /\ s \in Seq(S)
    BY <1>4
  <2>2. QED
    BY ONLY <2>1, <1>5, Concatenation
<1>7. DOMAIN w = 1..(Len(p) + Len(q) + Len(s))
  BY ONLY <1>1, <1>4, <1>6
<1>8. \A i \in 1..Len(p) : i \in 1..(Len(p) + Len(q) + Len(s)) /\ w[i] = p[i]
  BY ONLY <1>1, <1>4, <1>6
<1>9. \A i \in 1..Len(q) :
        Len(p) + i \in 1..(Len(p) + Len(q) + Len(s)) /\ w[Len(p) + i] = q[i]
  <2>1. TAKE i \in 1..Len(q)
  <2>2. /\ Len(p) + i \in 1..(Len(p) + Len(q) + Len(s))
        /\ Len(p) + i \in 1..(Len(p) + Len(q))
        /\ ~(Len(p) + i <= Len(p)) /\ (Len(p) + i) - Len(p) = i
    BY ONLY <1>1, <2>1
  <2>3. w[Len(p) + i] = u[Len(p) + i]
    BY ONLY <1>4, <1>6, <1>1, <2>2
  <2>4. u[Len(p) + i] = q[i]
    BY ONLY <1>4, <2>2
  <2>5. QED
    BY ONLY <2>2, <2>3, <2>4
<1>10. \A i \in 1..Len(s) :
        /\ Len(p) + Len(q) + i \in 1..(Len(p) + Len(q) + Len(s))
        /\ w[Len(p) + Len(q) + i] = s[i]
  <2>1. TAKE i \in 1..Len(s)
  <2>2. /\ Len(p) + Len(q) + i \in 1..(Len(p) + Len(q) + Len(s))
        /\ Len(u) + Len(s) = Len(p) + Len(q) + Len(s)
        /\ ~(Len(p) + Len(q) + i <= Len(u)) /\ (Len(p) + Len(q) + i) - Len(u) = i
    BY ONLY <1>1, <1>4, <2>1
  <2>3. QED
    BY ONLY <1>6, <2>2
<1>11. \A k \in 1..(Len(p) + Len(q) + Len(s)) :
        \/ k \in 1..Len(p)
        \/ \E i \in 1..Len(q) : k = Len(p) + i
        \/ \E i \in 1..Len(s) : k = Len(p) + Len(q) + i
  <2>1. TAKE k \in 1..(Len(p) + Len(q) + Len(s))
  <2>2. CASE k <= Len(p)
    BY ONLY <1>1, <2>1, <2>2
  <2>3. CASE Len(p) < k /\ k <= Len(p) + Len(q)
    <3>1. k - Len(p) \in 1..Len(q) /\ k = Len(p) + (k - Len(p))
      BY ONLY <1>1, <2>1, <2>3
    <3>2. QED
      BY ONLY <3>1
  <2>4. CASE Len(p) + Len(q) < k
    <3>1. /\ k - (Len(p) + Len(q)) \in 1..Len(s)
          /\ k = Len(p) + Len(q) + (k - (Len(p) + Len(q)))
      BY ONLY <1>1, <2>1, <2>4
    <3>2. QED
      BY ONLY <3>1
  <2>5. QED
    BY ONLY <1>1, <2>1, <2>2, <2>3, <2>4
<1>12. QED
  BY ONLY <1>2, <1>6, <1>7, <1>8, <1>9, <1>10, <1>11 DEF Blocks

(* A run's plan: its calls are known, a closing has the version read, no   *)
(* two are of one event, and nothing that the database lacks is left out.  *)
Planned(r, calls, cutoff) ==
  /\ run' = [run EXCEPT ![r] = [pc |-> "posting", cutoff |-> cutoff, failed |-> FALSE,
                                calls |-> calls, gap |-> GapDetected(cutoff)]]
  /\ \A i \in DOMAIN calls : CallKnown(calls[i])
  /\ \A i \in DOMAIN calls :
       /\ calls[i].kind = "record" => calls[i].what \in MissingRecords(cutoff)
       /\ calls[i].kind = "event" =>
            /\ calls[i].what \in MissingEvents(cutoff)
            /\ calls[i].end = VisibleEnd(calls[i].what, cutoff)
       /\ calls[i].kind = "close" =>
            /\ calls[i].what \in Closings(cutoff)
            /\ calls[i].expected = Row(calls[i].what).version
  /\ \A i, j \in DOMAIN calls :
       i # j /\ calls[i].kind # "record" /\ calls[j].kind # "record"
         => calls[i].what # calls[j].what
  /\ \A x \in MissingRecords(cutoff) :
       \E i \in DOMAIN calls : calls[i].kind = "record" /\ calls[i].what = x
  /\ \A e \in MissingEvents(cutoff) :
       \E i \in DOMAIN calls : calls[i].kind = "event" /\ calls[i].what = e
  /\ \A e \in Closings(cutoff) :
       \E i \in DOMAIN calls : calls[i].kind = "close" /\ calls[i].what = e

LEMMA PlannedCalls ==
  ASSUME FeedInv, NEW r \in Runs, Plan(r)
  PROVE  \E calls \in Seq(Calls) : Planned(r, calls, LatestClosedBucket(now))
<1> DEFINE cutoff == LatestClosedBucket(now)
<1>1. PICK records \in Listed(MissingRecords(cutoff), RecordBefore),
           events \in Listed(MissingEvents(cutoff), EventBefore),
           ended \in Listed(Closings(cutoff), EventBefore) :
        run' = [run EXCEPT ![r] =
          [pc |-> "posting", cutoff |-> cutoff, failed |-> FALSE,
           calls |-> RecordCalls(records) \o EventCalls(events, cutoff) \o CloseCalls(ended),
           gap |-> GapDetected(cutoff)]]
  BY DEF Plan
<1>2. now \in 0..LastTick /\ cutoff \in Nat /\ cutoff <= now /\ Typed /\ OneRow
  BY CutoffFacts DEF FeedInv, Typed
<1> SUFFICES \E calls \in Seq(Calls) : Planned(r, calls, cutoff)
  OBVIOUS
<1> HIDE DEF cutoff
<1>3. /\ MissingRecords(cutoff) \subseteq PlannedRecords(cutoff)
      /\ MissingEvents(cutoff) \subseteq PlannedEvents(cutoff)
      /\ Closings(cutoff) \subseteq PlannedEvents(cutoff)
  BY DEF MissingRecords, MissingEvents, Closings
<1>4. /\ IsFiniteSet(MissingRecords(cutoff))
      /\ IsFiniteSet(MissingEvents(cutoff))
      /\ IsFiniteSet(Closings(cutoff))
  BY <1>2, <1>3, PlanFacts, FS_Subset
<1>5. /\ records \in Seq(MissingRecords(cutoff))
      /\ \A x \in MissingRecords(cutoff) : \E i \in DOMAIN records : records[i] = x
  <2>1. records \in [1..Cardinality(MissingRecords(cutoff)) -> MissingRecords(cutoff)]
        /\ Range(records) = MissingRecords(cutoff)
    BY <1>1 DEF Listed
  <2>2. QED
    BY ONLY <1>4, <2>1, ListedFacts
<1>6. /\ events \in Seq(MissingEvents(cutoff))
      /\ \A x \in MissingEvents(cutoff) : \E i \in DOMAIN events : events[i] = x
      /\ \A i, j \in DOMAIN events : events[i] = events[j] => i = j
  <2>1. events \in [1..Cardinality(MissingEvents(cutoff)) -> MissingEvents(cutoff)]
        /\ Range(events) = MissingEvents(cutoff)
    BY <1>1 DEF Listed
  <2>2. QED
    BY ONLY <1>4, <2>1, ListedFacts
<1>7. /\ ended \in Seq(Closings(cutoff))
      /\ \A x \in Closings(cutoff) : \E i \in DOMAIN ended : ended[i] = x
      /\ \A i, j \in DOMAIN ended : ended[i] = ended[j] => i = j
  <2>1. ended \in [1..Cardinality(Closings(cutoff)) -> Closings(cutoff)]
        /\ Range(ended) = Closings(cutoff)
    BY <1>1 DEF Listed
  <2>2. QED
    BY ONLY <1>4, <2>1, ListedFacts
<1>8. PICK p : p = RecordCalls(records)
  OBVIOUS
<1>9. PICK q : q = EventCalls(events, cutoff)
  OBVIOUS
<1>10. PICK s : s = CloseCalls(ended)
  OBVIOUS
<1>11. PICK calls : calls = p \o q \o s
  OBVIOUS
<1>12. /\ p \in Seq(Calls) /\ DOMAIN p = DOMAIN records
       /\ \A i \in DOMAIN p : CallKnown(p[i]) /\ p[i].kind = "record" /\ p[i].what = records[i]
  <2>1. DOMAIN p = DOMAIN records /\ \A i \in DOMAIN p : p[i] = Call("record", records[i], Open, 0, {})
    BY <1>8 DEF RecordCalls
  <2>2. ASSUME NEW i \in DOMAIN records
        PROVE  LET c == Call("record", records[i], Open, 0, {}) IN
               c \in Calls /\ CallKnown(c) /\ c.kind = "record" /\ c.what = records[i]
    <3>1. records[i] \in PlannedRecords(cutoff)
      BY <1>3, <1>5
    <3>2. records[i] \in Lines \X Nat /\ (records[i][2] + 1) * Bucket <= cutoff
      BY ONLY <1>2, <3>1, PlanFacts
    <3>3. (records[i][2] + 1) * Bucket <= now
      BY ONLY <1>2, <3>2, FeedFacts
    <3>4. QED
      BY <3>2, <3>3, FeedFacts DEF Call, Calls, Things, CallKnown
  <2>3. DOMAIN records = 1..Len(records) /\ Len(records) \in Nat
    BY <1>5
  <2>4. p \in [1..Len(records) -> Calls]
    BY <1>8, <2>1, <2>2, <2>3 DEF RecordCalls
  <2>5. QED
    BY <2>1, <2>2, <2>3, <2>4
<1>13. /\ q \in Seq(Calls) /\ DOMAIN q = DOMAIN events
       /\ \A i \in DOMAIN q : /\ CallKnown(q[i]) /\ q[i].kind = "event" /\ q[i].what = events[i]
                               /\ q[i].end = VisibleEnd(events[i], cutoff)
  <2>1. /\ DOMAIN q = DOMAIN events
        /\ \A i \in DOMAIN q :
             q[i] = Call("event", events[i], VisibleEnd(events[i], cutoff), 0, {})
    BY <1>9 DEF EventCalls
  <2>2. ASSUME NEW i \in DOMAIN events
        PROVE  LET c == Call("event", events[i], VisibleEnd(events[i], cutoff), 0, {}) IN
               /\ c \in Calls /\ CallKnown(c) /\ c.kind = "event" /\ c.what = events[i]
               /\ c.end = VisibleEnd(events[i], cutoff)
    <3>1. events[i] \in PlannedEvents(cutoff)
      BY <1>3, <1>6
    <3>2. events[i] \in Events /\ EventStart[events[i]] < cutoff
      BY ONLY <1>2, <3>1, PlanFacts
    <3>3. EventStart[events[i]] < now
      BY ONLY <1>2, <3>2, FeedFacts
    <3>4. EventEnd[events[i]] \in Nat
      BY <3>2, FeedFacts
    <3>5. VisibleEnd(events[i], cutoff) = Open
          \/ (VisibleEnd(events[i], cutoff) = EventEnd[events[i]] /\ EventEnd[events[i]] <= now)
      <4>1. VisibleEnd(events[i], cutoff) =
              IF EventEnd[events[i]] <= cutoff THEN EventEnd[events[i]] ELSE Open
        BY DEF VisibleEnd
      <4>2. PICK end \in Nat : end = EventEnd[events[i]]
        BY <3>4
      <4>3. now \in Nat /\ (end <= cutoff => end <= now)
        BY <1>2
      <4>4. QED
        BY ONLY <4>1, <4>2, <4>3
    <3>6. QED
      BY <3>2, <3>3, <3>4, <3>5, FeedFacts DEF Call, Calls, Things, CallKnown
  <2>3. DOMAIN events = 1..Len(events) /\ Len(events) \in Nat
    BY <1>6
  <2>4. q \in [1..Len(events) -> Calls]
    BY <1>9, <2>1, <2>2, <2>3 DEF EventCalls
  <2>5. QED
    BY <2>1, <2>2, <2>3, <2>4
<1>14. /\ s \in Seq(Calls) /\ DOMAIN s = DOMAIN ended
       /\ \A i \in DOMAIN s : /\ CallKnown(s[i]) /\ s[i].kind = "close" /\ s[i].what = ended[i]
                               /\ s[i].expected = Row(ended[i]).version
  <2>1. /\ DOMAIN s = DOMAIN ended
        /\ \A i \in DOMAIN s :
             s[i] = Call("close", ended[i], EventEnd[ended[i]], Row(ended[i]).version,
                         event[ended[i]])
    BY <1>10 DEF CloseCalls
  <2>2. ASSUME NEW i \in DOMAIN ended
        PROVE  LET c == Call("close", ended[i], EventEnd[ended[i]], Row(ended[i]).version,
                             event[ended[i]]) IN
               /\ c \in Calls /\ CallKnown(c) /\ c.kind = "close" /\ c.what = ended[i]
               /\ c.expected = Row(ended[i]).version
    <3>1. ended[i] \in Closings(cutoff)
      BY <1>7
    <3>2. ended[i] \in Events
      BY ONLY <1>2, <1>3, <3>1, PlanFacts
    <3>3. Exists(ended[i]) /\ Row(ended[i]).end = Open /\ EventEnd[ended[i]] <= cutoff
      BY <3>1 DEF Closings
    <3>4. EventEnd[ended[i]] \in Nat /\ EventEnd[ended[i]] <= now
      BY ONLY <1>2, <3>2, <3>3, FeedFacts
    <3>5. Row(ended[i]).version \in Nat /\ event[ended[i]] \in SUBSET FeedRows
      BY <1>2, <3>2, <3>3, RowFacts DEF FeedRows
    <3>6. QED
      BY <3>2, <3>3, <3>4, <3>5, FeedFacts DEF Call, Calls, Things, CallKnown
  <2>3. DOMAIN ended = 1..Len(ended) /\ Len(ended) \in Nat
    BY <1>7
  <2>4. s \in [1..Len(ended) -> Calls]
    BY <1>10, <2>1, <2>2, <2>3 DEF CloseCalls
  <2>5. QED
    BY <2>1, <2>2, <2>3, <2>4
<1>15. /\ calls \in Seq(Calls)
       /\ DOMAIN p \subseteq DOMAIN calls /\ \A i \in DOMAIN p : calls[i] = p[i]
       /\ \A i \in DOMAIN q : Len(p) + i \in DOMAIN calls /\ calls[Len(p) + i] = q[i]
       /\ \A i \in DOMAIN s :
            Len(p) + Len(q) + i \in DOMAIN calls /\ calls[Len(p) + Len(q) + i] = s[i]
       /\ \A k \in DOMAIN calls :
            \/ k \in DOMAIN p
            \/ \E i \in DOMAIN q : k = Len(p) + i
            \/ \E i \in DOMAIN s : k = Len(p) + Len(q) + i
  <2>1. p \in Seq(Calls) /\ q \in Seq(Calls) /\ s \in Seq(Calls)
    BY <1>12, <1>13, <1>14
  <2>2. calls \in Seq(Calls) /\ Blocks(calls, p, q, s)
    BY ONLY <1>11, <2>1, ThreeBlocks
  <2>3. QED
    BY ONLY <2>2 DEF Blocks
(* Every call is of one of the blocks.                                     *)
<1>16. \A k \in DOMAIN calls :
         \/ \E i \in DOMAIN p : k = i /\ calls[k] = p[i]
         \/ \E i \in DOMAIN q : k = Len(p) + i /\ calls[k] = q[i]
         \/ \E i \in DOMAIN s : k = Len(p) + Len(q) + i /\ calls[k] = s[i]
  BY ONLY <1>15
<1>17. \A i \in DOMAIN calls : CallKnown(calls[i])
  BY ONLY <1>12, <1>13, <1>14, <1>16
<1>18. \A i \in DOMAIN calls :
         /\ calls[i].kind = "record" => calls[i].what \in MissingRecords(cutoff)
         /\ calls[i].kind = "event" =>
              /\ calls[i].what \in MissingEvents(cutoff)
              /\ calls[i].end = VisibleEnd(calls[i].what, cutoff)
         /\ calls[i].kind = "close" =>
              /\ calls[i].what \in Closings(cutoff)
              /\ calls[i].expected = Row(calls[i].what).version
  <2>1. /\ \A i \in DOMAIN p : p[i].what \in MissingRecords(cutoff)
        /\ \A i \in DOMAIN q : q[i].what \in MissingEvents(cutoff)
        /\ \A i \in DOMAIN s : s[i].what \in Closings(cutoff)
    BY <1>5, <1>6, <1>7, <1>12, <1>13, <1>14
  <2>2. QED
    BY ONLY <1>12, <1>13, <1>14, <1>16, <2>1
<1>19. \A i, j \in DOMAIN calls :
         i # j /\ calls[i].kind # "record" /\ calls[j].kind # "record"
           => calls[i].what # calls[j].what
  <2>1. MissingEvents(cutoff) \cap Closings(cutoff) = {}
    BY DEF MissingEvents, Closings
  <2>2. /\ \A i \in DOMAIN q : q[i].what \in MissingEvents(cutoff)
        /\ \A i \in DOMAIN s : s[i].what \in Closings(cutoff)
    BY <1>6, <1>7, <1>13, <1>14
  <2>3. /\ \A i, j \in DOMAIN q : q[i].what = q[j].what => i = j
        /\ \A i, j \in DOMAIN s : s[i].what = s[j].what => i = j
    BY ONLY <1>6, <1>7, <1>13, <1>14
  <2>4. \A k \in DOMAIN calls : calls[k].kind # "record" =>
          \/ \E i \in DOMAIN q : k = Len(p) + i /\ calls[k].what = q[i].what
          \/ \E i \in DOMAIN s : k = Len(p) + Len(q) + i /\ calls[k].what = s[i].what
    BY ONLY <1>12, <1>16
  <2>5. ASSUME NEW k \in DOMAIN calls, NEW l \in DOMAIN calls,
               calls[k].kind # "record", calls[l].kind # "record", calls[k].what = calls[l].what
        PROVE  k = l
    <3>1. CASE \E i, j \in DOMAIN q : /\ k = Len(p) + i /\ calls[k].what = q[i].what
                                      /\ l = Len(p) + j /\ calls[l].what = q[j].what
      BY ONLY <2>3, <2>5, <3>1
    <3>2. CASE \E i, j \in DOMAIN s : /\ k = Len(p) + Len(q) + i /\ calls[k].what = s[i].what
                                      /\ l = Len(p) + Len(q) + j /\ calls[l].what = s[j].what
      BY ONLY <2>3, <2>5, <3>2
    <3>3. CASE \E i \in DOMAIN q, j \in DOMAIN s :
                 \/ calls[k].what = q[i].what /\ calls[l].what = s[j].what
                 \/ calls[l].what = q[i].what /\ calls[k].what = s[j].what
      BY ONLY <2>1, <2>2, <2>5, <3>3
    <3>4. QED
      BY ONLY <2>4, <2>5, <3>1, <3>2, <3>3
  <2>6. QED
    BY ONLY <2>5
<1>20. \A x \in MissingRecords(cutoff) :
         \E i \in DOMAIN calls : calls[i].kind = "record" /\ calls[i].what = x
  BY ONLY <1>5, <1>12, <1>15
<1>21. \A e \in MissingEvents(cutoff) :
         \E i \in DOMAIN calls : calls[i].kind = "event" /\ calls[i].what = e
  <2>1. TAKE e \in MissingEvents(cutoff)
  <2>2. PICK i \in DOMAIN q : q[i].kind = "event" /\ q[i].what = e
    BY <1>6, <1>13
  <2>3. QED
    BY <1>15, <2>2
<1>22. \A e \in Closings(cutoff) :
         \E i \in DOMAIN calls : calls[i].kind = "close" /\ calls[i].what = e
  <2>1. TAKE e \in Closings(cutoff)
  <2>2. PICK i \in DOMAIN s : s[i].kind = "close" /\ s[i].what = e
    BY <1>7, <1>14
  <2>3. QED
    BY <1>15, <2>2
<1>23. run' = [run EXCEPT ![r] = [pc |-> "posting", cutoff |-> cutoff, failed |-> FALSE,
                                  calls |-> calls, gap |-> GapDetected(cutoff)]]
  BY ONLY <1>1, <1>8, <1>9, <1>10, <1>11
<1>24. QED
  <2>1. calls \in Seq(Calls)
    BY <1>15
  <2>2. Planned(r, calls, cutoff)
    BY ONLY <1>17, <1>18, <1>19, <1>20, <1>21, <1>22, <1>23 DEF Planned
  <2>3. QED
    BY <2>1, <2>2

(* The same draft, at whatever attempt.                                    *)
SameDraft(c, d) ==
  /\ c.kind = d.kind /\ c.what = d.what /\ c.end = d.end
  /\ c.expected = d.expected /\ c.saw = d.saw

(* old has the drafts of new, which are those of old but for one.          *)
Skip(i, k) == IF k < i THEN k ELSE k + 1

LEMMA Dropped ==
  ASSUME Typed, NEW r \in Runs, NEW i \in DOMAIN run[r].calls, NEW fails \in BOOLEAN,
         Done(r, i, fails)
  PROVE  /\ run' \in [Runs -> RunStates]
         /\ \A q \in Runs : q # r => run'[q] = run[q]
         /\ run'[r].pc = run[r].pc /\ run'[r].cutoff = run[r].cutoff
         /\ run'[r].failed = (run[r].failed \/ fails)
         /\ run'[r].calls \in Seq(Calls) /\ run'[r].calls # run[r].calls
         /\ \A k \in DOMAIN run'[r].calls :
              /\ Skip(i, k) \in DOMAIN run[r].calls /\ Skip(i, k) # i
              /\ run'[r].calls[k] = run[r].calls[Skip(i, k)]
              /\ \A l \in DOMAIN run'[r].calls : k # l => Skip(i, k) # Skip(i, l)
         /\ \A j \in DOMAIN run[r].calls : j # i =>
              \E k \in DOMAIN run'[r].calls : run'[r].calls[k] = run[r].calls[j]
<1>1. run \in [Runs -> RunStates] /\ run[r] \in RunStates
  BY DEF Typed
<1>2. PICK calls : calls = run[r].calls
  OBVIOUS
<1>3. calls \in Seq(Calls) /\ i \in DOMAIN calls
  BY <1>1, <1>2 DEF RunStates
<1>4. PICK left : left = RemoveAt(calls, i)
  OBVIOUS
<1>5. /\ left \in Seq(Calls)
      /\ DOMAIN left = 1..(Len(calls) - 1)
      /\ DOMAIN calls = 1..Len(calls) /\ Len(calls) \in Nat
      /\ \A k \in 1..(Len(calls) - 1) : left[k] = IF k < i THEN calls[k] ELSE calls[k + 1]
  BY ONLY <1>3, <1>4, RemoveAtFacts
<1>6. run' = [run EXCEPT ![r] =
               [run[r] EXCEPT !.calls = left, !.failed = run[r].failed \/ fails]]
  <2>1. run' = [run EXCEPT ![r] = [run[r] EXCEPT !.calls = RemoveAt(run[r].calls, i),
                                                 !.failed = run[r].failed \/ fails]]
    BY DEF Done
  <2>2. left = RemoveAt(run[r].calls, i)
    BY ONLY <1>2, <1>4
  <2>3. QED
    BY ONLY <2>1, <2>2
<1>7. PICK new : new = [run[r] EXCEPT !.calls = left, !.failed = run[r].failed \/ fails]
  OBVIOUS
<1>8. /\ new \in RunStates /\ new.calls = left /\ new.failed = (run[r].failed \/ fails)
      /\ new.pc = run[r].pc /\ new.cutoff = run[r].cutoff
  BY <1>1, <1>5, <1>7 DEF RunStates
<1>9. run' = [run EXCEPT ![r] = new]
  BY ONLY <1>6, <1>7
<1>10. /\ run' \in [Runs -> RunStates] /\ run'[r] = new
       /\ \A q \in Runs : q # r => run'[q] = run[q]
  BY ONLY <1>1, <1>8, <1>9, r \in Runs
<1>11. \A k \in DOMAIN left :
         /\ Skip(i, k) \in DOMAIN calls /\ Skip(i, k) # i
         /\ left[k] = calls[Skip(i, k)]
         /\ \A l \in DOMAIN left : k # l => Skip(i, k) # Skip(i, l)
  <2>1. i \in 1..Len(calls)
    BY <1>3, <1>5
  <2>2. QED
    BY ONLY <1>5, <2>1 DEF Skip
<1>12. ASSUME NEW j \in DOMAIN calls, j # i
       PROVE  \E k \in DOMAIN left : left[k] = calls[j]
  <2>1. i \in 1..Len(calls) /\ j \in 1..Len(calls)
    BY <1>3, <1>5
  <2>2. CASE j < i
    BY ONLY <1>5, <2>1, <2>2
  <2>3. CASE j > i
    <3>1. j - 1 \in 1..(Len(calls) - 1) /\ ~(j - 1 < i) /\ (j - 1) + 1 = j
      BY ONLY <1>5, <2>1, <2>3
    <3>2. left[j - 1] = calls[(j - 1) + 1]
      BY ONLY <1>5, <3>1
    <3>3. QED
      BY ONLY <1>5, <3>1, <3>2
  <2>4. QED
    BY <1>12, <2>1, <2>2, <2>3
<1>13. left # calls
  <2>1. Len(calls) \in DOMAIN calls /\ Len(calls) \notin DOMAIN left
    BY ONLY <1>3, <1>5
  <2>2. QED
    BY ONLY <2>1
<1>14. QED
  BY ONLY <1>2, <1>5, <1>8, <1>10, <1>11, <1>12, <1>13

LEMMA Retried ==
  ASSUME Typed, NEW r \in Runs, NEW i \in DOMAIN run[r].calls,
         MayRetry(run[r].calls[i]), Again(r, i)
  PROVE  /\ run' \in [Runs -> RunStates]
         /\ \A q \in Runs : q # r => run'[q] = run[q]
         /\ run'[r].pc = run[r].pc /\ run'[r].cutoff = run[r].cutoff
         /\ run'[r].failed = run[r].failed
         /\ run'[r].calls \in Seq(Calls) /\ run'[r].calls # run[r].calls
         /\ DOMAIN run'[r].calls = DOMAIN run[r].calls
         /\ \A k \in DOMAIN run[r].calls : SameDraft(run'[r].calls[k], run[r].calls[k])
<1>1. run \in [Runs -> RunStates] /\ run[r] \in RunStates
  BY DEF Typed
<1>2. PICK calls : calls = run[r].calls
  OBVIOUS
<1>3. calls \in Seq(Calls) /\ i \in DOMAIN calls /\ calls[i] \in Calls
  BY <1>1, <1>2 DEF RunStates
<1>4. PICK c : c = [calls[i] EXCEPT !.attempt = @ + 1]
  OBVIOUS
<1>5. c \in Calls /\ SameDraft(c, calls[i]) /\ c # calls[i]
  <2>1. calls[i].attempt + 1 \in 1..Attempts
    <3>1. calls[i].attempt \in 1..Attempts
      BY <1>3 DEF Calls
    <3>2. calls[i].attempt < Attempts
      BY <1>2 DEF MayRetry
    <3>3. QED
      BY ONLY <3>1, <3>2, FeedFacts
  <2>2. QED
    BY <1>3, <1>4, <2>1 DEF Calls, SameDraft
<1>6. PICK new : new = [calls EXCEPT ![i] = c]
  OBVIOUS
<1>7. /\ new \in Seq(Calls) /\ DOMAIN new = DOMAIN calls
      /\ \A k \in DOMAIN calls : new[k] = IF k = i THEN c ELSE calls[k]
  BY <1>3, <1>5, <1>6
<1>8. run' = [run EXCEPT ![r] = [run[r] EXCEPT !.calls = new]]
  <2>1. run' = [run EXCEPT ![r] = [run[r] EXCEPT !.calls =
                 [run[r].calls EXCEPT ![i] = [run[r].calls[i] EXCEPT !.attempt = @ + 1]]]]
    BY DEF Again, ReplaceAt
  <2>2. new = [run[r].calls EXCEPT ![i] = [run[r].calls[i] EXCEPT !.attempt = @ + 1]]
    BY ONLY <1>2, <1>4, <1>6
  <2>3. QED
    BY ONLY <2>1, <2>2
<1>9. PICK state : state = [run[r] EXCEPT !.calls = new]
  OBVIOUS
<1>10. /\ state \in RunStates /\ state.calls = new /\ state.failed = run[r].failed
       /\ state.pc = run[r].pc /\ state.cutoff = run[r].cutoff
  BY <1>1, <1>7, <1>9 DEF RunStates
<1>11. run' = [run EXCEPT ![r] = state]
  BY ONLY <1>8, <1>9
<1>12. /\ run' \in [Runs -> RunStates] /\ run'[r] = state
       /\ \A q \in Runs : q # r => run'[q] = run[q]
  BY ONLY <1>1, <1>10, <1>11, r \in Runs
<1>13. \A k \in DOMAIN calls : SameDraft(new[k], calls[k])
  BY <1>5, <1>7 DEF SameDraft
<1>14. new # calls
  BY ONLY <1>3, <1>5, <1>7
<1>15. QED
  BY ONLY <1>2, <1>7, <1>10, <1>12, <1>13, <1>14

LEMMA Stopped ==
  ASSUME Typed, NEW r \in Runs, run' = [run EXCEPT ![r] = NotRunning]
  PROVE  /\ run' \in [Runs -> RunStates]
         /\ run'[r] = NotRunning
         /\ \A q \in Runs : q # r => run'[q] = run[q]
<1>1. NotRunning \in RunStates
  BY DEF NotRunning, RunStates
<1>2. QED
  BY <1>1 DEF Typed

LEMMA Started ==
  ASSUME FeedInv, NEW r \in Runs, NEW calls \in Seq(Calls),
         Planned(r, calls, LatestClosedBucket(now))
  PROVE  /\ run' \in [Runs -> RunStates]
         /\ run'[r] = [pc |-> "posting", cutoff |-> LatestClosedBucket(now), failed |-> FALSE,
                       calls |-> calls, gap |-> GapDetected(LatestClosedBucket(now))]
         /\ \A q \in Runs : q # r => run'[q] = run[q]
<1> DEFINE new == [pc |-> "posting", cutoff |-> LatestClosedBucket(now), failed |-> FALSE,
                   calls |-> calls, gap |-> GapDetected(LatestClosedBucket(now))]
<1>1. LatestClosedBucket(now) \in Nat
  BY CutoffFacts DEF FeedInv, Typed
<1>2. GapDetected(LatestClosedBucket(now)) \in BOOLEAN
  BY DEF GapDetected
<1>3. new \in RunStates
  BY <1>1, <1>2 DEF RunStates
<1>4. run' = [run EXCEPT ![r] = new]
  BY DEF Planned
<1> HIDE DEF new
<1>5. run' \in [Runs -> RunStates] /\ run'[r] = new /\ \A q \in Runs : q # r => run'[q] = run[q]
  BY <1>3, <1>4 DEF FeedInv, Typed
<1>6. QED
  BY <1>5 DEF new

(* One run takes a step, or none.                                          *)
RunStep(r) ==
  \/ Plan(r)
  \/ run' = [run EXCEPT ![r] = NotRunning]
  \/ \E i \in DOMAIN run[r].calls, fails \in BOOLEAN : Done(r, i, fails)
  \/ \E i \in DOMAIN run[r].calls : MayRetry(run[r].calls[i]) /\ Again(r, i)

LEMMA OneRunSteps ==
  ASSUME FeedInv, [Next]_vars
  PROVE  /\ run' = run \/ \E r \in Runs : RunStep(r)
         /\ \A c \in stray' : c \in stray
              \/ \E r \in Runs : \E i \in DOMAIN run[r].calls : c = run[r].calls[i]
<1>1. ASSUME NEW r \in Runs, Answered(r)
      PROVE  RunStep(r) /\ stray' = stray
  <2>1. PICK i \in DOMAIN run[r].calls : Done(r, i, Fails(run[r].calls[i]))
    BY <1>1, AnsweredServes
  <2>2. Fails(run[r].calls[i]) \in BOOLEAN
    BY DEF Fails
  <2>3. QED
    BY <1>1, <2>1, <2>2 DEF RunStep, Answered
<1>2. ASSUME NEW r \in Runs, GoesWrong(r)
      PROVE  /\ RunStep(r)
             /\ \E i \in DOMAIN run[r].calls : stray' \subseteq stray \union {run[r].calls[i]}
  BY <1>2, WrongServes DEF RunStep
<1>3. ASSUME NEW r \in Runs, Plan(r) \/ Exit(r)
      PROVE  RunStep(r) /\ stray' = stray
  BY <1>3 DEF RunStep, Plan, Exit
<1>4. ASSUME NEW r \in Runs, Killed(r)
      PROVE  /\ RunStep(r)
             /\ \A c \in stray' : c \in stray \/ \E i \in DOMAIN run[r].calls : c = run[r].calls[i]
  <2>1. PICK left \in SUBSET InFlight(r) :
          stray' = stray \union {run[r].calls[i] : i \in left}
    BY <1>4 DEF Killed
  <2>2. left \subseteq DOMAIN run[r].calls
    BY DEF InFlight
  <2>3. QED
    BY <1>4, <2>1, <2>2 DEF RunStep, Killed
<1>5. ASSUME NEW e \in Events, Correct(e)
      PROVE  run' = run /\ stray' = stray
  BY <1>5 DEF Correct
<1>6. CASE Tick \/ UNCHANGED vars
  BY <1>6 DEF Tick, vars
<1>7. CASE ServeStray
  BY <1>7 DEF ServeStray
<1>8. QED
  BY <1>1, <1>2, <1>3, <1>4, <1>5, <1>6, <1>7 DEF Next

LEMMA RunStepFacts ==
  ASSUME FeedInv, NEW r \in Runs, RunStep(r)
  PROVE  /\ run' \in [Runs -> RunStates]
         /\ \A q \in Runs : q # r => run'[q] = run[q]
         /\ run'[r].pc = "idle" => run'[r] = NotRunning
         /\ \A k \in DOMAIN run'[r].calls :
              \/ CallKnown(run'[r].calls[k])
              \/ \E j \in DOMAIN run[r].calls : SameDraft(run'[r].calls[k], run[r].calls[j])
<1>1. Typed /\ (run[r].pc = "idle" => run[r] = NotRunning) /\ NotRunning.calls = << >>
  BY DEF FeedInv, RunsAtRest, NotRunning
<1>2. CASE Plan(r)
  <2>1. PICK calls \in Seq(Calls) : Planned(r, calls, LatestClosedBucket(now))
    BY <1>2, PlannedCalls
  <2>2. run'[r].calls = calls /\ run'[r].pc = "posting"
    <3>1. run'[r] = [pc |-> "posting", cutoff |-> LatestClosedBucket(now), failed |-> FALSE,
                     calls |-> calls, gap |-> GapDetected(LatestClosedBucket(now))]
      BY <2>1, Started
    <3>2. QED
      BY ONLY <3>1
  <2>3. \A k \in DOMAIN calls : CallKnown(calls[k])
    BY <2>1 DEF Planned
  <2>4. QED
    BY <2>1, <2>2, <2>3, Started
<1>3. CASE run' = [run EXCEPT ![r] = NotRunning]
  <2>1. /\ run' \in [Runs -> RunStates]
        /\ run'[r] = NotRunning
        /\ \A q \in Runs : q # r => run'[q] = run[q]
    BY <1>1, <1>3, Stopped
  <2>2. run'[r].calls = << >>
    BY ONLY <1>1, <2>1
  <2>3. DOMAIN run'[r].calls = {}
    BY ONLY <2>2
  <2>4. QED
    BY ONLY <2>1, <2>3
<1>4. CASE \E i \in DOMAIN run[r].calls, fails \in BOOLEAN : Done(r, i, fails)
  <2>1. PICK i \in DOMAIN run[r].calls, fails \in BOOLEAN : Done(r, i, fails)
    BY <1>4
  <2>2. /\ run' \in [Runs -> RunStates]
        /\ \A q \in Runs : q # r => run'[q] = run[q]
        /\ run'[r].pc = run[r].pc
        /\ \A k \in DOMAIN run'[r].calls :
             \E j \in DOMAIN run[r].calls : run'[r].calls[k] = run[r].calls[j]
    BY <1>1, <2>1, Dropped
  <2>3. r \in Running
    BY CallFacts
  <2>4. QED
    BY <2>2, <2>3 DEF SameDraft, Running
<1>5. CASE \E i \in DOMAIN run[r].calls : MayRetry(run[r].calls[i]) /\ Again(r, i)
  <2>1. PICK i \in DOMAIN run[r].calls : MayRetry(run[r].calls[i]) /\ Again(r, i)
    BY <1>5
  <2>2. r \in Running
    BY CallFacts
  <2>3. QED
    BY <1>1, <2>1, <2>2, Retried DEF Running
<1>6. QED
  BY <1>2, <1>3, <1>4, <1>5 DEF RunStep

(* What a call asks stays known.                                           *)
LEMMA KnownStays ==
  ASSUME FeedInv, DatabaseStep, now' \in 0..LastTick, now <= now', NEW c, CallKnown(c),
         c.kind = "close" => c.expected \in Nat,
         c.kind = "record" => c.what \in Lines \X Nat
  PROVE  CallKnown(c)'
<1>1. now \in Nat /\ now' \in Nat /\ Bucket \in Nat /\ Typed /\ OneRow
  BY FeedFacts DEF FeedInv, Typed
<1>2. ASSUME c.kind = "record"
      PROVE  c.what \in Lines \X Nat /\ (c.what[2] + 1) * Bucket <= now'
  <2>1. c.what[2] \in Nat /\ (c.what[2] + 1) * Bucket <= now
    BY <1>2 DEF CallKnown
  <2>2. (c.what[2] + 1) * Bucket \in Nat
    BY <1>1, <2>1
  <2>3. (c.what[2] + 1) * Bucket <= now'
    BY <1>1, <2>1, <2>2
  <2>4. QED
    BY <1>2, <2>3 DEF CallKnown
<1>3. ASSUME c.kind = "event"
      PROVE  /\ c.what \in Events
             /\ EventStart[c.what] < now'
             /\ c.end = Open \/ (c.end = EventEnd[c.what] /\ c.end <= now')
  <2>1. c.what \in Events /\ EventStart[c.what] < now
        /\ (c.end = Open \/ (c.end = EventEnd[c.what] /\ c.end <= now))
    BY <1>3 DEF CallKnown
  <2>2. EventStart[c.what] \in Nat /\ EventEnd[c.what] \in Nat
    BY <2>1, FeedFacts
  <2>3. QED
    BY <1>1, <2>1, <2>2
<1>4. ASSUME c.kind = "close"
      PROVE  /\ c.what \in Events
             /\ c.end = EventEnd[c.what] /\ c.end <= now'
             /\ Exists(c.what)'
             /\ c.expected <= Row(c.what)'.version
             /\ c.expected = Row(c.what)'.version =>
                  event'[c.what] = c.saw /\ Row(c.what)'.end = Open
  <2>1. /\ c.what \in Events
        /\ c.end = EventEnd[c.what] /\ c.end <= now
        /\ Exists(c.what)
        /\ c.expected <= Row(c.what).version
        /\ c.expected = Row(c.what).version => event[c.what] = c.saw /\ Row(c.what).end = Open
    BY <1>4 DEF CallKnown
  <2>2. PICK e \in Events : e = c.what
    BY <2>1
  <2>3. EventEnd[e] \in Nat /\ Row(e).version \in Nat /\ c.expected \in Nat
    BY <1>1, <1>4, <2>1, <2>2, RowFacts, FeedFacts DEF FeedRows
  <2>4. RowStep(e)
    BY DEF DatabaseStep
  <2>5. /\ Exists(e)'
        /\ \/ event'[e] = event[e] /\ Row(e)' = Row(e)
           \/ Row(e)'.version = Row(e).version + 1
    BY <1>1, <2>1, <2>2, <2>4, RowMoves
  <2>6. c.end <= now'
    BY <1>1, <2>1, <2>2, <2>3
  <2>7. QED
    BY ONLY <2>1, <2>2, <2>3, <2>5, <2>6
<1>5. QED
  BY <1>2, <1>3, <1>4 DEF CallKnown

-----------------------------------------------------------------------------
(* Every action preserves what FeedInv says. *)

LEMMA CountsStep ==
  ASSUME Typed, [Next]_vars
  PROVE  /\ troubles' \in 0..MaxTroubles
         /\ disturbed' \subseteq Runs
         /\ alarm' \in BOOLEAN
         /\ succeeded' = succeeded
            \/ \E r \in Runs :
                 /\ Exit(r) /\ ~run[r].failed
                 /\ succeeded' = succeeded \union {run[r].cutoff}
<1>1. /\ troubles \in 0..MaxTroubles /\ disturbed \subseteq Runs /\ alarm \in BOOLEAN
      /\ run \in [Runs -> RunStates] /\ MaxTroubles \in Nat
  BY FeedFacts DEF Typed
<1>2. Running \subseteq Runs
  BY DEF Running
<1>3. ASSUME NEW r \in Runs, Plan(r) \/ Answered(r) \/ GoesWrong(r) \/ Killed(r)
      PROVE  /\ troubles' \in 0..MaxTroubles
             /\ disturbed' \subseteq Runs
             /\ alarm' \in BOOLEAN
             /\ succeeded' = succeeded
  <2>1. CASE Plan(r)
    BY <1>1, <2>1 DEF Plan, history
  <2>2. CASE Answered(r)
    BY <1>1, <1>2, <2>2 DEF Answered, Serve
  <2>3. CASE GoesWrong(r)
    BY <1>1, <1>2, <2>3 DEF GoesWrong
  <2>4. CASE Killed(r)
    BY <1>1, <1>2, <2>4 DEF Killed
  <2>5. QED
    BY <1>3, <2>1, <2>2, <2>3, <2>4
<1>4. ASSUME NEW r \in Runs, Exit(r)
      PROVE  /\ troubles' \in 0..MaxTroubles
             /\ disturbed' \subseteq Runs
             /\ alarm' \in BOOLEAN
             /\ succeeded' = succeeded
                \/ (~run[r].failed /\ succeeded' = succeeded \union {run[r].cutoff})
  <2>1. run[r].failed \in BOOLEAN /\ run[r].gap \in BOOLEAN
    BY <1>1 DEF RunStates
  <2>2. alarm' \in BOOLEAN
    BY <1>4 DEF Exit
  <2>3. QED
    BY <1>1, <1>4, <2>2 DEF Exit
<1>5. ASSUME NEW e \in Events, Correct(e)
      PROVE  /\ troubles' \in 0..MaxTroubles
             /\ disturbed' \subseteq Runs
             /\ alarm' \in BOOLEAN
             /\ succeeded' = succeeded
  BY <1>1, <1>2, <1>5 DEF Correct
<1>6. CASE Tick \/ UNCHANGED vars
  BY <1>1, <1>6 DEF Tick, vars, history
<1>7. CASE ServeStray
  BY <1>1, <1>2, <1>7 DEF ServeStray
<1>8. QED
  BY <1>3, <1>4, <1>5, <1>6, <1>7 DEF Next

LEMMA FeedInvInit == Init => FeedInv
<1> SUFFICES ASSUME Init PROVE FeedInv
  OBVIOUS
<1> USE DEF Init
<1>1. NotRunning \in RunStates /\ NotRunning.calls = << >>
  BY DEF NotRunning, RunStates
<1>2. Typed
  <2>1. /\ now \in 0..LastTick
        /\ stored \subseteq Lines \X Nat /\ stray \subseteq Calls
        /\ troubles \in 0..MaxTroubles
        /\ disturbed \subseteq Runs /\ succeeded \subseteq Nat /\ alarm \in BOOLEAN
    <3>1. 0 \in 0..LastTick /\ 0 \in 0..MaxTroubles
      BY ONLY FeedFacts
    <3>2. /\ stored = {} /\ stray = {} /\ disturbed = {} /\ succeeded = {} /\ alarm = FALSE
          /\ now = 0 /\ troubles = 0
      OBVIOUS
    <3>3. QED
      BY ONLY <3>1, <3>2
  <2>2. event \in [Events -> SUBSET FeedRows]
    OBVIOUS
  <2>3. run \in [Runs -> RunStates]
    BY <1>1
  <2>4. QED
    BY ONLY <2>1, <2>2, <2>3 DEF Typed
<1>3. OneRow /\ NothingFromTheFuture
  BY DEF OneRow, NothingFromTheFuture, Exists
<1>4. RunsAtRest
  BY DEF RunsAtRest
<1>5. CallsKnown
  <2>1. \A r \in Runs : DOMAIN run[r].calls = {}
    BY <1>1
  <2>2. QED
    BY <2>1 DEF CallsKnown
<1>6. QED
  BY <1>2, <1>3, <1>4, <1>5 DEF FeedInv

LEMMA FeedInvStep == FeedInv /\ [Next]_vars => FeedInv'
<1> SUFFICES ASSUME FeedInv, [Next]_vars PROVE FeedInv'
  OBVIOUS
<1>1. DatabaseStep /\ now' \in 0..LastTick /\ now <= now'
  BY EveryStep
<1>2. Typed /\ OneRow /\ now \in Nat /\ now' \in Nat
  BY <1>1, FeedFacts DEF FeedInv, Typed
<1>3. run' \in [Runs -> RunStates]
  <2>1. CASE run' = run
    BY <1>2, <2>1 DEF Typed
  <2>2. CASE \E r \in Runs : RunStep(r)
    BY <2>2, RunStepFacts
  <2>3. QED
    BY <2>1, <2>2, OneRunSteps
<1>4. stray' \subseteq Calls
  <2>1. \A r \in Runs : \A i \in DOMAIN run[r].calls : run[r].calls[i] \in Calls
    BY CallFacts
  <2>2. QED
    BY <1>2, <2>1, OneRunSteps DEF Typed
<1>5. succeeded' \subseteq Nat
  <2>1. \A r \in Runs : run[r].cutoff \in Nat
    BY <1>2 DEF Typed, RunStates
  <2>2. QED
    <3>1. succeeded \subseteq Nat
      BY <1>2 DEF Typed
    <3>2. \/ succeeded' = succeeded
          \/ \E r \in Runs : succeeded' = succeeded \union {run[r].cutoff}
      BY <1>2, CountsStep
    <3>3. CASE \E r \in Runs : succeeded' = succeeded \union {run[r].cutoff}
      <4>1. PICK r \in Runs : succeeded' = succeeded \union {run[r].cutoff}
        BY <3>3
      <4>2. run[r].cutoff \in Nat
        BY <2>1
      <4>3. QED
        BY ONLY <3>1, <4>1, <4>2
    <3>4. QED
      BY <3>1, <3>2, <3>3
<1>6. stored' \subseteq Lines \X Nat /\ event' \in [Events -> SUBSET FeedRows]
  BY <1>1, <1>2 DEF Typed, DatabaseStep
<1>7. Typed'
  BY <1>1, <1>2, <1>3, <1>4, <1>5, <1>6, CountsStep DEF Typed
<1>8. OneRow'
  <2>1. ASSUME NEW e \in Events, Exists(e)'
        PROVE  event'[e] = {Row(e)'}
    <3>1. RowStep(e)
      BY <1>1 DEF DatabaseStep
    <3>2. CASE Exists(e)
      BY <1>2, <3>1, <3>2, RowMoves
    <3>3. CASE ~Exists(e)
      <4>1. event'[e] # event[e]
        BY <2>1, <3>3 DEF Exists
      <4>2. \E end \in Nat \union {Open} : Inserted(e, end)
        BY <3>1, <3>3, <4>1 DEF RowStep, FeedStep, Ended, Corrected
      <4>3. QED
        BY <4>2, InsertedRow
    <3>4. QED
      BY <3>2, <3>3
  <2>2. QED
    BY <2>1 DEF OneRow
<1>9. RunsAtRest'
  <2>1. CASE run' = run
    BY <2>1 DEF FeedInv, RunsAtRest
  <2>2. ASSUME NEW r \in Runs, RunStep(r)
        PROVE  RunsAtRest'
    <3>1. (\A q \in Runs : q # r => run'[q] = run[q]) /\ (run'[r].pc = "idle" => run'[r] = NotRunning)
      BY <2>2, RunStepFacts
    <3>2. QED
      BY <3>1 DEF FeedInv, RunsAtRest, NotRunning
  <2>3. QED
    BY <2>1, <2>2, OneRunSteps
<1>10. CallsKnown'
  <2>1. ASSUME NEW c \in Calls, CallKnown(c)
        PROVE  CallKnown(c)'
    BY <1>1, <2>1, KnownStays DEF CallKnown, Calls
  <2>2. \A r \in Runs : \A i \in DOMAIN run[r].calls :
          run[r].calls[i] \in Calls /\ CallKnown(run[r].calls[i])
    BY CallFacts
  <2>3. \A c \in stray : c \in Calls /\ CallKnown(c)
    BY DEF FeedInv, Typed, CallsKnown
  <2>4. ASSUME NEW c \in stray'
        PROVE  CallKnown(c)'
    <3>1. c \in Calls /\ CallKnown(c)
      BY <2>2, <2>3, OneRunSteps
    <3>2. QED
      BY <2>1, <3>1
  <2>5. ASSUME NEW q \in Runs, NEW k \in DOMAIN run'[q].calls, NEW c, c = run'[q].calls[k]
        PROVE  CallKnown(c)'
    <3>1. c = run'[q].calls[k]
      BY <2>5
    <3>2. c \in Calls
      BY <1>3, <3>1 DEF RunStates
    <3>3. CallKnown(c)
      <4>1. CASE run'[q] = run[q]
        BY <2>2, <3>1, <4>1
      <4>2. CASE run'[q] # run[q]
        <5>1. RunStep(q)
          BY <4>2, OneRunSteps, RunStepFacts
        <5>2. \/ CallKnown(c)
              \/ \E j \in DOMAIN run[q].calls : SameDraft(c, run[q].calls[j])
          BY <3>1, <5>1, RunStepFacts
        <5>3. ASSUME NEW d, CallKnown(d), SameDraft(c, d)
              PROVE  CallKnown(c)
          BY <5>3 DEF CallKnown, SameDraft
        <5>4. QED
          BY <2>2, <5>2, <5>3
      <4>3. QED
        BY <4>1, <4>2
    <3>4. QED
      BY <2>1, <3>2, <3>3
  <2>6. QED
    BY <2>4, <2>5 DEF CallsKnown, CallKnown
<1>11. NothingFromTheFuture'
  <2>1. ASSUME NEW x \in stored'
        PROVE  (x[2] + 1) * Bucket <= now'
    <3>1. x[2] \in Nat /\ Bucket \in Nat
      BY <1>6, FeedFacts
    <3>2. (x[2] + 1) * Bucket <= now
      BY <1>1, <2>1 DEF FeedInv, NothingFromTheFuture, DatabaseStep
    <3>3. QED
      BY <1>1, <1>2, <3>1, <3>2
  <2>2. ASSUME NEW e \in Events, Exists(e)'
        PROVE  /\ EventStart[e] < now'
               /\ Row(e)'.by = "feed" /\ Row(e)'.end # Open =>
                    Row(e)'.end = EventEnd[e] /\ EventEnd[e] <= now'
    <3>1. RowStep(e)
      BY <1>1 DEF DatabaseStep
    <3>2. EventStart[e] \in Nat /\ EventEnd[e] \in Nat
      BY FeedFacts
    <3>3. CASE Exists(e)
      <4>1. /\ EventStart[e] < now
            /\ Row(e).by = "feed" /\ Row(e).end # Open =>
                 Row(e).end = EventEnd[e] /\ EventEnd[e] <= now
        BY <3>3 DEF FeedInv, NothingFromTheFuture
      <4>2. \/ Row(e)' = Row(e)
            \/ Row(e)'.end = EventEnd[e] /\ EventEnd[e] <= now
            \/ Row(e)'.by = "operator"
            \/ Row(e)'.end = Row(e).end /\ Row(e)'.by = Row(e).by
        BY <1>2, <3>1, <3>3, RowMoves
      <4>3. EventStart[e] < now' /\ (EventEnd[e] <= now => EventEnd[e] <= now')
        BY <1>1, <1>2, <3>2, <4>1
      <4>4. QED
        BY ONLY <4>1, <4>2, <4>3
    <3>4. CASE ~Exists(e)
      <4>1. event'[e] # event[e]
        BY <2>2, <3>4 DEF Exists
      <4>2. PICK end \in Nat \union {Open} : Inserted(e, end)
        BY <3>1, <3>4, <4>1 DEF RowStep, FeedStep, Ended, Corrected
      <4>3. Row(e)'.end = end
        BY <4>2, InsertedRow
      <4>4. EventStart[e] < now /\ (end = Open \/ (end = EventEnd[e] /\ end <= now))
        BY <4>2 DEF Inserted
      <4>5. EventStart[e] < now' /\ (EventEnd[e] <= now => EventEnd[e] <= now')
        BY <1>1, <1>2, <3>2, <4>4
      <4>6. QED
        BY ONLY <4>3, <4>4, <4>5
    <3>5. QED
      BY <3>3, <3>4
  <2>3. QED
    BY <2>1, <2>2 DEF NothingFromTheFuture
<1>12. QED
  BY <1>7, <1>8, <1>9, <1>10, <1>11 DEF FeedInv

-----------------------------------------------------------------------------
(* The plans. *)

(* What is in the database stays there, and a hopeless draft stays         *)
(* hopeless whatever the feed writes.                                      *)
LEMMA RowsLast ==
  ASSUME Typed, OneRow, DatabaseStep
  PROVE  /\ \A x \in stored : x \in stored'
         /\ \A e \in Events : Exists(e) => Exists(e)'
         /\ \A e \in Events : Settled(e) => Settled(e)'
<1>1. \A e \in Events : RowStep(e)
  BY DEF DatabaseStep
<1>2. ASSUME NEW e \in Events, Exists(e)
      PROVE  Exists(e)' /\ (Settled(e) => Settled(e)')
  BY <1>1, <1>2, RowMoves
<1>3. QED
  BY <1>2 DEF DatabaseStep, Settled

LEMMA HopelessStays ==
  ASSUME Typed, OneRow, NEW e \in Events, FeedStep(e), Hopeless(e)
  PROVE  Hopeless(e)'
<1>1. CASE EventStart[e] = EventEnd[e]
  BY <1>1 DEF Hopeless
<1>2. CASE Exists(e) /\ Row(e).end = Open /\ EventEnd[e] <= Row(e).started
  <2>1. EventEnd[e] \in Nat /\ Row(e).started \in Nat
    BY <1>2, RowFacts, FeedFacts DEF FeedRows
  <2>2. ~Ended(e)
    BY <1>2, <2>1 DEF Ended
  <2>3. event'[e] = event[e]
    BY <1>2, <2>2 DEF FeedStep, Inserted
  <2>4. Exists(e)' /\ Row(e)' = Row(e)
    BY <1>2, <2>3 DEF Exists, Row
  <2>5. QED
    BY ONLY <1>2, <2>4 DEF Hopeless
<1>3. QED
  BY <1>1, <1>2 DEF Hopeless

(* What a success leaves in the database.                                  *)
LEMMA SuccessIsThere ==
  ASSUME Typed, OneRow, NEW c \in Calls, CallKnown(c), ServerStep(c), Outcome(c).ok
  PROVE  /\ c.kind = "record" => c.what \in stored'
         /\ c.kind = "event" => Exists(c.what)' /\ (c.end # Open => Settled(c.what)')
         /\ c.kind = "close" => Settled(c.what)'
<1>1. CASE c.kind = "record"
  BY <1>1, ServeRecord
<1>2. ASSUME c.kind = "event", NEW e \in Events, e = c.what
      PROVE  Exists(e)' /\ (c.end # Open => Settled(e)')
  <2>1. Exists(e)' /\ (c.end # Open => Row(e)'.end = c.end)
    BY <1>2, ServeEvent
  <2>2. QED
    BY ONLY <2>1 DEF Settled
<1>3. ASSUME c.kind = "close", NEW e \in Events, e = c.what
      PROVE  Settled(e)'
  <2>1. Ended(e)
    BY <1>3, ServeClosing
  <2>2. event'[e] = {[started |-> Row(e).started, end |-> EventEnd[e],
                      version |-> Row(e).version + 1, by |-> "feed"]}
    BY <2>1 DEF Ended
  <2>3. Exists(e)' /\ Row(e)'.end = EventEnd[e]
    <3>1. PICK row : row = [started |-> Row(e).started, end |-> EventEnd[e],
                            version |-> Row(e).version + 1, by |-> "feed"]
      OBVIOUS
    <3>2. Exists(e)' /\ Row(e)' = row
      BY ONLY <2>2, <3>1, RowOf
    <3>3. row.end = EventEnd[e]
      BY ONLY <3>1
    <3>4. QED
      BY ONLY <3>2, <3>3
  <2>4. EventEnd[e] # Open
    BY FeedFacts
  <2>5. QED
    BY ONLY <2>3, <2>4 DEF Settled
<1>4. c.kind # "record" => c.what \in Events
  BY DEF CallKnown, Calls
<1>5. QED
  BY <1>1, <1>2, <1>3, <1>4 DEF Calls

(* A draft refused though its plan still holds is hopeless.                *)
LEMMA RefusedIsHopeless ==
  ASSUME Typed, OneRow, NEW c \in Calls, CallKnown(c), ServerStep(c), ~Outcome(c).ok,
         c.kind = "event" => ~Exists(c.what),
         c.kind = "close" => Row(c.what).version = c.expected
  PROVE  c.kind # "record" /\ c.what \in Events /\ event' = event /\ Hopeless(c.what)
<1>1. c.kind # "record"
  BY ServeRecord
<1>2. PICK e \in Events : e = c.what
  BY <1>1 DEF CallKnown, Calls
<1>3. EventStart[e] \in Nat /\ EventEnd[e] \in Nat /\ EventStart[e] <= EventEnd[e]
  BY FeedFacts, EventsEndWithTheirDay
<1>4. CASE c.kind = "event"
  <2>1. event' = event /\ c.end # Open /\ c.end <= EventStart[e]
    BY <1>2, <1>4, ServeEvent
  <2>2. c.end = EventEnd[e]
    BY <1>2, <1>4, <2>1 DEF CallKnown
  <2>3. EventStart[e] = EventEnd[e]
    BY ONLY <1>3, <2>1, <2>2
  <2>4. QED
    BY <1>2, <1>4, <2>1, <2>3 DEF Hopeless
<1>5. CASE c.kind = "close"
  <2>1. event' = event /\ c.end <= Row(e).started
    BY <1>2, <1>5, ServeClosing
  <2>2. c.end = EventEnd[e] /\ Exists(e) /\ Row(e).end = Open
    BY <1>2, <1>5 DEF CallKnown
  <2>3. QED
    BY <1>2, <1>5, <2>1, <2>2 DEF Hopeless
<1>6. QED
  BY <1>1, <1>4, <1>5 DEF Calls

LEMMA RunLeftAlone ==
  ASSUME FeedInv, DatabaseStep, NEW r \in Runs, run'[r] = run[r],
         PlanIsCovered(r), CallsArePlanned(r), PlanStillHolds(r),
         r \in Running => r \in disturbed' \/ (r \notin disturbed /\ event' = event)
  PROVE  PlanIsCovered(r)' /\ CallsArePlanned(r)' /\ PlanStillHolds(r)'
<1>1. Typed /\ OneRow
  BY DEF FeedInv
<1>2. PlannedEvents(run[r].cutoff) \subseteq Events
  BY DEF PlannedEvents, DayRuns
<1>3. \A kind, what : ToDo(r, kind, what) => ToDo(r, kind, what)'
  BY DEF ToDo
<1>4. PlanIsCovered(r)'
  BY <1>1, <1>2, <1>3, RowsLast DEF PlanIsCovered
<1>5. CallsArePlanned(r)'
  BY DEF CallsArePlanned
<1>6. PlanStillHolds(r)'
  <2>1. CASE r \in disturbed'
    BY <2>1 DEF PlanStillHolds
  <2>2. CASE r \notin disturbed /\ event' = event
    BY <2>2 DEF PlanStillHolds, Hopeless, Exists, Row
  <2>3. CASE r \notin Running
    <3>1. run[r].pc \in {"idle", "posting"}
      BY <1>1 DEF Typed, RunStates
    <3>2. run[r] = NotRunning
      BY <2>3, <3>1 DEF FeedInv, RunsAtRest, Running
    <3>3. run'[r].calls = << >> /\ ~run'[r].failed
      BY <3>2 DEF NotRunning
    <3>4. DOMAIN run'[r].calls = {}
      BY ONLY <3>3
    <3>5. QED
      BY <3>3, <3>4 DEF PlanStillHolds
  <2>4. QED
    BY <2>1, <2>2, <2>3
<1>7. QED
  BY <1>4, <1>5, <1>6

(* A run that has planned.                                                 *)
LEMMA FreshPlan ==
  ASSUME FeedInv, NEW r \in Runs, Plan(r)
  PROVE  PlanIsCovered(r)' /\ CallsArePlanned(r)' /\ PlanStillHolds(r)'
<1>1. PICK cutoff : cutoff = LatestClosedBucket(now)
  OBVIOUS
<1>2. PICK calls \in Seq(Calls) : Planned(r, calls, cutoff)
  BY <1>1, PlannedCalls
<1>3. run'[r].cutoff = cutoff /\ ~run'[r].failed /\ run'[r].calls = calls
  <2>1. run'[r] = [pc |-> "posting", cutoff |-> cutoff, failed |-> FALSE,
                   calls |-> calls, gap |-> GapDetected(cutoff)]
    BY <1>1, <1>2, Started
  <2>2. QED
    BY ONLY <2>1
<1>4. stored' = stored /\ event' = event
  BY DEF Plan
<1>5. cutoff \in Nat
  BY <1>1, CutoffFacts DEF FeedInv, Typed
<1>6. PlanIsCovered(r)'
  <2>1. ASSUME NEW x \in PlannedRecords(cutoff), x \notin stored
        PROVE  \E i \in DOMAIN calls : calls[i].kind = "record" /\ calls[i].what = x
    <3>1. x \in MissingRecords(cutoff)
      BY <2>1 DEF MissingRecords
    <3>2. QED
      BY <1>2, <3>1 DEF Planned
  <2>2. ASSUME NEW e \in PlannedEvents(cutoff), ~Exists(e)
        PROVE  \E i \in DOMAIN calls : calls[i].kind = "event" /\ calls[i].what = e
    <3>1. e \in MissingEvents(cutoff)
      BY <2>2 DEF MissingEvents
    <3>2. QED
      BY <1>2, <3>1 DEF Planned
  <2>3. ASSUME NEW e \in PlannedEvents(cutoff), Exists(e), EventEnd[e] <= cutoff, ~Settled(e)
        PROVE  \E i \in DOMAIN calls : calls[i].kind = "close" /\ calls[i].what = e
    <3>1. e \in Closings(cutoff)
      BY <2>3 DEF Closings, Settled
    <3>2. QED
      BY <1>2, <3>1 DEF Planned
  <2>4. QED
    BY <1>3, <1>4, <2>1, <2>2, <2>3 DEF PlanIsCovered, ToDo, Settled, Exists, Row
<1>7. CallsArePlanned(r)'
  <2>1. MissingEvents(cutoff) \subseteq PlannedEvents(cutoff) /\ Closings(cutoff) \subseteq PlannedEvents(cutoff)
    BY DEF MissingEvents, Closings
  <2>2. \A i \in DOMAIN calls : calls[i].kind \in {"record", "event", "close"}
    <3>1. \A i \in DOMAIN calls : calls[i] \in Calls
      BY <1>2
    <3>2. QED
      BY <3>1 DEF Calls
  <2>3. ASSUME NEW i \in DOMAIN calls, calls[i].kind # "record"
        PROVE  /\ calls[i].what \in PlannedEvents(cutoff)
               /\ calls[i].kind = "event" => calls[i].end = VisibleEnd(calls[i].what, cutoff)
               /\ \A j \in DOMAIN calls :
                    j # i /\ calls[j].kind # "record" => calls[j].what # calls[i].what
    BY <1>2, <2>1, <2>2, <2>3 DEF Planned
  <2>4. QED
    BY <1>3, <2>3 DEF CallsArePlanned
<1>8. PlanStillHolds(r)'
  <2>1. ASSUME NEW i \in DOMAIN calls
        PROVE  /\ calls[i].kind = "event" => ~Exists(calls[i].what)
               /\ calls[i].kind = "close" => Row(calls[i].what).version = calls[i].expected
    BY <1>2 DEF Planned, MissingEvents
  <2>2. ASSUME NEW c
        PROVE  /\ ~Exists(c.what) => ~Exists(c.what)'
               /\ Row(c.what)' = Row(c.what)
    BY <1>4 DEF Exists, Row
  <2>3. ASSUME NEW i \in DOMAIN run'[r].calls, NEW c, c = run'[r].calls[i]
        PROVE  /\ c.kind = "event" => ~Exists(c.what)'
               /\ c.kind = "close" => Row(c.what)'.version = c.expected
    <3>1. i \in DOMAIN calls /\ c = calls[i]
      BY ONLY <1>3, <2>3
    <3>2. QED
      BY <2>1, <2>2, <3>1
  <2>4. QED
    BY <1>3, <2>3 DEF PlanStillHolds, Exists, Row
<1>9. QED
  BY <1>6, <1>7, <1>8

LEMMA AfterStop ==
  ASSUME Typed, NEW r \in Runs, run' = [run EXCEPT ![r] = NotRunning]
  PROVE  PlanIsCovered(r)' /\ CallsArePlanned(r)' /\ PlanStillHolds(r)'
<1>1. run'[r].pc = "idle" /\ run'[r].calls = << >> /\ ~run'[r].failed
  BY Stopped DEF NotRunning
<1>2. DOMAIN run'[r].calls = {}
  BY ONLY <1>1
<1>3. QED
  BY <1>1, <1>2 DEF PlanIsCovered, CallsArePlanned, PlanStillHolds

LEMMA AfterRetry ==
  ASSUME FeedInv, DatabaseStep, NEW r \in Runs, NEW i \in DOMAIN run[r].calls,
         MayRetry(run[r].calls[i]), Again(r, i), r \in disturbed',
         PlanIsCovered(r), CallsArePlanned(r)
  PROVE  PlanIsCovered(r)' /\ CallsArePlanned(r)' /\ PlanStillHolds(r)'
<1>1. Typed /\ OneRow
  BY DEF FeedInv
<1>2. /\ run'[r].pc = run[r].pc /\ run'[r].cutoff = run[r].cutoff
      /\ run'[r].failed = run[r].failed
      /\ DOMAIN run'[r].calls = DOMAIN run[r].calls
      /\ \A k \in DOMAIN run[r].calls : SameDraft(run'[r].calls[k], run[r].calls[k])
  BY <1>1, Retried
<1>3. PlannedEvents(run[r].cutoff) \subseteq Events
  BY DEF PlannedEvents, DayRuns
<1>4. \A kind, what : ToDo(r, kind, what) => ToDo(r, kind, what)'
  BY <1>2 DEF ToDo, SameDraft
<1>5. PlanIsCovered(r)'
  BY <1>1, <1>2, <1>3, <1>4, RowsLast DEF PlanIsCovered
<1>6. CallsArePlanned(r)'
  BY <1>2 DEF CallsArePlanned, SameDraft
<1>7. QED
  BY <1>5, <1>6 DEF PlanStillHolds

(* A run has one call less, and has failed with it if it was refused.      *)
LEMMA PlannedStill ==
  ASSUME Typed, NEW r \in Runs, NEW i \in DOMAIN run[r].calls, NEW fails \in BOOLEAN,
         Done(r, i, fails), CallsArePlanned(r)
  PROVE  CallsArePlanned(r)'
<1>1. /\ run'[r].cutoff = run[r].cutoff
      /\ \A k \in DOMAIN run'[r].calls :
           /\ Skip(i, k) \in DOMAIN run[r].calls
           /\ run'[r].calls[k] = run[r].calls[Skip(i, k)]
           /\ \A l \in DOMAIN run'[r].calls : k # l => Skip(i, k) # Skip(i, l)
  BY Dropped
<1>2. QED
  BY <1>1 DEF CallsArePlanned

LEMMA AfterFailure ==
  ASSUME Typed, NEW r \in Runs, NEW i \in DOMAIN run[r].calls, Done(r, i, TRUE),
         r \in disturbed', CallsArePlanned(r)
  PROVE  PlanIsCovered(r)' /\ CallsArePlanned(r)' /\ PlanStillHolds(r)'
<1>1. run'[r].failed
  BY Dropped
<1>2. CallsArePlanned(r)'
  BY PlannedStill
<1>3. QED
  BY <1>1, <1>2 DEF PlanIsCovered, PlanStillHolds

LEMMA AfterAnswer ==
  ASSUME FeedInv, NEW r \in Runs, NEW i \in DOMAIN run[r].calls, NEW c, c = run[r].calls[i],
         ServerStep(c), Done(r, i, Fails(c)),
         PlanIsCovered(r), CallsArePlanned(r), PlanStillHolds(r),
         r \in disturbed => r \in disturbed'
  PROVE  PlanIsCovered(r)' /\ CallsArePlanned(r)' /\ PlanStillHolds(r)'
<1>1. Typed /\ OneRow /\ c \in Calls /\ CallKnown(c) /\ run[r] \in RunStates
  BY CallFacts DEF FeedInv, Typed
<1>2. /\ DatabaseStep
      /\ \A e \in Events : FeedStep(e)
      /\ \A e \in Events : e # c.what => event'[e] = event[e]
  BY <1>1, Served
<1>3. PICK fails \in BOOLEAN : fails = Fails(c)
  BY DEF Fails
<1>4. /\ run'[r].pc = run[r].pc /\ run'[r].cutoff = run[r].cutoff
      /\ run'[r].failed = (run[r].failed \/ fails)
      /\ \A k \in DOMAIN run'[r].calls :
           /\ Skip(i, k) \in DOMAIN run[r].calls /\ Skip(i, k) # i
           /\ run'[r].calls[k] = run[r].calls[Skip(i, k)]
      /\ \A j \in DOMAIN run[r].calls : j # i =>
           \E k \in DOMAIN run'[r].calls : run'[r].calls[k] = run[r].calls[j]
  BY <1>1, <1>3, Dropped
<1>5. CallsArePlanned(r)'
  BY <1>1, <1>3, PlannedStill
<1>6. PlannedEvents(run[r].cutoff) \subseteq Events
  BY DEF PlannedEvents, DayRuns
<1>7. PlanIsCovered(r)'
  <2>1. SUFFICES ASSUME run'[r].pc = "posting", ~run'[r].failed
        PROVE  /\ \A x \in PlannedRecords(run[r].cutoff) : x \in stored' \/ ToDo(r, "record", x)'
               /\ \A e \in PlannedEvents(run[r].cutoff) :
                    /\ Exists(e)' \/ ToDo(r, "event", e)'
                    /\ EventEnd[e] <= run[r].cutoff =>
                         Settled(e)' \/ ToDo(r, "event", e)' \/ ToDo(r, "close", e)'
    BY <1>4 DEF PlanIsCovered
  <2>2. Outcome(c).ok
    BY <1>3, <1>4, <2>1 DEF Fails
  <2>3. /\ \A x \in PlannedRecords(run[r].cutoff) : x \in stored \/ ToDo(r, "record", x)
        /\ \A e \in PlannedEvents(run[r].cutoff) :
             /\ Exists(e) \/ ToDo(r, "event", e)
             /\ EventEnd[e] <= run[r].cutoff =>
                  Settled(e) \/ ToDo(r, "event", e) \/ ToDo(r, "close", e)
    BY <1>4, <2>1 DEF PlanIsCovered
  <2>4. ASSUME NEW kind, NEW what, ToDo(r, kind, what)
        PROVE  (c.kind = kind /\ c.what = what) \/ ToDo(r, kind, what)'
    <3>1. PICK j \in DOMAIN run[r].calls :
            run[r].calls[j].kind = kind /\ run[r].calls[j].what = what
      BY <2>4 DEF ToDo
    <3>2. CASE j = i
      BY <3>1, <3>2, c = run[r].calls[i]
    <3>3. CASE j # i
      <4>1. PICK k \in DOMAIN run'[r].calls : run'[r].calls[k] = run[r].calls[j]
        BY <1>4, <3>3
      <4>2. QED
        BY <3>1, <4>1 DEF ToDo
    <3>4. QED
      BY <3>2, <3>3
  <2>5. /\ c.kind = "record" => c.what \in stored'
        /\ c.kind = "event" => Exists(c.what)' /\ (c.end # Open => Settled(c.what)')
        /\ c.kind = "close" => Settled(c.what)'
    BY <1>1, <2>2, SuccessIsThere
  <2>6. /\ \A x \in stored : x \in stored'
        /\ \A e \in Events : Exists(e) => Exists(e)'
        /\ \A e \in Events : Settled(e) => Settled(e)'
    BY <1>1, <1>2, RowsLast
  <2>7. \A x \in PlannedRecords(run[r].cutoff) : x \in stored' \/ ToDo(r, "record", x)'
    BY ONLY <2>3, <2>4, <2>5, <2>6
  <2>8. ASSUME NEW e \in PlannedEvents(run[r].cutoff)
        PROVE  Exists(e)' \/ ToDo(r, "event", e)'
    <3>1. e \in Events /\ (Exists(e) \/ ToDo(r, "event", e))
      BY <1>6, <2>3
    <3>2. CASE Exists(e)
      BY <2>6, <3>1, <3>2
    <3>3. CASE ToDo(r, "event", e)
      <4>1. (c.kind = "event" /\ c.what = e) \/ ToDo(r, "event", e)'
        BY <2>4, <3>3
      <4>2. QED
        BY <2>5, <4>1
    <3>4. QED
      BY <3>1, <3>2, <3>3
  <2>9. ASSUME NEW e \in PlannedEvents(run[r].cutoff), EventEnd[e] <= run[r].cutoff
        PROVE  Settled(e)' \/ ToDo(r, "event", e)' \/ ToDo(r, "close", e)'
    <3>1. e \in Events /\ (Settled(e) \/ ToDo(r, "event", e) \/ ToDo(r, "close", e))
      BY <1>6, <2>3, <2>9
    <3>2. CASE Settled(e)
      BY <2>6, <3>1, <3>2
    <3>3. CASE ToDo(r, "event", e)
      <4>1. (c.kind = "event" /\ c.what = e) \/ ToDo(r, "event", e)'
        BY <2>4, <3>3
      <4>2. c.kind = "event" /\ c.what = e => c.end = VisibleEnd(e, run[r].cutoff)
        BY c = run[r].calls[i] DEF CallsArePlanned
      <4>3. VisibleEnd(e, run[r].cutoff) # Open
        BY <2>9, <3>1, FeedFacts DEF VisibleEnd
      <4>4. QED
        BY <2>5, <4>1, <4>2, <4>3
    <3>4. CASE ToDo(r, "close", e)
      <4>1. (c.kind = "close" /\ c.what = e) \/ ToDo(r, "close", e)'
        BY <2>4, <3>4
      <4>2. QED
        BY <2>5, <4>1
    <3>5. QED
      BY <3>1, <3>2, <3>3, <3>4
  <2>10. QED
    BY <2>7, <2>8, <2>9
<1>8. PlanStillHolds(r)'
  <2>1. SUFFICES ASSUME r \notin disturbed'
        PROVE  PlanStillHolds(r)'
    BY DEF PlanStillHolds
  <2>2. /\ \A j \in DOMAIN run[r].calls :
             /\ run[r].calls[j].kind = "event" => ~Exists(run[r].calls[j].what)
             /\ run[r].calls[j].kind = "close" =>
                  Row(run[r].calls[j].what).version = run[r].calls[j].expected
        /\ run[r].failed => \E e \in PlannedEvents(run[r].cutoff) : Hopeless(e)
    BY <2>1 DEF PlanStillHolds
  <2>3. ASSUME NEW k \in DOMAIN run'[r].calls, NEW d, d = run'[r].calls[k]
        PROVE  /\ d.kind = "event" => ~Exists(d.what)'
               /\ d.kind = "close" => Row(d.what)'.version = d.expected
    <3>1. PICK j \in DOMAIN run[r].calls : j # i /\ d = run[r].calls[j]
      BY <1>4, <2>3
    <3>2. /\ d.kind = "event" => ~Exists(d.what)
          /\ d.kind = "close" => Row(d.what).version = d.expected
      BY <2>2, <3>1
    <3>3. d.kind # "record" => event'[d.what] = event[d.what]
      <4>1. ASSUME d.kind # "record"
            PROVE  event'[d.what] = event[d.what]
        <5>1. d.what \in Events
          BY <1>6, <3>1, <4>1 DEF CallsArePlanned
        <5>2. CASE c.kind = "record"
          BY <5>2, ServeRecord
        <5>3. CASE c.kind # "record"
          <6>1. d.what # c.what
            BY <3>1, <4>1, <5>3, c = run[r].calls[i] DEF CallsArePlanned
          <6>2. QED
            BY <1>2, <5>1, <6>1
        <5>4. QED
          BY <5>2, <5>3
      <4>2. QED
        BY <4>1
    <3>4. QED
      BY <3>2, <3>3 DEF Exists, Row
  <2>4. ASSUME run'[r].failed
        PROVE  \E e \in PlannedEvents(run[r].cutoff) : Hopeless(e)'
    <3>1. CASE run[r].failed
      <4>1. PICK e \in PlannedEvents(run[r].cutoff) : Hopeless(e)
        BY <2>2, <3>1
      <4>2. e \in Events /\ FeedStep(e)
        BY <1>2, <1>6
      <4>3. Hopeless(e)'
        BY <1>1, <4>1, <4>2, HopelessStays
      <4>4. QED
        BY <4>3
    <3>2. CASE fails
      <4>1. ~Outcome(c).ok
        BY <1>3, <3>2 DEF Fails
      <4>2. /\ c.kind = "event" => ~Exists(c.what)
            /\ c.kind = "close" => Row(c.what).version = c.expected
        BY <2>2, c = run[r].calls[i]
      <4>3. c.kind # "record" /\ event' = event /\ Hopeless(c.what)
        BY <1>1, <4>1, <4>2, RefusedIsHopeless
      <4>4. c.what \in PlannedEvents(run[r].cutoff)
        BY <4>3, c = run[r].calls[i] DEF CallsArePlanned
      <4>5. PICK e \in Events : e = c.what
        BY <1>6, <4>4
      <4>6. Hopeless(e)'
        BY <1>1, <1>2, <4>3, <4>5, HopelessStays
      <4>7. QED
        BY <4>4, <4>5, <4>6
    <3>3. QED
      BY <1>4, <2>4, <3>1, <3>2
  <2>5. QED
    BY <1>4, <2>3, <2>4 DEF PlanStillHolds, Exists, Row, Hopeless
<1>9. QED
  BY <1>5, <1>7, <1>8

LEMMA PlanInvInit == Init => PlanInv
<1> SUFFICES ASSUME Init, NEW r \in Runs
             PROVE  PlanIsCovered(r) /\ CallsArePlanned(r) /\ PlanStillHolds(r)
  BY DEF PlanInv
<1>1. run[r].pc = "idle" /\ run[r].calls = << >> /\ ~run[r].failed
  BY DEF Init, NotRunning
<1>2. DOMAIN run[r].calls = {}
  BY ONLY <1>1
<1>3. QED
  BY <1>1, <1>2 DEF PlanIsCovered, CallsArePlanned, PlanStillHolds

LEMMA PlanInvStep == FeedInv /\ PlanInv /\ [Next]_vars => PlanInv'
<1> SUFFICES ASSUME FeedInv, PlanInv, [Next]_vars, NEW r \in Runs
             PROVE  PlanIsCovered(r)' /\ CallsArePlanned(r)' /\ PlanStillHolds(r)'
  BY DEF PlanInv
<1>1. DatabaseStep
  BY EveryStep
<1>2. Typed /\ OneRow /\ PlanIsCovered(r) /\ CallsArePlanned(r) /\ PlanStillHolds(r)
  BY DEF FeedInv, PlanInv
(* Unless it is r that acts, whoever writes disturbs r if it is running.   *)
<1>3. SUFFICES ASSUME \/ run'[r] # run[r]
                      \/ /\ r \in Running /\ r \notin disturbed'
                         /\ r \in disturbed \/ event' # event
               PROVE  PlanIsCovered(r)' /\ CallsArePlanned(r)' /\ PlanStillHolds(r)'
  BY <1>1, <1>2, RunLeftAlone
<1>4. CASE Tick \/ UNCHANGED vars
  BY <1>3, <1>4 DEF Tick, vars, history
<1>5. CASE ServeStray
  <2>1. PICK c \in stray :
          LET after == Outcome(c).after IN
          /\ event' = after.event
          /\ disturbed' = IF after = Unchanged THEN disturbed ELSE Running
    BY <1>5 DEF ServeStray
  <2>2. Unchanged.event = event
    BY DEF Unchanged
  <2>3. run' = run
    BY <1>5 DEF ServeStray
  <2>4. QED
    BY <1>3, <2>1, <2>2, <2>3
<1>6. ASSUME NEW e \in Events, Correct(e)
      PROVE  FALSE
  BY <1>3, <1>6 DEF Correct
<1>7. ASSUME NEW q \in Runs, Plan(q)
      PROVE  PlanIsCovered(r)' /\ CallsArePlanned(r)' /\ PlanStillHolds(r)'
  <2>1. disturbed' = disturbed /\ event' = event
    BY <1>7 DEF Plan, history
  <2>2. RunStep(q)
    BY <1>7 DEF RunStep
  <2>3. q = r
    BY <1>3, <2>1, <2>2, RunStepFacts
  <2>4. QED
    BY <1>7, <2>3, FreshPlan
<1>8. ASSUME NEW q \in Runs, Exit(q) \/ Killed(q)
      PROVE  PlanIsCovered(r)' /\ CallsArePlanned(r)' /\ PlanStillHolds(r)'
  <2>1. disturbed' = disturbed \ {q} /\ event' = event /\ run' = [run EXCEPT ![q] = NotRunning]
    BY <1>8 DEF Exit, Killed
  <2>2. q = r
    BY <1>2, <1>3, <2>1, Stopped
  <2>3. QED
    BY <1>2, <2>1, <2>2, AfterStop
<1>9. ASSUME NEW q \in Runs, Answered(q)
      PROVE  PlanIsCovered(r)' /\ CallsArePlanned(r)' /\ PlanStillHolds(r)'
  <2>1. PICK i \in DOMAIN run[q].calls :
          /\ ServerStep(run[q].calls[i])
          /\ Serve(run[q].calls[i], q)
          /\ Done(q, i, Fails(run[q].calls[i]))
    BY <1>9, AnsweredServes
  <2>2. PICK c : c = run[q].calls[i]
    OBVIOUS
  <2>3. ServerStep(c) /\ Serve(c, q) /\ Done(q, i, Fails(c))
    BY ONLY <2>1, <2>2
  <2>4. Unchanged.event = event
    BY DEF Unchanged
  <2>5. \/ disturbed' = disturbed /\ event' = event
        \/ disturbed' = disturbed \union (Running \ {q})
    BY <2>3, <2>4 DEF Serve
  <2>6. RunStep(q)
    BY <2>1, <2>3 DEF RunStep, Fails
  <2>7. q = r
    BY <1>3, <2>5, <2>6, RunStepFacts
  <2>8. r \in disturbed => r \in disturbed'
    BY <2>5
  <2>9. QED
    BY <1>2, <2>2, <2>3, <2>7, <2>8, AfterAnswer
<1>10. ASSUME NEW q \in Runs, GoesWrong(q)
       PROVE  PlanIsCovered(r)' /\ CallsArePlanned(r)' /\ PlanStillHolds(r)'
  <2>1. PICK i \in DOMAIN run[q].calls :
          /\ (MayRetry(run[q].calls[i]) /\ Again(q, i)) \/ Done(q, i, TRUE)
          /\ ~UNCHANGED <<stored, event>> => disturbed' = disturbed \union Running
          /\ disturbed' = disturbed \union Running \/ disturbed' = disturbed \union {q}
    BY <1>10, WrongServes
  <2>2. RunStep(q)
    BY <2>1 DEF RunStep
  <2>3. q = r
    BY <1>3, <2>1, <2>2, RunStepFacts
  <2>4. q \in Running
    BY CallFacts
  <2>5. r \in disturbed'
    BY <2>1, <2>3, <2>4
  <2>6. QED
    BY <1>1, <1>2, <2>1, <2>3, <2>5, AfterRetry, AfterFailure
<1>11. QED
  BY <1>4, <1>5, <1>6, <1>7, <1>8, <1>9, <1>10 DEF Next

-----------------------------------------------------------------------------
(* What follows. *)

LEMMA FeedInvAlways == Spec => [](FeedInv /\ PlanInv)
<1>1. Init => FeedInv /\ PlanInv
  BY FeedInvInit, PlanInvInit
<1>2. FeedInv /\ PlanInv /\ [Next]_vars => (FeedInv /\ PlanInv)'
  BY FeedInvStep, PlanInvStep
<1>3. QED
  BY <1>1, <1>2, PTL DEF Spec

(* Every variable has its type: an event has one row, and a call is never  *)
(* sent more often than RETRY_MAX_ATTEMPTS.                                *)
THEOREM FeedIsTyped == Spec => []TypeOK
<1>1. ASSUME FeedInv
      PROVE  TypeOK
  <2>1. Typed /\ OneRow
    BY <1>1 DEF FeedInv
  <2>2. ASSUME NEW e \in Events, NEW row \in event[e]
        PROVE  /\ Cardinality(event[e]) = 1
               /\ row.started \in Nat /\ row.end \in Nat \union {Open}
               /\ row.by \in {"feed", "operator"}
    <3>1. Exists(e)
      BY <2>2 DEF Exists
    <3>2. event[e] = {Row(e)}
      BY <2>1, <3>1 DEF OneRow
    <3>3. Cardinality(event[e]) = 1
      BY ONLY <3>2, FS_Singleton
    <3>4. row \in FeedRows
      BY <2>1 DEF Typed
    <3>5. QED
      BY <3>3, <3>4 DEF FeedRows
  <2>3. ASSUME NEW r \in Runs
        PROVE  /\ run[r].pc \in {"idle", "posting"}
               /\ \A i \in DOMAIN run[r].calls : run[r].calls[i].attempt \in 1..Attempts
    <3>1. run[r] \in RunStates
      BY <2>1 DEF Typed
    <3>2. \A i \in DOMAIN run[r].calls : run[r].calls[i] \in Calls
      BY <1>1, CallFacts
    <3>3. QED
      BY <3>1, <3>2 DEF RunStates, Calls
  <2>4. succeeded \subseteq Int
    BY <2>1 DEF Typed
  <2>5. QED
    BY <2>1, <2>2, <2>3, <2>4 DEF TypeOK, Typed
<1>2. QED
  BY <1>1, FeedInvAlways, PTL

(* The deterministic future stays out of the database, however many runs   *)
(* overlap, and whatever is lost, resent, late or corrected.               *)
THEOREM FutureStaysOut == Spec => []NothingFromTheFuture
<1>1. FeedInv => NothingFromTheFuture
  BY DEF FeedInv
<1>2. QED
  BY <1>1, FeedInvAlways, PTL

(* A step that is done with a call or sends it again has served it, if it   *)
(* has served a call of a run.                                              *)
LEMMA CallOfARun ==
  ASSUME Typed, NEW r \in Runs, NEW i \in InFlight(r),
         \/ \E fails \in BOOLEAN : Done(r, i, fails)
         \/ MayRetry(run[r].calls[i]) /\ Again(r, i)
  PROVE  run[r].calls[i] \in ServedCalls
<1>1. i \in DOMAIN run[r].calls
  BY DEF InFlight
<1>2. run'[r].calls # run[r].calls
  BY <1>1, Dropped, Retried
<1>3. r \in {q \in Runs : run'[q] # run[q]}
  BY <1>2
<1>4. QED
  BY <1>3 DEF ServedCalls

(* A call that wrote to an event that was there ended it: it is a closing,  *)
(* and the row was the one it was planned from.                             *)
LEMMA WrittenAsPlanned ==
  ASSUME Typed, OneRow, NEW c \in Calls, CallKnown(c), ServerStep(c),
         NEW e \in Events, Exists(e), event'[e] # event[e]
  PROVE  /\ c.kind = "close" /\ c.what = e /\ c.saw = event[e]
         /\ Ended(e)
<1>1. e = c.what /\ Ended(e)
  <2>1. (e # c.what => event'[e] = event[e]) /\ FeedStep(e)
    BY Served
  <2>2. QED
    BY <2>1 DEF FeedStep, Inserted
<1>2. c.kind # "record"
  BY ServeRecord
<1>3. c.kind # "event"
  BY <1>1, ServeEvent DEF Inserted
<1>4. c.kind = "close"
  BY <1>2, <1>3 DEF Calls
<1>5. c.expected = Row(e).version
  <2>1. Outcome(c) = PatchEvent(c)
    BY <1>4 DEF Outcome
  <2>2. ASSUME c.expected # Row(e).version
        PROVE  Outcome(c).after = Unchanged
    BY <1>1, <2>1, <2>2 DEF PatchEvent
  <2>3. QED
    BY <2>2 DEF ServerStep, Unchanged
<1>6. QED
  BY <1>1, <1>4, <1>5 DEF CallKnown

(* What an operator has entered since a run planned stands against that     *)
(* run: the feed writes to an event that exists only to end it, and only    *)
(* through a closing that was planned from the very row that is there.      *)
THEOREM FeedKeepsCorrections == Spec => CorrectionsStand
<1>1. FeedInv /\ [Next]_vars => FeedWrites
  <2>1. SUFFICES ASSUME FeedInv, [Next]_vars, NEW e \in Events,
                        Exists(e), event'[e] # event[e], ~UNCHANGED <<run, stray>>
                 PROVE  /\ Row(e).end = Open
                        /\ Row(e)'.started = Row(e).started /\ Row(e)'.end = EventEnd[e]
                        /\ \E c \in ServedCalls :
                             c.kind = "close" /\ c.what = e /\ c.saw = event[e]
    BY DEF FeedWrites
  <2>2. Typed /\ OneRow
    BY <2>1 DEF FeedInv
  <2>3. \E c \in ServedCalls : c \in Calls /\ CallKnown(c) /\ ServerStep(c)
    <3>1. CASE ServeStray
      <4>1. PICK c \in stray : ServerStep(c) /\ stray' = stray \ {c}
        BY <3>1 DEF ServeStray, ServerStep
      <4>2. c \in Calls /\ CallKnown(c)
        BY <2>1 DEF FeedInv, Typed, CallsKnown
      <4>3. c \in ServedCalls
        BY <4>1 DEF ServedCalls
      <4>4. QED
        BY <4>1, <4>2, <4>3
    <3>2. ASSUME NEW r \in Runs, Answered(r)
          PROVE  \E c \in ServedCalls : c \in Calls /\ CallKnown(c) /\ ServerStep(c)
      <4>1. PICK i \in InFlight(r) :
              Serve(run[r].calls[i], r) /\ Done(r, i, Fails(run[r].calls[i]))
        BY <3>2 DEF Answered
      <4>2. ServerStep(run[r].calls[i])
        BY <4>1 DEF Serve, ServerStep
      <4>3. Fails(run[r].calls[i]) \in BOOLEAN
        BY DEF Fails
      <4>4. run[r].calls[i] \in Calls /\ CallKnown(run[r].calls[i])
        BY <2>1, CallFacts DEF InFlight
      <4>5. run[r].calls[i] \in ServedCalls
        BY <2>2, <4>1, <4>3, CallOfARun
      <4>6. QED
        BY <4>2, <4>4, <4>5
    <3>3. ASSUME NEW r \in Runs, GoesWrong(r)
          PROVE  \E c \in ServedCalls : c \in Calls /\ CallKnown(c) /\ ServerStep(c)
      <4>1. PICK i \in InFlight(r) :
              /\ (MayRetry(run[r].calls[i]) /\ Again(r, i)) \/ Done(r, i, TRUE)
              /\ ServerStep(run[r].calls[i]) \/ UNCHANGED <<stored, event>>
        BY <3>3 DEF GoesWrong, ServerStep
      <4>2. ServerStep(run[r].calls[i])
        BY <2>1, <4>1
      <4>3. run[r].calls[i] \in Calls /\ CallKnown(run[r].calls[i])
        BY <2>1, CallFacts DEF InFlight
      <4>4. run[r].calls[i] \in ServedCalls
        BY <2>2, <4>1, CallOfARun
      <4>5. QED
        BY <4>2, <4>3, <4>4
    <3>4. ASSUME NEW r \in Runs, Plan(r) \/ Exit(r) \/ Killed(r)
          PROVE  FALSE
      BY <2>1, <3>4 DEF Plan, Exit, Killed
    <3>5. ASSUME NEW f \in Events, Correct(f)
          PROVE  FALSE
      BY <2>1, <3>5 DEF Correct
    <3>6. ~Tick /\ ~UNCHANGED vars
      BY <2>1 DEF Tick, vars
    <3>7. QED
      BY <2>1, <3>1, <3>2, <3>3, <3>4, <3>5, <3>6 DEF Next
  <2>4. PICK c \in ServedCalls : c \in Calls /\ CallKnown(c) /\ ServerStep(c)
    BY <2>3
  <2>5. c.kind = "close" /\ c.what = e /\ c.saw = event[e] /\ Ended(e)
    BY <2>1, <2>2, <2>4, WrittenAsPlanned
  <2>6. PICK row : row = [started |-> Row(e).started, end |-> EventEnd[e],
                          version |-> Row(e).version + 1, by |-> "feed"]
    OBVIOUS
  <2>7. event'[e] = {row} /\ Row(e).end = Open
    BY <2>5, <2>6 DEF Ended
  <2>8. Row(e)' = row
    BY <2>7, RowOf
  <2>9. row.started = Row(e).started /\ row.end = EventEnd[e]
    BY <2>6
  <2>10. QED
    BY <2>4, <2>5, <2>7, <2>8, <2>9
<1>2. QED
  BY <1>1, FeedInvAlways, PTL DEF Spec, CorrectionsStand

(* What a run that returned 0 claims of its window stays true.             *)
THEOREM SuccessMeansComplete == Spec => []SuccessIsComplete
<1>1. Init => SuccessIsComplete
  BY DEF Init, SuccessIsComplete
<1>2. FeedInv /\ PlanInv /\ SuccessIsComplete /\ [Next]_vars => SuccessIsComplete'
  <2>1. SUFFICES ASSUME FeedInv, PlanInv, SuccessIsComplete, [Next]_vars, NEW c \in succeeded'
                 PROVE  /\ PlannedRecords(c) \subseteq stored'
                        /\ \A e \in PlannedEvents(c) :
                             /\ Exists(e)'
                             /\ EventEnd[e] <= c =>
                                  Row(e)'.end # Open \/ Row(e)'.by = "operator"
    BY DEF SuccessIsComplete
  <2>2. PlannedEvents(c) \subseteq Events
    BY DEF PlannedEvents, DayRuns
  <2>3. PlannedRecords(c) \subseteq stored
        /\ \A e \in PlannedEvents(c) : Exists(e) /\ (EventEnd[e] <= c => Settled(e))
    <3>1. CASE c \in succeeded
      BY <2>1, <3>1 DEF SuccessIsComplete, Settled
    <3>2. ASSUME NEW r \in Runs, Exit(r), ~run[r].failed, c = run[r].cutoff
          PROVE  PlannedRecords(c) \subseteq stored
                 /\ \A e \in PlannedEvents(c) : Exists(e) /\ (EventEnd[e] <= c => Settled(e))
      <4>1. PlanIsCovered(r) /\ run[r].pc = "posting" /\ run[r].calls = << >>
        BY <2>1, <3>2 DEF PlanInv, Exit
      <4>2. DOMAIN run[r].calls = {}
        BY ONLY <4>1
      <4>3. \A kind, what : ~ToDo(r, kind, what)
        BY <4>2 DEF ToDo
      <4>4. QED
        BY <3>2, <4>1, <4>3 DEF PlanIsCovered
    <3>3. Typed
      BY <2>1 DEF FeedInv
    <3>4. QED
      BY <2>1, <3>1, <3>2, <3>3, CountsStep
  <2>4. DatabaseStep /\ Typed /\ OneRow
    BY <2>1, EveryStep DEF FeedInv
  <2>5. /\ \A x \in stored : x \in stored'
        /\ \A e \in Events : Exists(e) => Exists(e)'
        /\ \A e \in Events : Settled(e) => Settled(e)'
    BY <2>4, RowsLast
  <2>6. QED
    BY <2>2, <2>3, <2>5 DEF Settled
<1>3. QED
  BY <1>1, <1>2, FeedInvAlways, PTL DEF Spec

-----------------------------------------------------------------------------
(* The windows. *)

LEMMA Multiples ==
  ASSUME NEW i \in Int, NEW j \in Int
  PROVE  /\ i * Bucket \in Int /\ j * Bucket \in Int
         /\ (i + 1) * Bucket = i * Bucket + Bucket
         /\ i <= j => i * Bucket <= j * Bucket
         /\ i * Bucket < j * Bucket => i + 1 <= j
<1>1. Bucket \in Nat \ {0}
  BY FeedFacts
<1>2. ASSUME NEW a \in Int, NEW b \in Int, a <= b
      PROVE  a * Bucket <= b * Bucket
  <2>1. PICK d \in Nat : b = a + d
    <3>1. b - a \in Nat /\ b = a + (b - a)
      BY <1>2
    <3>2. QED
      BY <3>1
  <2>2. b * Bucket = a * Bucket + d * Bucket
    BY <1>1, <2>1
  <2>3. d * Bucket >= 0 /\ a * Bucket \in Int /\ b * Bucket \in Int /\ d * Bucket \in Int
    BY <1>1
  <2>4. QED
    BY <2>2, <2>3
<1>3. i * Bucket \in Int /\ j * Bucket \in Int /\ (i + 1) * Bucket = i * Bucket + Bucket
  BY <1>1
<1>4. ASSUME i * Bucket < j * Bucket
      PROVE  i + 1 <= j
  <2>1. CASE j <= i
    BY <1>2, <1>3, <1>4, <2>1
  <2>2. QED
    BY <2>1
<1>5. QED
  BY <1>2, <1>3, <1>4

LEMMA Product ==
  ASSUME NEW i \in Int
  PROVE  /\ i + 1 \in Int /\ i * Bucket \in Int /\ (i + 1) * Bucket \in Int
         /\ Bucket \in Nat /\ (i + 1) * Bucket = i * Bucket + Bucket
<1>1. Bucket \in Nat \ {0}
  BY FeedFacts
<1>2. QED
  BY <1>1

LEMMA CutoffIsAMultiple ==
  ASSUME NEW t \in Nat
  PROVE  /\ LatestClosedBucket(t) = (t \div Bucket) * Bucket /\ t \div Bucket \in Nat
         /\ LatestClosedBucket(t) <= t
         /\ t < (t \div Bucket + 1) * Bucket
<1>1. Bucket \in Nat \ {0}
  BY FeedFacts
<1>2. /\ t - (t % Bucket) = (t \div Bucket) * Bucket /\ t \div Bucket \in Nat
      /\ t % Bucket \in 0..(Bucket - 1)
  BY <1>1
<1>3. (t \div Bucket + 1) * Bucket = (t \div Bucket) * Bucket + Bucket
  BY <1>2, Multiples
<1>4. QED
  BY <1>1, <1>2, <1>3 DEF LatestClosedBucket

(* What k multiples of d below, or k + 1 above, say of a quotient.         *)
LEMMA Quotients ==
  ASSUME NEW d \in Nat \ {0}, NEW k \in Int, NEW x \in Int
  PROVE  /\ x \div d \in Int
         /\ k * d < x => k <= x \div d
         /\ x < (k + 1) * d => x \div d <= k
<1>1. PICK q \in Int : q = x \div d
  OBVIOUS
<1>2. q * d <= x /\ x < q * d + d
  BY <1>1
<1>3. ASSUME NEW a \in Int, NEW b \in Int, a + 1 <= b
      PROVE  a * d + d <= b * d
  <2>1. PICK n \in Nat : b = a + 1 + n
    <3>1. b - (a + 1) \in Nat /\ b = a + 1 + (b - (a + 1))
      BY <1>3
    <3>2. QED
      BY <3>1
  <2>2. b * d = a * d + d + n * d
    BY <2>1
  <2>3. n * d >= 0 /\ a * d \in Int /\ b * d \in Int /\ n * d \in Int
    OBVIOUS
  <2>4. QED
    BY <2>2, <2>3
<1>4. q * d \in Int /\ k * d \in Int /\ (k + 1) * d = k * d + d
  OBVIOUS
<1>5. ASSUME k * d < x, q < k
      PROVE  FALSE
  <2>1. q * d + d <= k * d
    BY <1>3, <1>5
  <2>2. QED
    BY <1>2, <1>4, <1>5, <2>1
<1>6. ASSUME x < (k + 1) * d, k < q
      PROVE  FALSE
  <2>1. k * d + d <= q * d
    BY <1>3, <1>6
  <2>2. QED
    BY <1>2, <1>4, <1>6, <2>1
<1>7. QED
  BY <1>1, <1>5, <1>6

LEMMA BucketOf ==
  ASSUME NEW t \in Nat \ {0}
  PROVE  \E i \in Nat : i * Bucket < t /\ t <= (i + 1) * Bucket
<1>1. PICK u \in Nat : t = u + 1
  <2>1. t - 1 \in Nat /\ t = (t - 1) + 1
    OBVIOUS
  <2>2. QED
    BY <2>1
<1>2. PICK i \in Nat : i = u \div Bucket
  BY CutoffIsAMultiple
<1>3. i * Bucket <= u /\ u < (i + 1) * Bucket
  BY <1>2, CutoffIsAMultiple
<1>4. i * Bucket \in Int /\ (i + 1) * Bucket \in Int
  BY <1>2, Multiples
<1>5. QED
  BY <1>1, <1>3, <1>4

(* A record call of a run.                                                 *)
LEMMA BegunFacts ==
  ASSUME FeedInv
  PROVE  /\ Begun \subseteq Lines \X Nat
         /\ \A r \in Runs : \A i \in DOMAIN run[r].calls :
              run[r].calls[i].kind = "record" => run[r].calls[i].what \in Begun
         /\ \A r \in Running : run[r].cutoff \in Nat
         /\ Cutoffs \subseteq Nat
<1>1. Typed
  BY DEF FeedInv
<1>2. Begun \subseteq Lines \X Nat
  BY <1>1 DEF Begun, Typed
<1>3. ASSUME NEW r \in Runs, NEW i \in DOMAIN run[r].calls, run[r].calls[i].kind = "record"
      PROVE  run[r].calls[i].what \in Begun
  <2>1. r \in Running /\ CallKnown(run[r].calls[i])
    BY CallFacts
  <2>2. run[r].calls[i].what \in Lines \X Nat
    BY <1>3, <2>1 DEF CallKnown
  <2>3. ToDo(r, "record", run[r].calls[i].what)
    BY <1>3 DEF ToDo
  <2>4. QED
    BY <2>1, <2>2, <2>3 DEF Begun
<1>4. \A r \in Running : run[r].cutoff \in Nat
  BY <1>1 DEF Typed, RunStates, Running
<1>5. QED
  BY <1>1, <1>2, <1>3, <1>4 DEF Cutoffs, Typed

(* Nothing changes about the windows: no run plans.                        *)
SameWindows ==
  /\ Cutoffs' \subseteq Cutoffs
  /\ \A r \in Running' :
       /\ r \in Running /\ run'[r].cutoff = run[r].cutoff
       /\ \A k \in DOMAIN run'[r].calls :
            \E j \in DOMAIN run[r].calls : SameDraft(run'[r].calls[k], run[r].calls[j])
  /\ Quiet' => /\ Quiet
               /\ Cutoffs' = Cutoffs
               /\ Begun' = Begun
               /\ \A d \in stray' : d.kind = "record" => d.what \in Begun

LEMMA WindowsRest ==
  ASSUME FeedInv, FeedInv', WindowInv, SameWindows,
         now' = now \/ Tick
  PROVE  WindowInv'
<1>1. /\ now \in Nat /\ now' \in Nat
      /\ now <= now'
  <2>1. LastTick \in Nat /\ now \in 0..LastTick /\ now' \in 0..LastTick
    BY FeedFacts DEF FeedInv, Typed
  <2>2. QED
    BY <2>1 DEF Tick
<1>2. RunsAreRecent'
  <2>1. ASSUME NEW r \in Running'
        PROVE  LatestClosedBucket(now') <= run'[r].cutoff + Patience
    <3>1. /\ r \in Running /\ run'[r].cutoff = run[r].cutoff
          /\ run[r].cutoff \in Nat /\ Patience \in Nat
      BY <2>1, BegunFacts, FeedConstants DEF SameWindows
    <3>2. CASE now' = now
      BY <3>1, <3>2 DEF WindowInv, RunsAreRecent
    <3>3. CASE Tick
      <4>1. now < run[r].cutoff + Patience /\ now' = now + 1
        BY <3>1, <3>3 DEF Tick
      <4>2. LatestClosedBucket(now') <= now' /\ LatestClosedBucket(now') \in Int
        BY <1>1, CutoffIsAMultiple, Multiples
      <4>3. QED
        BY <1>1, <3>1, <4>1, <4>2
    <3>4. QED
      BY <3>2, <3>3
  <2>2. ASSUME NEW r \in Running', NEW k \in DOMAIN run'[r].calls,
               run'[r].calls[k].kind = "record"
        PROVE  run'[r].calls[k].what \in PlannedRecords(run'[r].cutoff)
    BY <2>2 DEF SameWindows, WindowInv, RunsAreRecent, SameDraft
  <2>3. QED
    BY <2>1, <2>2 DEF RunsAreRecent
<1>3. CutoffsArePast'
  <2>1. \A c \in Cutoffs' : c \in Nat /\ c <= now /\ \E k \in Nat : c = k * Bucket
    BY BegunFacts DEF SameWindows, WindowInv, CutoffsArePast
  <2>2. QED
    BY <1>1, <2>1 DEF CutoffsArePast
<1>4. Quiet' => WindowsOverlap'
  BY DEF SameWindows, WindowInv, WindowsOverlap, Covered
<1>5. QED
  BY <1>2, <1>3, <1>4 DEF WindowInv

(* Serving a call adds no bucket that had not begun.                       *)
LEMMA ServedBegun ==
  ASSUME FeedInv, NEW c \in Calls, CallKnown(c), ServerStep(c),
         c.kind = "record" => c.what \in Begun
  PROVE  stored' \subseteq Begun
<1>1. CASE c.kind = "record"
  BY <1>1, ServeRecord DEF Begun
<1>2. CASE c.kind # "record"
  <2>1. PICK e \in Events : e = c.what
    BY <1>2 DEF CallKnown, Calls
  <2>2. OthersRest(e)
    BY <1>2, <2>1, ServeEvent, ServeClosing DEF FeedInv, Calls
  <2>3. QED
    BY <2>2 DEF OthersRest, Begun
<1>3. QED
  BY <1>1, <1>2

(* Steps that leave the runs alone.                                        *)
LEMMA RunsRest ==
  ASSUME FeedInv, WindowInv, UNCHANGED <<run, succeeded, alarm>>,
         stored \subseteq stored', Quiet => stored' \subseteq Begun,
         stray' \subseteq stray
  PROVE  SameWindows
<1>1. Running' = Running /\ Quiet' = Quiet /\ Cutoffs' = Cutoffs
  BY DEF Running, Quiet, Cutoffs
<1>2. Quiet => Begun' = Begun
  BY <1>1 DEF Begun, ToDo, Running
<1>3. \A r \in Running : \A k \in DOMAIN run[r].calls :
        \E j \in DOMAIN run[r].calls : SameDraft(run[r].calls[k], run[r].calls[j])
  BY DEF SameDraft
<1>4. \A d \in stray' : Quiet /\ d.kind = "record" => d.what \in Begun
  BY DEF WindowInv, WindowsOverlap
<1>5. QED
  BY <1>1, <1>2, <1>3, <1>4 DEF SameWindows

(* A call of a run is answered, or retried.                                *)
LEMMA CallAnswered ==
  ASSUME FeedInv, WindowInv, NEW r \in Runs, NEW i \in DOMAIN run[r].calls,
         NEW fails \in BOOLEAN, Done(r, i, fails), UNCHANGED <<succeeded, alarm>>,
         stored \subseteq stored', Quiet => stored' \subseteq Begun,
         fails \/ (run[r].calls[i].kind = "record" => run[r].calls[i].what \in stored'),
         stray' \subseteq stray \union {run[r].calls[i]}
  PROVE  SameWindows
<1>1. /\ \A q \in Runs : q # r => run'[q] = run[q]
      /\ run'[r].pc = run[r].pc /\ run'[r].cutoff = run[r].cutoff
      /\ run'[r].failed = (run[r].failed \/ fails)
      /\ \A k \in DOMAIN run'[r].calls :
           \E j \in DOMAIN run[r].calls : run'[r].calls[k] = run[r].calls[j]
      /\ \A j \in DOMAIN run[r].calls : j # i =>
           \E k \in DOMAIN run'[r].calls : run'[r].calls[k] = run[r].calls[j]
  BY Dropped DEF FeedInv
<1>2. run'[r].gap = run[r].gap
  <2>1. run[r] \in RunStates /\ run \in [Runs -> RunStates]
    BY DEF FeedInv, Typed
  <2>2. PICK new : new = [run[r] EXCEPT !.calls = RemoveAt(@, i), !.failed = @ \/ fails]
    OBVIOUS
  <2>3. new.gap = run[r].gap
    BY <2>1, <2>2 DEF RunStates
  <2>4. run' = [run EXCEPT ![r] = new]
    BY <2>2 DEF Done
  <2>5. QED
    BY <2>1, <2>3, <2>4
<1>3. r \in Running
  BY CallFacts
<1>4. Running' = Running /\ Cutoffs' = Cutoffs
  BY <1>1, <1>3 DEF Running, Cutoffs
<1>5. ASSUME Quiet'
      PROVE  Quiet /\ ~fails
  <2>1. ~alarm /\ \A q \in Running : ~run'[q].failed /\ ~run'[q].gap
    BY <1>4, <1>5 DEF Quiet
  <2>2. ~(run[r].failed \/ fails) /\ ~run[r].gap
    BY <1>1, <1>2, <1>3, <2>1
  <2>3. ASSUME NEW q \in Running
        PROVE  ~run[q].failed /\ ~run[q].gap
    <3>1. CASE q = r
      BY <2>2, <3>1
    <3>2. CASE q # r
      <4>1. q \in Runs
        BY DEF Running
      <4>2. QED
        BY <1>1, <2>1, <3>2, <4>1
    <3>3. QED
      BY <3>1, <3>2
  <2>4. QED
    BY <2>1, <2>2, <2>3 DEF Quiet
<1>6. \A q \in Running : \A x : ToDo(q, "record", x)' => ToDo(q, "record", x)
  BY <1>1 DEF ToDo, Running
<1>7. ASSUME Quiet', NEW q \in Running, NEW x, ToDo(q, "record", x)
      PROVE  x \in stored' \/ ToDo(q, "record", x)'
  BY <1>1, <1>5, <1>7 DEF ToDo, Running
<1>8. Quiet' => Begun' = Begun
  <2>1. SUFFICES ASSUME Quiet' PROVE Begun' = Begun
    OBVIOUS
  <2>2. Begun' \subseteq Begun
    BY <1>4, <1>5, <1>6, <2>1 DEF Begun
  <2>3. Begun \subseteq Begun'
    BY <1>4, <1>7, <2>1 DEF Begun
  <2>4. QED
    BY <2>2, <2>3
<1>9. \A q \in Running : \A k \in DOMAIN run'[q].calls :
        \E j \in DOMAIN run[q].calls : SameDraft(run'[q].calls[k], run[q].calls[j])
  BY <1>1 DEF SameDraft, Running
<1>10. \A d \in stray' : Quiet /\ d.kind = "record" => d.what \in Begun
  BY BegunFacts DEF WindowInv, WindowsOverlap
<1>11. \A q \in Running : run'[q].cutoff = run[q].cutoff
  BY <1>1 DEF Running
<1>12. QED
  BY <1>4, <1>5, <1>8, <1>9, <1>10, <1>11 DEF SameWindows

LEMMA CallRetried ==
  ASSUME FeedInv, WindowInv, NEW r \in Runs, NEW i \in DOMAIN run[r].calls,
         MayRetry(run[r].calls[i]), Again(r, i), UNCHANGED <<succeeded, alarm>>,
         stored \subseteq stored', Quiet => stored' \subseteq Begun,
         stray' \subseteq stray \union {run[r].calls[i]}
  PROVE  SameWindows
<1>1. /\ \A q \in Runs : q # r => run'[q] = run[q]
      /\ run'[r].pc = run[r].pc /\ run'[r].cutoff = run[r].cutoff
      /\ run'[r].failed = run[r].failed
      /\ DOMAIN run'[r].calls = DOMAIN run[r].calls
      /\ \A k \in DOMAIN run[r].calls : SameDraft(run'[r].calls[k], run[r].calls[k])
  BY Retried DEF FeedInv
<1>2. run'[r].gap = run[r].gap
  <2>1. run[r] \in RunStates /\ run \in [Runs -> RunStates]
    BY DEF FeedInv, Typed
  <2>2. PICK calls : calls = ReplaceAt(run[r].calls, i, [run[r].calls[i] EXCEPT !.attempt = @ + 1])
    OBVIOUS
  <2>3. PICK new : new = [run[r] EXCEPT !.calls = calls]
    OBVIOUS
  <2>4. new.gap = run[r].gap
    BY <2>1, <2>3 DEF RunStates
  <2>5. run' = [run EXCEPT ![r] = new]
    BY <2>2, <2>3 DEF Again
  <2>6. QED
    BY <2>1, <2>4, <2>5
<1>3. r \in Running
  BY CallFacts
<1>4. Running' = Running /\ Cutoffs' = Cutoffs
  BY <1>1, <1>3 DEF Running, Cutoffs
<1>5. Quiet' = Quiet
  <2>1. \A q \in Running : run'[q].failed = run[q].failed /\ run'[q].gap = run[q].gap
    BY <1>1, <1>2 DEF Running
  <2>2. QED
    BY <1>4, <2>1 DEF Quiet
<1>6. \A q \in Running : \A x : ToDo(q, "record", x)' <=> ToDo(q, "record", x)
  BY <1>1 DEF ToDo, Running, SameDraft
<1>7. Quiet' => Begun' = Begun
  BY <1>4, <1>5, <1>6 DEF Begun
<1>8. \A q \in Running : \A k \in DOMAIN run'[q].calls :
        \E j \in DOMAIN run[q].calls : SameDraft(run'[q].calls[k], run[q].calls[j])
  BY <1>1 DEF SameDraft, Running
<1>9. \A d \in stray' : Quiet /\ d.kind = "record" => d.what \in Begun
  BY BegunFacts DEF WindowInv, WindowsOverlap
<1>10. \A q \in Running : run'[q].cutoff = run[q].cutoff
  BY <1>1 DEF Running
<1>11. QED
  BY <1>4, <1>5, <1>7, <1>8, <1>9, <1>10 DEF SameWindows

LEMMA RunEnds ==
  ASSUME FeedInv, WindowInv, NEW r \in Runs, Exit(r) \/ Killed(r)
  PROVE  SameWindows
<1>1. /\ run[r].pc = "posting" /\ run' = [run EXCEPT ![r] = NotRunning]
      /\ stored' = stored
  BY DEF Exit, Killed
<1>2. /\ run'[r] = NotRunning
      /\ \A q \in Runs : q # r => run'[q] = run[q]
  BY <1>1, Stopped DEF FeedInv
<1>3. r \in Running /\ Running' = Running \ {r}
  BY <1>1, <1>2 DEF Running, NotRunning
<1>4. \A q \in Running' : q \in Running /\ q # r /\ run'[q] = run[q]
  BY <1>2, <1>3 DEF Running
<1>5. succeeded' \subseteq succeeded \union {run[r].cutoff}
  BY DEF Exit, Killed
<1>6. Cutoffs' \subseteq Cutoffs
  BY <1>3, <1>4, <1>5 DEF Cutoffs
<1>7. \A q \in Running' :
        /\ q \in Running /\ run'[q].cutoff = run[q].cutoff
        /\ \A k \in DOMAIN run'[q].calls :
             \E j \in DOMAIN run[q].calls : SameDraft(run'[q].calls[k], run[q].calls[j])
  BY <1>4 DEF SameDraft
<1>8. ASSUME Quiet'
      PROVE  /\ Quiet /\ Cutoffs' = Cutoffs /\ Begun' = Begun
             /\ \A d \in stray' : d.kind = "record" => d.what \in Begun
  <2>1. Exit(r) /\ ~alarm /\ ~run[r].failed /\ ~run[r].gap
    BY <1>8 DEF Quiet, Exit, Killed
  <2>2. Quiet
    BY <1>3, <1>4, <1>8, <2>1 DEF Quiet
  <2>3. succeeded' = succeeded \union {run[r].cutoff}
    BY <2>1 DEF Exit
  <2>4. Cutoffs' = Cutoffs
    BY <1>3, <1>4, <1>6, <2>3 DEF Cutoffs
  <2>5. \A x : ~ToDo(r, "record", x)
    <3>1. run[r].calls = << >>
      BY <2>1 DEF Exit
    <3>2. DOMAIN run[r].calls = {}
      BY ONLY <3>1
    <3>3. QED
      BY <3>2 DEF ToDo
  <2>6. \A q \in Running' : \A x : ToDo(q, "record", x)' <=> ToDo(q, "record", x)
    BY <1>4 DEF ToDo
  <2>7. Begun' = Begun
    BY <1>1, <1>3, <2>5, <2>6 DEF Begun
  <2>8. stray' = stray
    BY <2>1 DEF Exit
  <2>9. QED
    BY <2>2, <2>4, <2>7, <2>8 DEF WindowInv, WindowsOverlap
<1>9. QED
  BY <1>6, <1>7, <1>8 DEF SameWindows

(* Every step but a plan.                                                  *)
LEMMA NoPlan ==
  ASSUME FeedInv, WindowInv, [Next]_vars, ~ \E r \in Runs : Plan(r)
  PROVE  SameWindows /\ (now' = now \/ Tick)
<1>1. stored \subseteq stored'
  BY EveryStep DEF DatabaseStep
<1>2. CASE Tick \/ UNCHANGED vars
  <2>1. /\ UNCHANGED <<run, succeeded, alarm, stored, stray>>
        /\ now' = now \/ Tick
    BY <1>2 DEF Tick, vars, history
  <2>2. stored \subseteq Begun
    BY DEF Begun
  <2>3. QED
    BY <2>1, <2>2, RunsRest
<1>3. CASE ServeStray
  <2>1. PICK c \in stray : ServerStep(c) /\ stray' = stray \ {c}
    BY <1>3 DEF ServeStray, ServerStep
  <2>2. c \in Calls /\ CallKnown(c)
    BY DEF FeedInv, Typed, CallsKnown
  <2>3. Quiet => stored' \subseteq Begun
    BY <2>1, <2>2, ServedBegun DEF WindowInv, WindowsOverlap
  <2>4. UNCHANGED <<run, succeeded, alarm>> /\ now' = now
    BY <1>3 DEF ServeStray
  <2>5. QED
    BY <1>1, <2>1, <2>3, <2>4, RunsRest
<1>4. ASSUME NEW e \in Events, Correct(e)
      PROVE  SameWindows /\ now' = now
  <2>1. UNCHANGED <<run, succeeded, alarm, stored, stray>> /\ now' = now
    BY <1>4 DEF Correct
  <2>2. stored \subseteq Begun
    BY DEF Begun
  <2>3. QED
    BY <2>1, <2>2, RunsRest
<1>5. ASSUME NEW r \in Runs, Answered(r)
      PROVE  SameWindows /\ now' = now
  <2>1. PICK i \in DOMAIN run[r].calls :
          ServerStep(run[r].calls[i]) /\ Done(r, i, Fails(run[r].calls[i]))
    BY <1>5, AnsweredServes
  <2>2. PICK c : c = run[r].calls[i]
    OBVIOUS
  <2>3. PICK fails \in BOOLEAN : fails = Fails(c)
    BY DEF Fails
  <2>4. c \in Calls /\ CallKnown(c) /\ (c.kind = "record" => c.what \in Begun)
    BY <2>2, CallFacts, BegunFacts
  <2>5. ServerStep(c) /\ Done(r, i, fails)
    BY ONLY <2>1, <2>2, <2>3
  <2>6. stored' \subseteq Begun
    BY <2>4, <2>5, ServedBegun
  <2>7. fails \/ (c.kind = "record" => c.what \in stored')
    BY <2>4, <2>5, ServeRecord
  <2>8. UNCHANGED <<succeeded, alarm, stray>> /\ now' = now
    BY <1>5 DEF Answered
  <2>9. QED
    BY <1>1, <2>2, <2>5, <2>6, <2>7, <2>8, CallAnswered
<1>6. ASSUME NEW r \in Runs, GoesWrong(r)
      PROVE  SameWindows /\ now' = now
  <2>1. PICK i \in DOMAIN run[r].calls :
          /\ ServerStep(run[r].calls[i]) \/ UNCHANGED <<stored, event>>
          /\ (MayRetry(run[r].calls[i]) /\ Again(r, i)) \/ Done(r, i, TRUE)
          /\ stray' \subseteq stray \union {run[r].calls[i]}
    BY <1>6, WrongServes
  <2>2. PICK c : c = run[r].calls[i]
    OBVIOUS
  <2>3. c \in Calls /\ CallKnown(c) /\ (c.kind = "record" => c.what \in Begun)
    BY <2>2, CallFacts, BegunFacts
  <2>4. stored' \subseteq Begun
    <3>1. CASE ServerStep(c)
      BY <2>3, <3>1, ServedBegun
    <3>2. CASE UNCHANGED <<stored, event>>
      BY <3>2 DEF Begun
    <3>3. QED
      BY <2>1, <2>2, <3>1, <3>2
  <2>5. UNCHANGED <<succeeded, alarm>> /\ now' = now
    BY <1>6 DEF GoesWrong
  <2>6. QED
    BY <1>1, <2>1, <2>4, <2>5, CallAnswered, CallRetried
<1>7. ASSUME NEW r \in Runs, Exit(r) \/ Killed(r)
      PROVE  SameWindows /\ now' = now
  BY <1>7, RunEnds DEF Exit, Killed
<1>8. QED
  BY <1>2, <1>3, <1>4, <1>5, <1>6, <1>7 DEF Next

(* A plan: its window reaches back to the one before, or it finds a gap.   *)
LEMMA NewWindow ==
  ASSUME FeedInv, WindowInv, NEW r \in Runs, Plan(r)
  PROVE  WindowInv'
<1>1. PICK cutoff : cutoff = LatestClosedBucket(now)
  OBVIOUS
<1>2. PICK calls \in Seq(Calls) : Planned(r, calls, cutoff)
  BY <1>1, PlannedCalls
<1>3. /\ run'[r].pc = "posting" /\ run'[r].cutoff = cutoff /\ run'[r].calls = calls
      /\ run'[r].gap = GapDetected(cutoff)
      /\ \A q \in Runs : q # r => run'[q] = run[q]
  <2>1. PICK new : new = [pc |-> "posting", cutoff |-> cutoff, failed |-> FALSE,
                          calls |-> calls, gap |-> GapDetected(cutoff)]
    OBVIOUS
  <2>2. run'[r] = new /\ \A q \in Runs : q # r => run'[q] = run[q]
    BY <1>1, <1>2, <2>1, Started
  <2>3. QED
    BY ONLY <2>1, <2>2
<1>4. UNCHANGED <<now, stored, stray, succeeded, alarm>> /\ run[r].pc = "idle"
  BY DEF Plan, history
<1>5. r \notin Running /\ Running' = Running \union {r}
      /\ \A q \in Running : q \in Runs /\ run'[q] = run[q]
  BY <1>3, <1>4 DEF Running
<1>6. /\ now \in Nat /\ cutoff \in Nat /\ cutoff <= now
      /\ \E k \in Nat : cutoff = k * Bucket
      /\ \A k \in Nat : k * Bucket <= now => k * Bucket <= cutoff
  <2>1. now \in Nat
    BY FeedFacts DEF FeedInv, Typed
  <2>2. PICK k \in Nat : k = now \div Bucket
    BY <2>1, CutoffIsAMultiple
  <2>3. cutoff = k * Bucket /\ cutoff <= now /\ now < (k + 1) * Bucket
    BY <1>1, <2>1, <2>2, CutoffIsAMultiple
  <2>4. cutoff \in Nat
    BY <1>1, CutoffFacts DEF FeedInv, Typed
  <2>5. ASSUME NEW l \in Nat, l * Bucket <= now
        PROVE  l * Bucket <= cutoff
    <3>1. l * Bucket < (k + 1) * Bucket
      <4>1. PICK lb \in Int, kb \in Int : lb = l * Bucket /\ kb = (k + 1) * Bucket
        <5>1. l \in Int /\ k \in Int
          OBVIOUS
        <5>2. l * Bucket \in Int /\ (k + 1) * Bucket \in Int
          BY <5>1, Product
        <5>3. QED
          BY ONLY <5>2
      <4>2. now \in Nat /\ lb <= now /\ now < kb
        BY ONLY <2>1, <2>3, <2>5, <4>1
      <4>3. lb < kb
        BY ONLY <4>2, lb \in Int, kb \in Int
      <4>4. QED
        BY ONLY <4>1, <4>3
    <3>2. l + 1 <= k + 1
      BY <3>1, Multiples
    <3>3. l <= k
      BY <3>2
    <3>4. QED
      BY <2>3, <3>3, Multiples
  <2>6. QED
    BY <2>1, <2>3, <2>4, <2>5
<1>7. Cutoffs' = Cutoffs \union {cutoff}
  BY <1>3, <1>4, <1>5 DEF Cutoffs
<1>8. /\ \A i \in DOMAIN calls : calls[i].kind = "record" => calls[i].what \in MissingRecords(cutoff)
      /\ \A x \in MissingRecords(cutoff) :
           \E i \in DOMAIN calls : calls[i].kind = "record" /\ calls[i].what = x
  BY <1>2 DEF Planned
<1>9. \A x : ToDo(r, "record", x)' <=> x \in MissingRecords(cutoff)
  BY <1>3, <1>8 DEF ToDo
<1>10. \A q \in Running : \A x : ToDo(q, "record", x)' <=> ToDo(q, "record", x)
  BY <1>5 DEF ToDo
<1>11. /\ MissingRecords(cutoff) \subseteq PlannedRecords(cutoff)
       /\ PlannedRecords(cutoff) \subseteq Lines \X Nat
  BY <1>6, PlanFacts DEF MissingRecords
<1>12. Begun' = Begun \union MissingRecords(cutoff)
  BY <1>4, <1>5, <1>9, <1>10, <1>11 DEF Begun
<1>13. CutoffsArePast'
  BY <1>4, <1>6, <1>7 DEF CutoffsArePast, WindowInv
<1>14. RunsAreRecent'
  <2>1. LatestClosedBucket(now) <= cutoff + Patience
    <3>1. Patience \in Nat
      BY FeedConstants
    <3>2. QED
      BY <1>1, <1>6, <3>1
  <2>2. \A i \in DOMAIN calls : calls[i].kind = "record" => calls[i].what \in PlannedRecords(cutoff)
    BY <1>8, <1>11
  <2>3. QED
    BY <1>3, <1>4, <1>5, <2>1, <2>2 DEF RunsAreRecent, WindowInv
<1>15. ASSUME Quiet'
       PROVE  WindowsOverlap'
  <2>1. WindowsOverlap /\ ~GapDetected(cutoff)
    <3>1. Quiet /\ ~GapDetected(cutoff)
      BY <1>3, <1>4, <1>5, <1>15 DEF Quiet
    <3>2. QED
      BY <3>1 DEF WindowInv
  <2>2. \A d \in stray' : d.kind = "record" => d.what \in Begun'
    BY <1>4, <1>12, <2>1 DEF WindowsOverlap
  <2>3. \A x \in Begun' : \E c \in Cutoffs' : (x[2] + 1) * Bucket <= c
    <3>1. \A x \in MissingRecords(cutoff) : (x[2] + 1) * Bucket <= cutoff
      BY <1>6, <1>11, PlanFacts
    <3>2. QED
      BY <1>7, <1>12, <2>1, <3>1 DEF WindowsOverlap
  <2>4. ASSUME NEW x \in Begun', NEW c \in Cutoffs', NEW i \in Nat,
               x[2] <= i, (i + 1) * Bucket <= c
        PROVE  Covered(i)'
    <3>1. CatchUp \in Nat /\ Patience \in Nat /\ Patience <= CatchUp
      BY FeedConstants, RunsEndWithinTheWindow
    <3>2. PICK ib \in Int, nb \in Int : ib = i * Bucket /\ nb = (i + 1) * Bucket
      <4>1. i \in Int
        OBVIOUS
      <4>2. i * Bucket \in Int /\ (i + 1) * Bucket \in Int
        BY <4>1, Product
      <4>3. QED
        BY ONLY <4>2
    <3>3. (i + 1) * Bucket <= cutoff
      <4>1. c <= now /\ c \in Nat
        BY <1>6, <1>7, BegunFacts DEF WindowInv, CutoffsArePast
      <4>2. nb <= c
        BY <2>4, <3>2
      <4>3. nb <= now
        BY ONLY <1>6, <4>1, <4>2, nb \in Int
      <4>4. QED
        BY <1>6, <3>2, <4>3
    <3>4. CASE cutoff - CatchUp <= ib
      BY <1>7, <3>2, <3>3, <3>4 DEF Covered
    <3>5. ASSUME ib < cutoff - CatchUp
          PROVE  \E b \in Cutoffs : x \in Begun /\ (i + 1) * Bucket <= b
      <4>1. PICK m \in Nat : m = x[2]
        BY <1>11, <1>12, BegunFacts
      <4>2. x \notin MissingRecords(cutoff)
        <5>1. ASSUME x \in PlannedRecords(cutoff)
              PROVE  FALSE
          <6>1. PICK mb \in Int : mb = m * Bucket
            BY Product
          <6>2. mb >= cutoff - CatchUp
            BY <4>1, <5>1, <6>1 DEF PlannedRecords
          <6>3. mb <= ib
            <7>1. m <= i
              BY <2>4, <4>1
            <7>2. m * Bucket <= i * Bucket
              BY <7>1, Multiples
            <7>3. QED
              BY ONLY <3>2, <6>1, <7>2
          <6>4. QED
            BY ONLY <1>6, <3>1, <3>5, <6>2, <6>3, ib \in Int, mb \in Int
        <5>2. QED
          BY <1>11, <5>1
      <4>3. x \in Begun
        BY <1>12, <4>2
      <4>4. CASE x \in stored
        <5>1. x[1] \in Lines /\ stored # {}
          BY <4>3, <4>4, BegunFacts
        <5>2. PICK y \in stored : y[1] = x[1] /\ ~((y[2] + 1) * Bucket < cutoff - CatchUp)
          BY <2>1, <5>1 DEF GapDetected
        <5>3. y \in Begun /\ y[2] \in Nat
          BY BegunFacts DEF Begun
        <5>4. PICK b \in Cutoffs : (y[2] + 1) * Bucket <= b
          BY <2>1, <5>3 DEF WindowsOverlap
        <5>5. PICK j \in Nat : j = y[2] + 1
          BY <5>3
        <5>6. PICK jb \in Int : jb = j * Bucket
          BY Product
        <5>7. b \in Nat /\ jb <= b /\ ~(jb < cutoff - CatchUp)
          BY <5>2, <5>4, <5>5, <5>6, BegunFacts
        <5>8. ib < jb
          BY ONLY <1>6, <3>1, <3>5, <5>7, ib \in Int, jb \in Int
        <5>9. i + 1 <= j
          <6>1. i * Bucket < j * Bucket
            BY ONLY <3>2, <5>6, <5>8
          <6>2. QED
            BY <6>1, Multiples
        <5>10. nb <= jb
          <6>1. (i + 1) * Bucket <= j * Bucket
            BY <5>9, Multiples
          <6>2. QED
            BY ONLY <3>2, <5>6, <6>1
        <5>11. nb <= b
          BY ONLY <5>7, <5>10, nb \in Int, jb \in Int
        <5>12. QED
          BY <3>2, <4>3, <5>11
      <4>5. CASE x \notin stored
        <5>1. PICK q \in Running : ToDo(q, "record", x)
          BY <4>3, <4>5 DEF Begun
        <5>2. PICK b : b = run[q].cutoff
          OBVIOUS
        <5>3. b \in Cutoffs /\ b \in Nat
          BY <5>2, BegunFacts DEF Cutoffs
        <5>4. PICK k \in Nat : b = k * Bucket
          BY <5>3 DEF WindowInv, CutoffsArePast
        <5>5. cutoff <= b + Patience
          BY <1>1, <5>2 DEF WindowInv, RunsAreRecent
        <5>6. ib < b
          BY ONLY <1>6, <3>1, <3>5, <5>3, <5>5, ib \in Int
        <5>7. i + 1 <= k
          <6>1. i * Bucket < k * Bucket
            BY ONLY <3>2, <5>4, <5>6
          <6>2. QED
            BY <6>1, Multiples
        <5>8. (i + 1) * Bucket <= k * Bucket
          BY <5>7, Multiples
        <5>9. QED
          BY <4>3, <5>3, <5>4, <5>8
      <4>6. QED
        BY <4>4, <4>5
    <3>6. CASE ib < cutoff - CatchUp
      <4>1. Covered(i)
        BY <2>1, <2>4, <3>5, <3>6 DEF WindowsOverlap
      <4>2. QED
        BY <1>7, <4>1 DEF Covered
    <3>7. QED
      BY ONLY <1>6, <3>1, <3>4, <3>6, ib \in Int
  <2>5. QED
    BY <2>2, <2>3, <2>4 DEF WindowsOverlap
<1>16. QED
  BY <1>13, <1>14, <1>15 DEF WindowInv

LEMMA WindowInvInit == Init => WindowInv
<1> SUFFICES ASSUME Init PROVE WindowInv
  OBVIOUS
<1>1. Running = {} /\ succeeded = {} /\ stored = {} /\ stray = {}
  BY DEF Init, Running, NotRunning
<1>2. Cutoffs = {} /\ Begun = {}
  BY <1>1 DEF Cutoffs, Begun
<1>3. QED
  BY <1>1, <1>2 DEF WindowInv, RunsAreRecent, CutoffsArePast, WindowsOverlap

LEMMA WindowInvStep == FeedInv /\ WindowInv /\ [Next]_vars => WindowInv'
<1> SUFFICES ASSUME FeedInv, WindowInv, [Next]_vars PROVE WindowInv'
  OBVIOUS
<1>1. CASE \E r \in Runs : Plan(r)
  BY <1>1, NewWindow
<1>2. CASE ~ \E r \in Runs : Plan(r)
  <2>1. SameWindows /\ (now' = now \/ Tick)
    BY <1>2, NoPlan
  <2>2. FeedInv'
    BY FeedInvStep
  <2>3. QED
    BY <2>1, <2>2, WindowsRest
<1>3. QED
  BY <1>1, <1>2

(* While no run has failed, been killed or reported a gap, the windows of  *)
(* the runs that succeeded leave nothing out between what is stored and    *)
(* the latest of them.                                                     *)
THEOREM NothingIsLostUnnoticed == Spec => []LossIsNoticed
<1>1. ASSUME FeedInv, WindowInv, SuccessIsComplete
      PROVE  LossIsNoticed
  <2>1. SUFFICES ASSUME Running = {}, ~alarm, NEW c \in succeeded, NEW old \in stored
                 PROVE  /\ \A line \in Lines, i \in old[2]..(c \div Bucket) :
                             (i + 1) * Bucket <= c - CatchUp => <<line, i>> \in stored
                        /\ \A e \in Events :
                             /\ EventStart[e] < EventEnd[e]
                             /\ (old[2] + 1) * Bucket < EventEnd[e] /\ EventEnd[e] <= c - CatchUp
                             => Exists(e) /\ (Row(e).end # Open \/ Row(e).by = "operator")
    BY DEF LossIsNoticed
  <2>2. Cutoffs = succeeded /\ WindowsOverlap /\ old \in Begun
    BY <1>1, <2>1 DEF Cutoffs, Quiet, WindowInv, Begun
  <2>3. old[2] \in Nat /\ c \in Nat /\ succeeded \subseteq Nat /\ CatchUp \in Nat /\ Bucket \in Nat \ {0}
    BY <1>1, <2>1, <2>2, BegunFacts, FeedConstants
  <2>4. ASSUME NEW i \in Nat, old[2] <= i, (i + 1) * Bucket <= c
        PROVE  \E b \in succeeded : b - CatchUp <= i * Bucket /\ (i + 1) * Bucket <= b
    BY <2>1, <2>2, <2>4 DEF WindowsOverlap, Covered
  <2>5. ASSUME NEW line \in Lines, NEW i \in old[2]..(c \div Bucket),
               (i + 1) * Bucket <= c - CatchUp
        PROVE  <<line, i>> \in stored
    <3>1. i \in Nat /\ old[2] <= i
      <4>1. c \div Bucket \in Nat
        BY <2>3, CutoffIsAMultiple
      <4>2. QED
        BY <2>3, <4>1
    <3>2. i + 1 \in Nat /\ i * Bucket \in Int /\ (i + 1) * Bucket \in Int
          /\ (i + 1) * Bucket = i * Bucket + Bucket
      <4>1. i + 1 \in Int /\ i + 1 \in Nat
        BY <3>1
      <4>2. QED
        BY <3>1, <4>1, Multiples
    <3>3. (i + 1) * Bucket <= c
      BY <2>3, <2>5, <3>2
    <3>4. PICK b \in succeeded : b - CatchUp <= i * Bucket /\ (i + 1) * Bucket <= b
      BY <2>4, <3>1, <3>3
    <3>5. b \in Nat /\ b <= now /\ now \in Nat /\ LastTick \in Nat /\ now <= LastTick
      BY <1>1, <2>2, <2>3, FeedFacts DEF WindowInv, CutoffsArePast, FeedInv, Typed
    <3>6. i \in 0..(LastTick \div Bucket)
      <4>1. PICK last \in Nat : last = LastTick \div Bucket /\ LastTick < (last + 1) * Bucket
        BY <3>5, CutoffIsAMultiple
      <4>2. last + 1 \in Int /\ (last + 1) * Bucket \in Int
        <5>1. last + 1 \in Int
          OBVIOUS
        <5>2. QED
          BY <5>1, Multiples
      <4>3. i * Bucket < (last + 1) * Bucket
        BY <2>3, <3>2, <3>4, <3>5, <4>1, <4>2
      <4>4. i + 1 <= last + 1
        BY <3>1, <4>2, <4>3, Multiples
      <4>5. QED
        BY <3>1, <4>1, <4>4
    <3>7. <<line, i>> \in PlannedRecords(b)
      BY <3>1, <3>2, <3>4, <3>5, <3>6, <2>3 DEF PlannedRecords
    <3>8. QED
      BY <1>1, <3>7 DEF SuccessIsComplete
  <2>6. ASSUME NEW e \in Events,
               EventStart[e] < EventEnd[e],
               (old[2] + 1) * Bucket < EventEnd[e], EventEnd[e] <= c - CatchUp
        PROVE  Exists(e) /\ (Row(e).end # Open \/ Row(e).by = "operator")
    <3>1. PICK t \in Nat : t = EventEnd[e]
      BY FeedFacts
    <3>2. PICK first \in Nat, ob \in Int : first = old[2] + 1 /\ ob = first * Bucket
      <4>1. old[2] + 1 \in Nat
        BY <2>3
      <4>2. (old[2] + 1) * Bucket \in Int
        BY <2>3, Product
      <4>3. QED
        BY <4>1, <4>2
    <3>3. ob < t /\ t <= c - CatchUp
      BY <2>6, <3>1, <3>2
    <3>4. t # 0
      <4>1. first * Bucket \in Nat
        BY <2>3
      <4>2. QED
        BY ONLY <3>2, <3>3, <4>1, t \in Nat
    <3>5. PICK i \in Nat : i * Bucket < t /\ t <= (i + 1) * Bucket
      BY <3>4, BucketOf
    <3>6. PICK ib \in Int, nb \in Int : ib = i * Bucket /\ nb = (i + 1) * Bucket
      <4>1. i \in Int
        OBVIOUS
      <4>2. i * Bucket \in Int /\ (i + 1) * Bucket \in Int
        BY <4>1, Product
      <4>3. QED
        BY ONLY <4>2
    <3>7. ib < t /\ t <= nb
      BY ONLY <3>5, <3>6
    <3>8. old[2] <= i
      <4>1. ob < nb
        BY ONLY <3>3, <3>7, t \in Nat, ob \in Int, nb \in Int
      <4>2. first * Bucket < (i + 1) * Bucket
        BY ONLY <3>2, <3>6, <4>1
      <4>3. PICK j \in Nat : j = i + 1
        OBVIOUS
      <4>4. first + 1 <= j
        BY <4>2, <4>3, Multiples
      <4>5. QED
        BY ONLY <2>3, <3>2, <4>3, <4>4, i \in Nat
    <3>9. nb <= c
      <4>1. PICK k \in Nat : c = k * Bucket
        BY <1>1, <2>1, <2>2 DEF WindowInv, CutoffsArePast
      <4>2. ib < c
        BY ONLY <2>3, <3>3, <3>7, t \in Nat, ib \in Int
      <4>3. i * Bucket < k * Bucket
        BY ONLY <3>6, <4>1, <4>2
      <4>4. i + 1 <= k
        BY <4>3, Multiples
      <4>5. (i + 1) * Bucket <= k * Bucket
        BY <4>4, Multiples
      <4>6. QED
        BY ONLY <3>6, <4>1, <4>5
    <3>10. PICK b \in succeeded : b - CatchUp <= i * Bucket /\ (i + 1) * Bucket <= b
      BY <2>4, <3>6, <3>8, <3>9
    <3>11. b \in Nat /\ b - CatchUp < t /\ t <= b
      <4>1. b \in Nat /\ b - CatchUp <= ib /\ nb <= b
        BY <2>3, <3>6, <3>10
      <4>2. QED
        BY ONLY <2>3, <3>7, <4>1, t \in Nat, ib \in Int, nb \in Int
    <3>12. e \in PlannedEvents(b)
      <4>1. PICK day \in Nat, start \in Nat, db \in Int, de \in Int :
              /\ day = EventDay[e] /\ start = EventStart[e]
              /\ db = day * Day /\ de = (day + 1) * Day
        <5>1. EventDay[e] \in Nat /\ EventStart[e] \in Nat /\ Day \in Nat
          BY FeedConstants, EventsEndWithTheirDay
        <5>2. EventDay[e] * Day \in Int /\ (EventDay[e] + 1) * Day \in Int
          BY <5>1
        <5>3. QED
          BY ONLY <5>1, <5>2
      <4>2. db <= start /\ start < t /\ t <= de
        BY <2>6, <3>1, <4>1, EventsEndWithTheirDay
      <4>3. PICK h \in Int : h = b - CatchUp
        BY <2>3, <3>11
      <4>4. db < b /\ start < b /\ h < t /\ h < de
        BY ONLY <3>11, <4>2, <4>3, t \in Nat, start \in Nat, db \in Int, de \in Int, h \in Int
      <4>5. Day \in Nat \ {0} /\ day \in Int /\ b \in Int
        BY <3>11, FeedConstants
      <4>6. day * Day < b /\ h < (day + 1) * Day
        BY ONLY <4>1, <4>4
      <4>7. h \div Day \in Int /\ b \div Day \in Int /\ day <= b \div Day /\ h \div Day <= day
        BY <4>5, <4>6, Quotients
      <4>8. EventDay[e] \in ProductionDay(b - CatchUp)..ProductionDay(b)
        BY <4>1, <4>3, <4>7 DEF ProductionDay
      <4>9. EventStart[e] < b /\ EventEnd[e] > b - CatchUp
        BY <3>1, <4>1, <4>3, <4>4
      <4>10. QED
        BY <4>8, <4>9 DEF PlannedEvents, DayRuns, IntersectsWindow
    <3>13. QED
      BY <1>1, <3>1, <3>11, <3>12 DEF SuccessIsComplete
  <2>7. QED
    BY <2>5, <2>6
<1>2. QED
  BY <1>1, WindowInvInit, WindowInvStep, FeedInvAlways, SuccessMeansComplete, PTL DEF Spec

(* A run fails only if a call of its own went wrong, somebody else wrote   *)
(* while it ran, or its plan held a draft no run can store.                *)
THEOREM FailuresAreExplained == Spec => []FailuresHaveAReason
<1>1. PlanInv => FailuresHaveAReason
  BY DEF PlanInv, PlanStillHolds, FailuresHaveAReason
<1>2. QED
  BY <1>1, FeedInvAlways, PTL
=============================================================================
