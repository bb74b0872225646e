--------------------------- MODULE OeeQueryProofs ---------------------------
(***************************************************************************)
(* Proofs about OeeQuery, for any rows, windows, shifts and number of      *)
(* commits.                                                                *)
(***************************************************************************)
EXTENDS OeeQuery, FiniteSetTheorems, FunctionTheorems, WellFoundedInduction, TLAPS

RecordRow == [id : Nat, start : Int, end : Int, total : Nat, good : Nat, source : Sources]

EventRow == [id : Nat, start : Int, end : Int \union {None}, reason : Reasons,
             is_planned : BOOLEAN, source : Sources, updated_at : Nat]

(* What is committed: valid rows, finitely many, older than the next commit, *)
(* and no two of them of the same commit.                                    *)
RowsInv ==
  /\ line \in BOOLEAN /\ commits \in Nat
  /\ production \subseteq RecordRow /\ IsFiniteSet(production)
  /\ downtime \subseteq EventRow /\ IsFiniteSet(downtime)
  /\ \A r \in production : r.start < r.end /\ r.good <= r.total /\ r.id < commits
  /\ \A e \in downtime : (e.end # None => e.start < e.end) /\ e.id < commits
  /\ \A e \in downtime : e.updated_at < commits
  /\ \A e, f \in downtime : e.id = f.id \/ e.updated_at = f.updated_at => e = f
  /\ \A q, r \in production : q.id = r.id => q = r
  /\ \A e \in downtime, r \in production : e.updated_at # r.id

NewRecord(r) == [id |-> commits, start |-> r.start, end |-> r.end, total |-> r.total,
                 good |-> r.good, source |-> r.source]

NewEvent(e) == [id |-> commits, start |-> e.start, end |-> e.end, reason |-> e.reason,
                is_planned |-> e.is_planned, source |-> e.source, updated_at |-> commits]

LEMMA ConstantFacts ==
  /\ Day \in Nat /\ Day > 0 /\ MaxRows \in Nat /\ TopReasons \in Nat /\ TopReasons > 0
  /\ TicksPerSecond \in Nat /\ TicksPerSecond > 0
  /\ DemoSource \in Sources /\ DemoSource # None
  /\ \A s \in DOMAIN ShiftStart : ShiftStart[s] \in 0..(Day - 1)
  /\ \A w \in Windows : w.start \in Int /\ w.end \in Int
  /\ None \notin Int /\ None \notin Sources
BY QueryConstants, NoneIsNoData

LEMMA NewRecordIsValid ==
  ASSUME commits \in Nat, NEW r \in RecordDrafts
  PROVE  /\ NewRecord(r) \in RecordRow
         /\ NewRecord(r).start < NewRecord(r).end /\ NewRecord(r).good <= NewRecord(r).total
         /\ NewRecord(r).id = commits
<1>1. /\ r.start \in Int /\ r.end \in Int /\ r.total \in Int /\ r.good \in Int
      /\ r.start < r.end /\ 0 <= r.good /\ r.good <= r.total /\ r.source \in Sources
  BY DraftsAreValid
<1>2. r.total \in Nat /\ r.good \in Nat
  BY <1>1
<1>3. QED
  BY <1>1, <1>2 DEF NewRecord, RecordRow

LEMMA NewEventIsValid ==
  ASSUME commits \in Nat, NEW e \in EventDrafts
  PROVE  /\ NewEvent(e) \in EventRow
         /\ NewEvent(e).end # None => NewEvent(e).start < NewEvent(e).end
         /\ NewEvent(e).id = commits /\ NewEvent(e).updated_at = commits
<1>1. /\ e.start \in Int /\ e.end \in Int \union {None} /\ e.is_planned \in BOOLEAN
      /\ e.end # None => e.start < e.end
      /\ e.reason \in Reasons /\ e.source \in Sources
  BY DraftsAreValid
<1>2. QED
  BY <1>1 DEF NewEvent, EventRow

LEMMA PatchedIsValid ==
  ASSUME commits \in Nat, NEW e \in EventRow, NEW p \in Patches,
         Patched(e, p).end # None => Patched(e, p).start < Patched(e, p).end
  PROVE  /\ Patched(e, p) \in EventRow /\ Patched(e, p).id = e.id
         /\ Patched(e, p).updated_at = commits
<1>1. /\ "start" \in DOMAIN p => p.start \in Int
      /\ "end" \in DOMAIN p => p.end \in Int \union {None}
      /\ "reason" \in DOMAIN p => p.reason \in Reasons
      /\ "is_planned" \in DOMAIN p => p.is_planned \in BOOLEAN
  BY DraftsAreValid
<1>2. /\ Sent(p, "start", e.start) \in Int
      /\ Sent(p, "end", e.end) \in Int \union {None}
      /\ Sent(p, "reason", e.reason) \in Reasons
      /\ Sent(p, "is_planned", e.is_planned) \in BOOLEAN
  BY <1>1 DEF Sent, EventRow
<1>3. e.id \in Nat /\ e.source \in Sources
  BY DEF EventRow
<1>4. QED
  BY <1>2, <1>3 DEF Patched, EventRow

(* What a commit does to the rows. *)
Stores(r) ==
  /\ line /\ production' = production \union {NewRecord(r)} /\ downtime' = downtime
  /\ commits' = commits + 1 /\ line' = line

StoresEvent(e) ==
  /\ line /\ downtime' = downtime \union {NewEvent(e)} /\ production' = production
  /\ commits' = commits + 1 /\ line' = line

Corrects(e, p) ==
  /\ Patched(e, p).end # None => Patched(e, p).start < Patched(e, p).end
  /\ downtime' = (downtime \ {e}) \union {Patched(e, p)} /\ production' = production
  /\ commits' = commits + 1 /\ line' = line

Commits ==
  \/ \E r \in RecordDrafts : Stores(r)
  \/ \E e \in EventDrafts : StoresEvent(e)
  \/ \E e \in downtime, p \in Patches : Corrects(e, p)

Serves == UNCHANGED <<rows, commits>>

LEMMA StepsOfRows ==
  ASSUME [Next]_vars
  PROVE  \/ Commits /\ UNCHANGED <<request, began, last>>
         \/ /\ line = FALSE /\ line' = TRUE
            /\ UNCHANGED <<production, downtime, commits, request, began, last>>
         \/ Serves
<1>1. CASE StoreRecord
  BY <1>1 DEF StoreRecord, Committing, Commits, Stores, NewRecord
<1>2. CASE StoreEvent
  BY <1>2 DEF StoreEvent, Committing, Commits, StoresEvent, NewEvent
<1>3. CASE CorrectEvent
  BY <1>3 DEF CorrectEvent, Committing, Commits, Corrects
<1>4. CASE CreateLine
  BY <1>4 DEF CreateLine
<1>5. ASSUME NEW w \in Windows, GetOee(w) PROVE Serves
  BY <1>5 DEF Serves, GetOee, rows
<1>6. CASE GetOverview \/ ReadDataThrough \/ ReadLine \/ CountDowntime
  BY <1>6, Zenon DEF Serves, GetOverview, ReadDataThrough, ReadLine, CountDowntime
<1>7. CASE CountProduction \/ LoadDowntime \/ LoadProduction \/ UNCHANGED vars
  BY <1>7 DEF Serves, CountProduction, LoadDowntime, LoadProduction, vars, rows
<1>8. QED
  BY <1>1, <1>2, <1>3, <1>4, <1>5, <1>6, <1>7 DEF Next

LEMMA RowsInvStep ==
  ASSUME RowsInv, [Next]_vars PROVE RowsInv'
<1>1. commits \in Nat /\ commits + 1 \in Nat
  BY DEF RowsInv
<1>2. ASSUME NEW r \in RecordDrafts, Stores(r) PROVE RowsInv'
  <2> DEFINE n == NewRecord(r)
  <2>1. n \in RecordRow /\ n.start < n.end /\ n.good <= n.total /\ n.id = commits
    BY <1>1, NewRecordIsValid
  <2> HIDE DEF n
  <2>2. production' = production \union {n} /\ commits' = commits + 1
        /\ UNCHANGED <<line, downtime>>
    BY <1>2 DEF Stores, n
  <2>3. IsFiniteSet(production')
    BY <2>2, FS_AddElement DEF RowsInv
  <2>4. /\ \A q \in production : q.id \in Nat
        /\ \A e \in downtime : e.id \in Nat /\ e.updated_at \in Nat
    BY DEF RowsInv, RecordRow, EventRow
  <2>5. /\ \A q \in production' : q.start < q.end /\ q.good <= q.total /\ q.id < commits'
        /\ \A q, r2 \in production' : q.id = r2.id => q = r2
        /\ \A e \in downtime' : e.id < commits' /\ e.updated_at < commits'
        /\ \A e \in downtime', q \in production' : e.updated_at # q.id
    BY <1>1, <2>1, <2>2, <2>4 DEF RowsInv
  <2>6. QED
    BY <1>1, <2>1, <2>2, <2>3, <2>5 DEF RowsInv
<1>3. ASSUME NEW e \in EventDrafts, StoresEvent(e) PROVE RowsInv'
  <2> DEFINE n == NewEvent(e)
  <2>1. /\ n \in EventRow /\ (n.end # None => n.start < n.end) /\ n.id = commits
        /\ n.updated_at = commits
    BY <1>1, NewEventIsValid
  <2> HIDE DEF n
  <2>2. downtime' = downtime \union {n} /\ commits' = commits + 1
        /\ UNCHANGED <<line, production>>
    BY <1>3 DEF StoresEvent, n
  <2>3. IsFiniteSet(downtime')
    BY <2>2, FS_AddElement DEF RowsInv
  <2>4. /\ \A q \in production : q.id \in Nat
        /\ \A f \in downtime : f.id \in Nat /\ f.updated_at \in Nat
    BY DEF RowsInv, RecordRow, EventRow
  <2>5. /\ \A q \in production' : q.id < commits'
        /\ \A f \in downtime' : (f.end # None => f.start < f.end) /\ f.id < commits'
        /\ \A f \in downtime' : f.updated_at < commits'
        /\ \A f, g \in downtime' : f.id = g.id \/ f.updated_at = g.updated_at => f = g
        /\ \A f \in downtime', q \in production' : f.updated_at # q.id
    BY <1>1, <2>1, <2>2, <2>4 DEF RowsInv
  <2>6. QED
    BY <1>1, <2>1, <2>2, <2>3, <2>5 DEF RowsInv
<1>4. ASSUME NEW e \in downtime, NEW p \in Patches, Corrects(e, p) PROVE RowsInv'
  <2> DEFINE n == Patched(e, p)
  <2>1. e \in EventRow /\ (n.end # None => n.start < n.end)
    BY <1>4 DEF RowsInv, Corrects
  <2>2. n \in EventRow /\ n.id = e.id /\ n.updated_at = commits
    BY <1>1, <2>1, PatchedIsValid
  <2>3. downtime' = (downtime \ {e}) \union {n} /\ commits' = commits + 1
        /\ UNCHANGED <<line, production>>
    BY <1>4 DEF Corrects
  <2> HIDE DEF n
  <2>4. IsFiniteSet(downtime')
    BY <2>3, FS_RemoveElement, FS_AddElement DEF RowsInv
  <2>5. /\ \A q \in production : q.id \in Nat
        /\ \A f \in downtime : f.id \in Nat /\ f.updated_at \in Nat
    BY DEF RowsInv, RecordRow, EventRow
  <2>6. /\ \A q \in production' : q.id < commits'
        /\ \A f \in downtime' : (f.end # None => f.start < f.end) /\ f.id < commits'
        /\ \A f \in downtime' : f.updated_at < commits'
        /\ \A f, g \in downtime' : f.id = g.id \/ f.updated_at = g.updated_at => f = g
        /\ \A f \in downtime', q \in production' : f.updated_at # q.id
    BY <1>1, <2>1, <2>2, <2>3, <2>5 DEF RowsInv
  <2>7. QED
    BY <1>1, <2>2, <2>3, <2>4, <2>6 DEF RowsInv
<1>5. CASE Serves
  BY <1>5 DEF Serves, rows, RowsInv
<1>6. CASE line' = TRUE /\ UNCHANGED <<production, downtime, commits>>
  BY <1>6 DEF RowsInv
<1>7. QED
  BY <1>2, <1>3, <1>4, <1>5, <1>6, StepsOfRows DEF Commits

LEMMA RowsInvHolds == Spec => []RowsInv
<1>1. Init => RowsInv
  BY FS_EmptySet DEF Init, RowsInv
<1>2. QED
  BY <1>1, RowsInvStep, PTL DEF Spec

-----------------------------------------------------------------------------
(* Shifts. *)

LEMMA ByDays ==
  ASSUME NEW t \in Int
  PROVE  \E q \in Int, r \in 0..(Day - 1), m \in Int :
            q = t \div Day /\ r = t % Day /\ m = q * Day /\ t = m + r
<1>1. Day \in Nat \ {0}
  BY ConstantFacts
<1>2. t \div Day \in Int /\ t % Day \in 0..(Day - 1) /\ t = (t \div Day) * Day + (t % Day)
  BY <1>1
<1>3. (t \div Day) * Day \in Int
  BY <1>1, <1>2
<1>4. QED
  BY <1>2, <1>3

(* A day later is a day's ticks later. *)
LEMMA DaysAscend ==
  ASSUME NEW p \in Int, NEW q \in Int
  PROVE  /\ p * Day \in Int /\ q * Day \in Int
         /\ p < q => p * Day + Day <= q * Day
         /\ (q - 1) * Day = q * Day - Day
<1>1. Day \in Nat
  BY ConstantFacts
<1>2. p * Day \in Int /\ q * Day \in Int /\ (q - 1) * Day = q * Day - Day
  BY <1>1
<1>3. ASSUME p < q PROVE p * Day + Day <= q * Day
  <2>1. PICK n \in Nat : q = p + 1 + n
    <3>1. q - p - 1 \in Nat /\ q = p + 1 + (q - p - 1)
      BY <1>3
    <3>2. QED
      BY <3>1
  <2>2. q * Day = p * Day + Day + n * Day
    BY <1>1, <2>1
  <2>3. n * Day \in Nat
    BY <1>1
  <2>4. QED
    BY <1>1, <1>2, <2>2, <2>3
<1>4. QED
  BY <1>2, <1>3

LEMMA TimeOfDay ==
  ASSUME NEW d \in Int, NEW r \in 0..(Day - 1)
  PROVE  d * Day + r \in Int /\ (d * Day + r) % Day = r
<1>1. Day \in Nat /\ Day > 0 /\ d * Day \in Int /\ r \in Int
  BY ConstantFacts
<1> DEFINE t == d * Day + r
<1>2. t \in Int
  BY <1>1
<1>3. PICK q \in Int, s \in 0..(Day - 1), m \in Int :
        s = t % Day /\ m = q * Day /\ t = m + s
  BY <1>2, ByDays
<1>4. PICK n \in Int : n = d * Day
  BY <1>1
<1>5. t = n + r
  BY <1>4
<1> HIDE DEF t
<1>6. /\ d < q => n + Day <= m
      /\ q < d => m + Day <= n
      /\ q = d => n = m
  BY <1>3, <1>4, DaysAscend
<1>7. n + r = m + s
  BY <1>3, <1>5
<1>8. /\ ~(n + Day <= m) /\ ~(m + Day <= n)
      /\ n = m => r = s
  <2>1. /\ n \in Int /\ m \in Int /\ Day \in Int
        /\ r \in Int /\ 0 <= r /\ r < Day /\ s \in Int /\ 0 <= s /\ s < Day
    BY <1>1, <1>3, <1>4
  <2>2. QED
    BY ONLY <1>7, <2>1
<1>9. q = d
  <2>1. ~(d < q) /\ ~(q < d)
    BY <1>6, <1>8
  <2>2. QED
    BY ONLY <2>1, <1>3, d \in Int
<1>10. s = r
  BY <1>6, <1>8, <1>9
<1>11. QED
  BY <1>2, <1>3, <1>10 DEF t

Begins(e) == {<<d * Day + ShiftStart[s], s>> :
                d \in {(e \div Day) - 1, e \div Day}, s \in DOMAIN ShiftStart}

BegunBy(e) == {x \in Begins(e) : x[1] <= e}

LatestBegin(e) == CHOOSE b \in BegunBy(e) : \A c \in BegunBy(e) : c[1] <= b[1]

LEMMA BeginsAreShifts ==
  ASSUME NEW e \in Int, NEW x \in Begins(e)
  PROVE  x[1] \in Int /\ x[2] \in DOMAIN ShiftStart /\ x[1] % Day = ShiftStart[x[2]]
<1>1. e \div Day \in Int /\ (e \div Day) - 1 \in Int
  BY ConstantFacts
<1>2. PICK d \in Int, s \in DOMAIN ShiftStart : x = <<d * Day + ShiftStart[s], s>>
  BY <1>1 DEF Begins
<1>3. ShiftStart[s] \in 0..(Day - 1)
  BY ConstantFacts
<1>4. d * Day + ShiftStart[s] \in Int /\ (d * Day + ShiftStart[s]) % Day = ShiftStart[s]
  BY <1>3, TimeOfDay
<1>5. QED
  BY <1>2, <1>4

(* A shift has begun by e, at the latest the day before. *)
LEMMA SomeShiftHasBegun ==
  ASSUME NEW e \in Int
  PROVE  /\ LatestBegin(e) \in BegunBy(e)
         /\ \A c \in BegunBy(e) : c[1] <= LatestBegin(e)[1]
<1> DEFINE T == {e - x[1] : x \in BegunBy(e)}
           R == OpToRel(<, Nat)
<1>1. BegunBy(e) # {}
  <2>1. PICK s \in DOMAIN ShiftStart : ShiftStart[s] \in 0..(Day - 1)
    BY QueryConstants
  <2>2. PICK q \in Int, r \in 0..(Day - 1), m \in Int :
          q = e \div Day /\ r = e % Day /\ m = q * Day /\ e = m + r
    BY ByDays
  <2> DEFINE x == <<(q - 1) * Day + ShiftStart[s], s>>
  <2>3. x \in Begins(e)
    BY <2>2 DEF Begins
  <2>4. (q - 1) * Day = m - Day
    BY <2>2, DaysAscend
  <2>5. (q - 1) * Day + ShiftStart[s] <= e
    BY <2>1, <2>2, <2>4, ConstantFacts
  <2>6. x[1] <= e
    BY <2>5
  <2>7. QED
    BY <2>3, <2>6 DEF BegunBy
<1>2. \A x \in BegunBy(e) : x[1] \in Int /\ x[1] <= e /\ e - x[1] \in Nat
  BY BeginsAreShifts DEF BegunBy
<1>3. T \subseteq Nat /\ T # {}
  BY <1>1, <1>2
<1>4. \A i, j \in Nat : i < j <=> <<i, j>> \in R
  BY DEF OpToRel
<1>5. IsWellFoundedOn(R, Nat)
  BY NatLessThanWellFounded DEF OpToRel
<1>6. \A x \in BegunBy(e) : e - x[1] \in T
  OBVIOUS
<1>7. \A k \in T : \E x \in BegunBy(e) : k = e - x[1]
  OBVIOUS
<1> HIDE DEF T, R
<1>8. PICK k \in T : \A j \in T : ~(<<j, k>> \in R)
  BY <1>3, <1>5, WFMin
<1>9. PICK b \in BegunBy(e) : k = e - b[1]
  BY <1>7, <1>8
<1>10. ASSUME NEW c \in BegunBy(e) PROVE c[1] <= b[1]
  <2>1. e - c[1] \in T /\ e - c[1] \in Nat /\ k \in Nat
    BY <1>2, <1>3, <1>6, <1>8
  <2>2. ~(e - c[1] < k)
    BY <1>4, <1>8, <2>1
  <2>3. c[1] \in Int /\ b[1] \in Int
    BY <1>2
  <2>4. QED
    BY <1>9, <2>1, <2>2, <2>3
<1>11. QED
  BY <1>9, <1>10 DEF LatestBegin

(* A shift that begins by e and on or after the day before is in the set.  *)
LEMMA BeginsAreFound ==
  ASSUME NEW e \in Int, NEW t \in Int, NEW s \in DOMAIN ShiftStart, t % Day = ShiftStart[s],
         t <= e, NEW x \in BegunBy(e), x[1] <= t
  PROVE  <<t, s>> \in BegunBy(e)
<1>1. PICK q \in Int, r \in 0..(Day - 1), m \in Int :
        q = e \div Day /\ m = q * Day /\ e = m + r
  BY ByDays
<1>2. PICK p \in Int, u \in 0..(Day - 1), n \in Int :
        u = t % Day /\ n = p * Day /\ t = n + u
  BY ByDays
<1>3. PICK d \in {q - 1, q}, v \in DOMAIN ShiftStart : x = <<d * Day + ShiftStart[v], v>>
  BY <1>1 DEF BegunBy, Begins
<1>4. ShiftStart[v] \in 0..(Day - 1) /\ Day \in Nat
  BY ConstantFacts
<1>5. (q - 1) * Day = m - Day
  BY <1>1, DaysAscend
<1>6. x[1] = d * Day + ShiftStart[v]
  BY <1>3
<1>7. m - Day <= x[1]
  <2>1. CASE d = q
    BY <1>1, <1>4, <1>6, <2>1
  <2>2. CASE d = q - 1
    BY <1>1, <1>4, <1>5, <1>6, <2>2
  <2>3. QED
    BY <1>3, <2>1, <2>2
<1>8. p <= q
  <2>1. q < p => m + Day <= n
    BY <1>1, <1>2, DaysAscend
  <2>2. QED
    BY <1>1, <1>2, <1>4, <2>1
<1>9. q - 1 <= p
  <2>1. p < q - 1 => n + Day <= m - Day
    BY <1>1, <1>2, <1>5, DaysAscend
  <2>2. x[1] \in Int
    BY BeginsAreShifts DEF BegunBy
  <2>3. QED
    BY <1>1, <1>2, <1>4, <1>7, <2>1, <2>2
<1>10. p \in {q - 1, q}
  BY <1>8, <1>9
<1>11. t = p * Day + ShiftStart[s]
  BY <1>2
<1>12. <<t, s>> \in Begins(e)
  BY <1>1, <1>10, <1>11 DEF Begins
<1>13. QED
  BY <1>12 DEF BegunBy

(* The window is the shift so far: it begins with a shift and no other     *)
(* begins within it.                                                       *)
BeginsItsShift(w, s) ==
  /\ w.start \in Int /\ w.end \in Int /\ w.start < w.end
  /\ s \in DOMAIN ShiftStart /\ w.start % Day = ShiftStart[s]
  /\ \A r \in DOMAIN ShiftStart, t \in Instants(w) : t > w.start => t % Day # ShiftStart[r]

LEMMA ShiftSoFar ==
  ASSUME NEW through \in Int
  PROVE  LET sw == CompletedShiftWindow(through) IN
           sw.window.end = through /\ BeginsItsShift(sw.window, sw.shift)
<1> DEFINE e == through - 1
           b == LatestBegin(e)
           w == Window(b[1], through)
<1>1. e \in Int /\ e < through
  OBVIOUS
<1> HIDE DEF e
<1>2. CompletedShiftWindow(through) = [shift |-> b[2], window |-> w]
  BY DEF CompletedShiftWindow, LatestBegin, BegunBy, Begins, e
<1>3. b \in BegunBy(e) /\ \A c \in BegunBy(e) : c[1] <= b[1]
  BY <1>1, SomeShiftHasBegun
<1> HIDE DEF b
<1>4. /\ b[1] \in Int /\ b[2] \in DOMAIN ShiftStart /\ b[1] % Day = ShiftStart[b[2]]
      /\ b[1] <= e
  BY <1>1, <1>3, BeginsAreShifts DEF BegunBy
<1>5. w.start = b[1] /\ w.end = through
  BY DEF Window
<1>6. ASSUME NEW r \in DOMAIN ShiftStart, NEW t \in Instants(w), t > w.start,
             t % Day = ShiftStart[r]
      PROVE  FALSE
  <2>1. t \in Int /\ b[1] < t /\ t <= e
    BY <1>1, <1>4, <1>5, <1>6 DEF Instants, e
  <2>2. <<t, r>> \in BegunBy(e)
    BY <1>1, <1>3, <1>4, <1>6, <2>1, BeginsAreFound
  <2>3. t <= b[1]
    BY <1>3, <2>2
  <2>4. QED
    BY <1>4, <2>1, <2>3
<1>7. b[1] < through
  BY <1>1, <1>4
<1>8. BeginsItsShift(w, b[2])
  BY <1>4, <1>5, <1>6, <1>7 DEF BeginsItsShift
<1> HIDE DEF w
<1>9. QED
  BY <1>2, <1>5, <1>8

-----------------------------------------------------------------------------
(* Requests. *)

(* Of finitely many integers one is the greatest: that which fewest exceed. *)
LEMMA FiniteSetsHaveAMax ==
  ASSUME NEW S \in SUBSET Int, IsFiniteSet(S), S # {}
  PROVE  Max(S) \in S /\ \A y \in S : y <= Max(S)
<1> DEFINE Above(x) == {y \in S : y > x}
           T == {Cardinality(Above(x)) : x \in S}
           R == OpToRel(<, Nat)
<1>1. ASSUME NEW x \in S PROVE IsFiniteSet(Above(x)) /\ Cardinality(Above(x)) \in Nat
  <2>1. Above(x) \in SUBSET S
    OBVIOUS
  <2> HIDE DEF Above
  <2>2. QED
    BY <2>1, FS_Subset, FS_CardinalityType
<1>2. \A i, j \in Nat : i < j <=> <<i, j>> \in R
  BY DEF OpToRel
<1>3. IsWellFoundedOn(R, Nat)
  BY NatLessThanWellFounded DEF OpToRel
<1>4. T \subseteq Nat /\ T # {}
  BY <1>1
<1>5. /\ \A x \in S : Cardinality(Above(x)) \in T
      /\ \A k \in T : \E x \in S : k = Cardinality(Above(x))
  OBVIOUS
<1> HIDE DEF T, R
<1>6. PICK k \in T : \A j \in T : ~(<<j, k>> \in R)
  BY <1>3, <1>4, WFMin
<1>7. PICK x \in S : k = Cardinality(Above(x))
  BY <1>5, <1>6
<1>8. ASSUME NEW y \in S PROVE y <= x
  <2>1. SUFFICES ASSUME y > x PROVE FALSE
    OBVIOUS
  <2>2. Above(y) \in SUBSET Above(x) /\ Above(y) # Above(x)
    <3>1. x \in Int /\ y \in Int /\ \A z \in S : z \in Int /\ (z > y => z > x)
      BY <2>1
    <3>2. Above(y) \subseteq Above(x)
      BY <3>1
    <3>3. y \in Above(x) /\ y \notin Above(y)
      BY <2>1, <3>1
    <3>4. QED
      BY <3>2, <3>3
  <2> HIDE DEF Above
  <2>3. /\ Cardinality(Above(y)) <= Cardinality(Above(x))
        /\ Cardinality(Above(y)) # Cardinality(Above(x))
    BY <1>1, <2>2, FS_Subset
  <2>4. Cardinality(Above(y)) \in T /\ Cardinality(Above(y)) \in Nat /\ k \in Nat
    BY <1>1, <1>4, <1>5, <1>6
  <2>5. ~(Cardinality(Above(y)) < k)
    BY <1>2, <1>6, <2>4
  <2>6. QED
    BY <1>7, <2>3, <2>4, <2>5
<1>9. \A y \in S : x >= y
  BY <1>8
<1>10. Max(S) \in S /\ \A y \in S : Max(S) >= y
  BY <1>9, Zenon DEF Max
<1>11. QED
  BY <1>10

LEMMA LatestEndIsTheLast ==
  ASSUME RowsInv
  PROVE  /\ LatestEnd \subseteq Int
         /\ \A x \in LatestEnd :
              /\ \E r \in production : r.source = DemoSource /\ r.end = x
              /\ \A r \in production : r.source = DemoSource => r.end <= x
         /\ \A r \in production : r.source = DemoSource => LatestEnd # {}
<1> DEFINE P == FromSource(production, DemoSource)
           ends == {r.end : r \in P}
<1>1. P = {r \in production : r.source = DemoSource}
  BY ConstantFacts DEF FromSource
<1>2. ends \subseteq Int
  BY <1>1 DEF RowsInv, RecordRow
<1>3. IsFiniteSet(ends)
  <2>1. P \in SUBSET production
    BY <1>1
  <2> DEFINE f == [r \in P |-> r.end]
  <2>2. f \in Surjection(P, ends)
    BY DEF Surjection
  <2>3. IsFiniteSet(P)
    BY <2>1, FS_Subset DEF RowsInv
  <2> HIDE DEF f, P, ends
  <2>4. QED
    BY <2>2, <2>3, FS_Surjection
<1>4. LatestEnd = IF ends = {} THEN {} ELSE {Max(ends)}
  BY DEF LatestEnd
<1>5. /\ \A x \in ends : \E r \in P : r.end = x
      /\ \A r \in P : r.end \in ends
  OBVIOUS
<1> HIDE DEF ends, P
<1>6. ends # {} => Max(ends) \in ends /\ \A y \in ends : y <= Max(ends)
  BY <1>2, <1>3, FiniteSetsHaveAMax
<1>7. QED
  BY <1>1, <1>2, <1>4, <1>5, <1>6

Loading == {"line", "count", "limit", "load", "loaded"}

IsRequest(q) ==
  q = [pc |-> q.pc, kind |-> q.kind, window |-> q.window, source |-> q.source,
       shift |-> q.shift, counted |-> q.counted, events |-> q.events, answer |-> q.answer]

HasData(through) == \E r \in production : r.end = through /\ r.source = DemoSource

(* What is known of a request that is being served. *)
Served(q) ==
  /\ q.window.start \in Int /\ q.window.end \in Int
  /\ \/ q.kind = "oee" /\ q.source = None
     \/ /\ q.kind = "overview" /\ q.source = DemoSource /\ line
        /\ BeginsItsShift(q.window, q.shift) /\ HasData(q.window.end)
  /\ q.pc # "line" => line /\ q.window.start < q.window.end

RequestInv ==
  /\ IsRequest(request)
  /\ request.pc \in {"idle", "answered", "data_through"} \union Loading
  /\ request.pc = "data_through" => request.kind = "overview" /\ request.source = DemoSource
  /\ request.pc \in Loading => Served(request)
  /\ WindowIsTheShiftSoFar

LEMMA RowsOnlyGrow ==
  ASSUME [Next]_vars
  PROVE  (line' = line \/ line' = TRUE) /\ production \subseteq production'
BY StepsOfRows DEF Commits, Stores, StoresEvent, Corrects, Serves, rows

(* The answer LoadProduction gives. *)
AnswerIs(a) ==
  /\ request' = [pc |-> "answered", kind |-> request.kind, window |-> None, source |-> None,
                 shift |-> None, counted |-> None, events |-> None, answer |-> a]
  /\ last' = IF request.kind = "overview" THEN a ELSE last
  /\ \E n, o :
       /\ n = Cardinality(request.events)
                + Cardinality(ProductionFilter(request.window, request.source))
       /\ o = Result(request.window, request.events,
                     ProductionFilter(request.window, request.source))
       /\ \E view :
            /\ request.kind # "oee" =>
                 view = Overview(request.window, request.shift, request.events, o.run)
            /\ a = [status |-> 200, window |-> request.window, source |-> request.source,
                    loaded |-> n, result |-> o, overview |-> view]

LEMMA Answering ==
  ASSUME LoadProduction PROVE \E a : AnswerIs(a)
<1> DEFINE w == request.window
           records == ProductionFilter(w, request.source)
           result == Result(w, request.events, records)
           view == IF request.kind = "oee" THEN None
                   ELSE Overview(w, request.shift, request.events, result.run)
           n == Cardinality(request.events) + Cardinality(records)
           a == [status |-> 200, window |-> w, source |-> request.source,
                 loaded |-> n, result |-> result, overview |-> view]
<1>1. Answer(a)
  BY DEF LoadProduction
<1>2. a.status = 200
  OBVIOUS
<1>3. request.kind # "oee" => view = Overview(w, request.shift, request.events, result.run)
  OBVIOUS
<1> HIDE DEF view, n
<1>4. \E m, o :
       /\ m = Cardinality(request.events) + Cardinality(records)
       /\ o = Result(w, request.events, records)
       /\ \E v :
            /\ request.kind # "oee" =>
                 v = Overview(w, request.shift, request.events, o.run)
            /\ a = [status |-> 200, window |-> w, source |-> request.source,
                    loaded |-> m, result |-> o, overview |-> v]
  BY <1>3 DEF n
<1> HIDE DEF a
<1>5. AnswerIs(a)
  BY <1>1, <1>2, <1>4 DEF AnswerIs, Answer, Idle
<1>6. QED
  BY <1>5

LEMMA RefusalsSayWhere ==
  ASSUME NEW status, Refuse(status), request.pc \in {"data_through", "limit"}, status # 200
  PROVE  RequestInv'
<1>1. request' = [pc |-> "answered", kind |-> request.kind, window |-> None, source |-> None,
                  shift |-> None, counted |-> None, events |-> None,
                  answer |-> [status |-> status, at |-> request.pc]]
  BY DEF Refuse, Answer, Idle
<1>2. /\ request'.pc = "answered" /\ IsRequest(request')
      /\ request'.answer.status = status /\ request'.answer.at = request.pc
  BY <1>1 DEF IsRequest
<1>3. WindowIsTheShiftSoFar'
  BY <1>2 DEF WindowIsTheShiftSoFar
<1>4. QED
  BY <1>2, <1>3 DEF RequestInv, Loading, IsRequest

LEMMA StaysServed ==
  ASSUME RequestInv, request.pc \in Loading, UNCHANGED rows,
         line, request.window.start < request.window.end,
         IsRequest(request'), request'.pc \in Loading, request'.kind = request.kind,
         request'.window = request.window, request'.source = request.source,
         request'.shift = request.shift
  PROVE  RequestInv'
<1>1. Served(request)'
  BY DEF RequestInv, Served, HasData, BeginsItsShift, rows
<1>2. QED
  BY <1>1 DEF RequestInv, WindowIsTheShiftSoFar, Loading, IsRequest

LEMMA RequestInvStep ==
  ASSUME RowsInv, RequestInv, [Next]_vars PROVE RequestInv'
<1>0. (line' = line \/ line' = TRUE) /\ production \subseteq production'
  BY RowsOnlyGrow
<1>1. CASE UNCHANGED request
  <2>1. request' = request
    BY <1>1
  <2>2. WindowIsTheShiftSoFar'
    BY <1>0, <2>1 DEF RequestInv, WindowIsTheShiftSoFar
  <2>3. request.pc \in Loading => Served(request)'
    BY <1>0, <2>1 DEF RequestInv, Served, HasData, BeginsItsShift
  <2>4. QED
    BY <2>1, <2>2, <2>3 DEF RequestInv, IsRequest
<1>2. ASSUME NEW w \in Windows, GetOee(w) PROVE RequestInv'
  <2>1. \/ request' = [pc |-> "answered", kind |-> "oee", window |-> None, source |-> None,
                       shift |-> None, counted |-> None, events |-> None,
                       answer |-> [status |-> 422, at |-> "window"]]
        \/ request' = [pc |-> "line", kind |-> "oee", window |-> w, source |-> None,
                       shift |-> None, counted |-> None, events |-> None, answer |-> None]
    <3>1. \/ request' = [Idle EXCEPT !.pc = "answered", !.kind = "oee",
                                     !.answer = [status |-> 422, at |-> "window"]]
          \/ request' = [Idle EXCEPT !.pc = "line", !.kind = "oee", !.window = w]
      BY <1>2, Zenon DEF GetOee
    <3>2. ASSUME request' = [Idle EXCEPT !.pc = "answered", !.kind = "oee",
                                         !.answer = [status |-> 422, at |-> "window"]]
          PROVE  request' = [pc |-> "answered", kind |-> "oee", window |-> None,
                             source |-> None, shift |-> None, counted |-> None,
                             events |-> None, answer |-> [status |-> 422, at |-> "window"]]
      BY <3>2 DEF Idle
    <3>3. ASSUME request' = [Idle EXCEPT !.pc = "line", !.kind = "oee", !.window = w]
          PROVE  request' = [pc |-> "line", kind |-> "oee", window |-> w, source |-> None,
                             shift |-> None, counted |-> None, events |-> None,
                             answer |-> None]
      BY <3>3 DEF Idle
    <3>4. QED
      BY <3>1, <3>2, <3>3
  <2>2. w.start \in Int /\ w.end \in Int
    BY ConstantFacts
  <2>3. /\ IsRequest(request') /\ request'.kind = "oee" /\ request'.pc \in {"answered", "line"}
        /\ request'.pc = "line" => request'.window = w /\ request'.source = None
    BY <2>1 DEF IsRequest
  <2>4. request'.pc \in Loading => Served(request)'
    BY <2>2, <2>3 DEF Served, Loading
  <2>5. QED
    BY <2>3, <2>4 DEF RequestInv, WindowIsTheShiftSoFar, IsRequest, Loading
<1>3. CASE GetOverview
  <2>1. request' = [pc |-> "data_through", kind |-> "overview", window |-> None,
                    source |-> DemoSource, shift |-> None, counted |-> None,
                    events |-> None, answer |-> None]
    BY <1>3 DEF GetOverview, Idle
  <2>2. QED
    BY <2>1 DEF RequestInv, WindowIsTheShiftSoFar, IsRequest, Loading
<1>4. CASE ReadDataThrough
  <2>1. request.pc = "data_through" /\ request.kind = "overview" /\ request.source = DemoSource
    <3>1. request.pc = "data_through"
      BY <1>4, Zenon DEF ReadDataThrough
    <3>2. QED
      BY <3>1 DEF RequestInv
  <2>2. CASE Refuse(503)
    BY <2>1, <2>2, RefusalsSayWhere
  <2>3. ASSUME line, NEW through \in LatestEnd,
               request' = [request EXCEPT !.pc = "line",
                             !.window = CompletedShiftWindow(through).window,
                             !.shift = CompletedShiftWindow(through).shift]
        PROVE  RequestInv'
    <3> DEFINE sw == CompletedShiftWindow(through)
    <3>1. /\ sw.window.end = through /\ BeginsItsShift(sw.window, sw.shift)
          /\ HasData(through)
      BY LatestEndIsTheLast, ShiftSoFar DEF HasData
    <3> HIDE DEF sw
    <3>2. request' = [pc |-> "line", kind |-> request.kind, window |-> sw.window,
                      source |-> request.source, shift |-> sw.shift,
                      counted |-> request.counted, events |-> request.events,
                      answer |-> request.answer]
      BY <2>3 DEF sw, RequestInv, IsRequest
    <3>3. /\ IsRequest(request') /\ request'.pc = "line" /\ request'.kind = "overview"
          /\ request'.source = DemoSource /\ request'.window = sw.window
          /\ request'.shift = sw.shift
      BY <2>1, <3>2 DEF IsRequest
    <3>4. UNCHANGED rows
      BY <1>4, Zenon DEF ReadDataThrough
    <3>5. Served(request')
      BY <2>3, <3>1, <3>3 DEF Served, BeginsItsShift
    <3>6. Served(request)'
      BY <3>4, <3>5 DEF Served, BeginsItsShift, HasData, rows
    <3>7. QED
      BY <3>3, <3>6 DEF RequestInv, WindowIsTheShiftSoFar, IsRequest, Loading
  <2>4. QED
    BY <1>4, <2>2, <2>3, Zenon DEF ReadDataThrough
<1>5. CASE ReadLine
  <2>1. request.pc = "line" /\ Served(request) /\ UNCHANGED rows
    BY <1>5 DEF ReadLine, RequestInv, Loading
  <2>2. CASE request.window.start < request.window.end /\ line
    <3>1. request' = [request EXCEPT !.pc = "count"]
      BY <1>5, <2>2 DEF ReadLine
    <3>2. request' = [pc |-> "count", kind |-> request.kind, window |-> request.window,
                      source |-> request.source, shift |-> request.shift,
                      counted |-> request.counted, events |-> request.events,
                      answer |-> request.answer]
      BY <3>1 DEF RequestInv, IsRequest
    <3>3. IsRequest(request') /\ request'.pc \in Loading /\ request.pc \in Loading
      BY <2>1, <3>2 DEF IsRequest, Loading
    <3>4. QED
      BY <2>1, <2>2, <3>2, <3>3, StaysServed
  <2>3. CASE ~(request.window.start < request.window.end /\ line)
    <3>1. request.kind = "oee"
      BY <2>1, <2>3 DEF Served, BeginsItsShift
    <3>2. request' = [pc |-> "answered", kind |-> "oee", window |-> None, source |-> None,
                      shift |-> None, counted |-> None, events |-> None,
                      answer |-> [status |-> 404, at |-> "line"]]
      <4>1. Refuse(404)
        BY <1>5, <2>3, <3>1 DEF ReadLine
      <4>2. QED
        BY <2>1, <3>1, <4>1 DEF Refuse, Answer, Idle
    <3>3. QED
      BY <3>2 DEF RequestInv, WindowIsTheShiftSoFar, Loading, IsRequest
  <2>4. QED
    BY <2>2, <2>3
<1>6. CASE CountDowntime
  <2> DEFINE n == Cardinality(DowntimeFilter(request.window, request.source))
  <2>1. request.pc = "count" /\ Served(request) /\ UNCHANGED rows
    BY <1>6 DEF CountDowntime, RequestInv, Loading
  <2>2. request' = [request EXCEPT !.pc = "limit", !.counted = n]
    BY <1>6 DEF CountDowntime
  <2> HIDE DEF n
  <2>3. request' = [pc |-> "limit", kind |-> request.kind, window |-> request.window,
                    source |-> request.source, shift |-> request.shift,
                    counted |-> n, events |-> request.events,
                    answer |-> request.answer]
    BY <2>2 DEF RequestInv, IsRequest
  <2>4. IsRequest(request') /\ request'.pc \in Loading /\ request.pc \in Loading
    BY <2>1, <2>3 DEF IsRequest, Loading
  <2>5. QED
    BY <2>1, <2>3, <2>4, StaysServed DEF Served
<1>7. CASE CountProduction
  <2>1. request.pc = "limit" /\ Served(request) /\ UNCHANGED rows
    BY <1>7 DEF CountProduction, RequestInv, Loading
  <2>2. CASE request' = [request EXCEPT !.pc = "load"]
    <3>1. request' = [pc |-> "load", kind |-> request.kind, window |-> request.window,
                      source |-> request.source, shift |-> request.shift,
                      counted |-> request.counted, events |-> request.events,
                      answer |-> request.answer]
      BY <2>2 DEF RequestInv, IsRequest
    <3>2. IsRequest(request') /\ request'.pc \in Loading /\ request.pc \in Loading
      BY <2>1, <3>1 DEF IsRequest, Loading
    <3>3. QED
      BY <2>1, <3>1, <3>2, StaysServed DEF Served
  <2>3. CASE Refuse(IF request.kind = "oee" THEN 422 ELSE 503)
    BY <2>1, <2>3, RefusalsSayWhere
  <2>4. QED
    BY <1>7, <2>2, <2>3 DEF CountProduction
<1>8. CASE LoadDowntime
  <2> DEFINE es == DowntimeFilter(request.window, request.source)
  <2>1. request.pc = "load" /\ Served(request) /\ UNCHANGED rows
    BY <1>8 DEF LoadDowntime, RequestInv, Loading
  <2>2. request' = [request EXCEPT !.pc = "loaded", !.events = es]
    BY <1>8 DEF LoadDowntime
  <2> HIDE DEF es
  <2>3. request' = [pc |-> "loaded", kind |-> request.kind, window |-> request.window,
                    source |-> request.source, shift |-> request.shift,
                    counted |-> request.counted, events |-> es,
                    answer |-> request.answer]
    BY <2>2 DEF RequestInv, IsRequest
  <2>4. IsRequest(request') /\ request'.pc \in Loading /\ request.pc \in Loading
    BY <2>1, <2>3 DEF IsRequest, Loading
  <2>5. QED
    BY <2>1, <2>3, <2>4, StaysServed DEF Served
<1>9. CASE LoadProduction
  <2>1. request.pc = "loaded" /\ Served(request) /\ UNCHANGED rows
    BY <1>9 DEF LoadProduction, RequestInv, Loading
  <2>2. PICK a : AnswerIs(a)
    BY <1>9, Answering
  <2>3. /\ IsRequest(request') /\ request'.pc = "answered" /\ request'.kind = request.kind
        /\ request'.answer = a
    BY <2>2 DEF AnswerIs, IsRequest
  <2>4. ASSUME request.kind = "overview"
        PROVE  /\ a.status = 200 /\ a.window = request.window
               /\ a.overview.shift = request.shift
    BY <2>2, <2>4 DEF AnswerIs, Overview
  <2>5. WindowIsTheShiftSoFar'
    BY <2>1, <2>3, <2>4 DEF WindowIsTheShiftSoFar, Served, BeginsItsShift, HasData, rows
  <2>6. QED
    BY <2>3, <2>5 DEF RequestInv, Loading, IsRequest
<1>10. QED
  BY <1>1, <1>2, <1>3, <1>4, <1>5, <1>6, <1>7, <1>8, <1>9, StepsOfRows DEF Next, vars,
     StoreRecord, StoreEvent, CorrectEvent, CreateLine

(* The overview's window ends with the last instant there are data for, and *)
(* is the part so far of that instant's shift. An overview that found data  *)
(* is answered, unless there are too many rows.                             *)
THEOREM OverviewsShowTheShift == Spec => []WindowIsTheShiftSoFar
<1>1. Init => RequestInv
  BY DEF Init, RequestInv, WindowIsTheShiftSoFar, Idle, IsRequest, Loading
<1>2. RequestInv => WindowIsTheShiftSoFar
  BY DEF RequestInv
<1>3. QED
  BY <1>1, <1>2, RowsInvHolds, RequestInvStep, PTL DEF Spec

-----------------------------------------------------------------------------
(* Sums. Over natural numbers a sum is a number of elements: g[x] for each *)
(* x. So it does not depend on the order, and more elements are more.       *)

Units(g, T) == UNION {{x} \X (1..g[x]) : x \in T}

Weight(g, T) == Cardinality(Units(g, T))

Choice(s) == CHOOSE x \in s : TRUE

IsIter(it, g, S) ==
  it = [s \in SUBSET S |-> IF s = {} THEN 0 ELSE g[Choice(s)] + it[s \ {Choice(s)}]]

LEMMA UnitsAreFinite ==
  ASSUME NEW T, IsFiniteSet(T), NEW g, \A x \in T : g[x] \in Nat
  PROVE  IsFiniteSet(Units(g, T)) /\ Weight(g, T) \in Nat
<1> DEFINE piece(x) == {x} \X (1..g[x])
           F == {piece(x) : x \in T}
           f == [x \in T |-> piece(x)]
<1>1. ASSUME NEW x \in T PROVE IsFiniteSet(piece(x))
  <2> DEFINE n == g[x]
  <2>1. 1 \in Int /\ n \in Int
    BY <1>1
  <2> HIDE DEF n
  <2>2. IsFiniteSet({x}) /\ IsFiniteSet(1..n)
    BY <2>1, FS_Singleton, FS_Interval
  <2>3. IsFiniteSet({x} \X (1..n))
    BY <2>2, FS_Product
  <2>4. QED
    BY <2>3 DEF n
<1>2. f \in Surjection(T, F)
  BY DEF Surjection
<1>3. \A P \in F : IsFiniteSet(P)
  BY <1>1
<1>4. Units(g, T) = UNION F
  BY DEF Units
<1> HIDE DEF f, F
<1>5. IsFiniteSet(F)
  BY <1>2, FS_Surjection
<1>6. IsFiniteSet(UNION F)
  BY <1>3, <1>5, FS_UNION
<1>7. QED
  BY <1>4, <1>6, FS_CardinalityType DEF Weight

LEMMA UnitsOf ==
  ASSUME NEW T, NEW g, NEW u
  PROVE  u \in Units(g, T) <=> \E x \in T : \E i \in 1..g[x] : u = <<x, i>>
BY DEF Units

LEMMA WeightsGrow ==
  ASSUME NEW S, IsFiniteSet(S), NEW T \in SUBSET S, NEW g, NEW h,
         \A x \in S : h[x] \in Nat, \A x \in T : g[x] \in Nat /\ g[x] <= h[x]
  PROVE  Weight(g, T) <= Weight(h, S)
<1>1. \A x \in T : \A i \in 1..g[x] : i \in 1..h[x]
  OBVIOUS
<1>2. Units(g, T) \in SUBSET Units(h, S)
  BY <1>1, UnitsOf
<1>3. QED
  BY <1>2, UnitsAreFinite, FS_Subset DEF Weight

LEMMA WeightsAdd ==
  ASSUME NEW T, IsFiniteSet(T), NEW g, \A x \in T : g[x] \in Nat, NEW y \in T
  PROVE  Weight(g, T) = g[y] + Weight(g, T \ {y})
<1> DEFINE A == {y} \X (1..g[y])
           B == Units(g, T \ {y})
<1>1. Units(g, T) = A \cup B
  <2>1. \A u : u \in A <=> \E i \in 1..g[y] : u = <<y, i>>
    OBVIOUS
  <2> HIDE DEF A
  <2>2. QED
    BY <2>1, UnitsOf
<1>2. A \cap B = {}
  BY UnitsOf
<1>3. IsFiniteSet(A) /\ Cardinality(A) = g[y]
  <2> DEFINE n == g[y]
  <2>1. 1 \in Int /\ n \in Nat
    OBVIOUS
  <2> HIDE DEF n
  <2>2. IsFiniteSet(1..n) /\ Cardinality(1..n) = IF 1 > n THEN 0 ELSE n - 1 + 1
    BY <2>1, FS_Interval
  <2>3. Cardinality(1..n) = n
    BY <2>1, <2>2
  <2>4. IsFiniteSet({y}) /\ Cardinality({y}) = 1
    BY FS_Singleton
  <2>5. /\ IsFiniteSet({y} \X (1..n))
        /\ Cardinality({y} \X (1..n)) = Cardinality({y}) * Cardinality(1..n)
    BY <2>2, <2>4, FS_Product
  <2>6. Cardinality({y} \X (1..n)) = n
    BY <2>1, <2>3, <2>4, <2>5
  <2>7. QED
    BY <2>5, <2>6 DEF n
<1>4. IsFiniteSet(B) /\ Cardinality(B) \in Nat
  <2>1. IsFiniteSet(T \ {y})
    BY FS_RemoveElement
  <2>2. QED
    BY <2>1, UnitsAreFinite DEF Weight
<1> HIDE DEF A, B
<1>5. Cardinality(A \cup B) = Cardinality(A) + Cardinality(B) - Cardinality(A \cap B)
  BY <1>3, <1>4, FS_Union
<1>6. Cardinality(A \cap B) = 0
  BY <1>2, FS_EmptySet
<1>7. g[y] \in Nat
  OBVIOUS
<1>8. QED
  BY <1>1, <1>3, <1>4, <1>5, <1>6, <1>7 DEF Weight, B

LEMMA NoWeight == ASSUME NEW g PROVE Weight(g, {}) = 0
<1>1. Units(g, {}) = {}
  BY DEF Units
<1>2. QED
  BY <1>1, FS_EmptySet DEF Weight

LEMMA ChoiceIsIn == ASSUME NEW s, s # {} PROVE Choice(s) \in s
BY DEF Choice

(* The folds of the community modules are sums.                            *)
LEMMA WeightsIterate ==
  ASSUME NEW S, IsFiniteSet(S), NEW g, \A x \in S : g[x] \in Nat
  PROVE  IsIter([s \in SUBSET S |-> Weight(g, s)], g, S)
<1> DEFINE it == [s \in SUBSET S |-> Weight(g, s)]
<1>1. ASSUME NEW s \in SUBSET S
      PROVE  it[s] = IF s = {} THEN 0 ELSE g[Choice(s)] + it[s \ {Choice(s)}]
  <2>1. CASE s = {}
    BY <2>1, NoWeight
  <2>2. CASE s # {}
    <3>1. Choice(s) \in s /\ IsFiniteSet(s) /\ s \ {Choice(s)} \in SUBSET S
      BY <2>2, ChoiceIsIn, FS_Subset
    <3>2. Weight(g, s) = g[Choice(s)] + Weight(g, s \ {Choice(s)})
      BY <3>1, WeightsAdd
    <3>3. QED
      BY <2>2, <3>1, <3>2
  <2>3. QED
    BY <2>1, <2>2
<1>2. it = [s \in SUBSET S |-> it[s]]
  OBVIOUS
<1> HIDE DEF it
<1>3. QED
  BY <1>1, <1>2 DEF IsIter, it

LEMMA IteratesAreWeights ==
  ASSUME NEW S, IsFiniteSet(S), NEW g, \A x \in S : g[x] \in Nat, NEW it, IsIter(it, g, S)
  PROVE  it[S] = Weight(g, S)
<1> DEFINE Wrong == {s \in SUBSET S : it[s] # Weight(g, s)}
           T == {Cardinality(s) : s \in Wrong}
           R == OpToRel(<, Nat)
<1>1. \A s \in SUBSET S : IsFiniteSet(s) /\ Cardinality(s) \in Nat
  BY FS_Subset, FS_CardinalityType
<1>2. \A s \in SUBSET S : it[s] = IF s = {} THEN 0 ELSE g[Choice(s)] + it[s \ {Choice(s)}]
  BY DEF IsIter
<1>3. \A i, j \in Nat : i < j <=> <<i, j>> \in R
  BY DEF OpToRel
<1>4. IsWellFoundedOn(R, Nat)
  BY NatLessThanWellFounded DEF OpToRel
<1>5. SUFFICES ASSUME Wrong # {} PROVE FALSE
  OBVIOUS
<1>6. T \subseteq Nat /\ T # {}
  BY <1>1, <1>5
<1>7. /\ \A s \in Wrong : Cardinality(s) \in T
      /\ \A k \in T : \E s \in Wrong : k = Cardinality(s)
  OBVIOUS
<1> HIDE DEF R, T
<1>8. PICK k \in T : \A j \in T : ~(<<j, k>> \in R)
  BY <1>4, <1>6, WFMin
<1>9. PICK s \in Wrong : k = Cardinality(s)
  BY <1>7, <1>8
<1>10. s \in SUBSET S /\ it[s] # Weight(g, s) /\ s # {}
  BY <1>2, <1>9, NoWeight
<1> DEFINE c == Choice(s)
           r == s \ {c}
<1>11. c \in s /\ r \in SUBSET S /\ it[s] = g[c] + it[r]
  BY <1>2, <1>10, ChoiceIsIn
<1>12. Cardinality(r) < Cardinality(s)
  <2>1. IsFiniteSet(s) /\ Cardinality(s) \in Nat
    BY <1>1, <1>10
  <2> HIDE DEF c
  <2>2. Cardinality(r) = Cardinality(s) - 1
    BY <1>11, <2>1, FS_RemoveElement
  <2>3. QED
    BY <2>1, <2>2
<1>13. r \notin Wrong
  <2>1. SUFFICES ASSUME r \in Wrong PROVE FALSE
    OBVIOUS
  <2>2. Cardinality(r) \in T /\ Cardinality(r) \in Nat /\ k \in Nat
    BY <1>1, <1>6, <1>7, <1>8, <1>11, <2>1
  <2>3. QED
    BY <1>3, <1>8, <1>9, <1>12, <2>2
<1>14. it[r] = Weight(g, r)
  BY <1>11, <1>13
<1>15. Weight(g, s) = g[c] + Weight(g, r)
  BY <1>1, <1>10, <1>11, WeightsAdd
<1>16. QED
  BY <1>10, <1>11, <1>14, <1>15

Iter(g, S) == CHOOSE it : IsIter(it, g, S)

LEMMA SumsAreWeights ==
  ASSUME NEW S, IsFiniteSet(S), NEW g, DOMAIN g = S, \A x \in S : g[x] \in Nat
  PROVE  SumFunction(g) = Weight(g, S) /\ Weight(g, S) \in Nat
<1>1. SumFunction(g) = Iter(g, DOMAIN g)[DOMAIN g]
  BY Zenon DEF SumFunction, SumFunctionOnSet, FoldFunctionOnSet, MapThenFoldSet, Iter,
     IsIter, Choice
<1>2. \E it : IsIter(it, g, S)
  BY WeightsIterate
<1>3. IsIter(Iter(g, S), g, S)
  BY <1>2, Zenon DEF Iter
<1>4. Iter(g, S)[S] = Weight(g, S)
  BY <1>3, IteratesAreWeights
<1>5. QED
  BY <1>1, <1>4, UnitsAreFinite

IsRecord(r) == r.total \in Nat /\ r.good \in Nat /\ r.good <= r.total

(* More records have more units, and no more of them good than they have. *)
LEMMA TotalsGrow ==
  ASSUME NEW S, IsFiniteSet(S), \A r \in S : IsRecord(r), NEW T \in SUBSET S
  PROVE  /\ Total(S) \in Nat /\ Total(T) \in Nat /\ Total(T) <= Total(S)
         /\ Good(S) \in Nat /\ Good(T) \in Nat /\ Good(T) <= Good(S)
         /\ Good(S) <= Total(S)
<1> DEFINE total(X) == [r \in X |-> r.total]
           good(X)  == [r \in X |-> r.good]
<1>1. IsFiniteSet(T)
  BY FS_Subset
<1>2. ASSUME NEW X \in {S, T}
      PROVE  /\ Total(X) = Weight(total(X), X) /\ Total(X) \in Nat
             /\ Good(X) = Weight(good(X), X) /\ Good(X) \in Nat
  <2>1. /\ \A x \in X : total(X)[x] \in Nat /\ good(X)[x] \in Nat
        /\ DOMAIN total(X) = X /\ DOMAIN good(X) = X
    BY DEF IsRecord
  <2>2. IsFiniteSet(X)
    BY <1>1
  <2>3. Total(X) = SumFunction(total(X)) /\ Good(X) = SumFunction(good(X))
    BY DEF Total, Good
  <2> HIDE DEF total, good
  <2>4. SumFunction(total(X)) = Weight(total(X), X) /\ Weight(total(X), X) \in Nat
    BY <2>1, <2>2, SumsAreWeights
  <2>5. SumFunction(good(X)) = Weight(good(X), X) /\ Weight(good(X), X) \in Nat
    BY <2>1, <2>2, SumsAreWeights
  <2>6. QED
    BY <2>3, <2>4, <2>5
<1>3. /\ \A x \in S : total(S)[x] \in Nat /\ good(S)[x] \in Nat /\ good(S)[x] <= total(S)[x]
      /\ \A x \in T : /\ total(T)[x] \in Nat /\ total(T)[x] <= total(S)[x]
                      /\ good(T)[x] \in Nat /\ good(T)[x] <= good(S)[x]
  BY DEF IsRecord
<1> HIDE DEF total, good
<1>4. Weight(total(T), T) <= Weight(total(S), S)
  BY <1>3, WeightsGrow
<1>5. Weight(good(T), T) <= Weight(good(S), S)
  BY <1>3, WeightsGrow
<1>6. Weight(good(S), S) <= Weight(total(S), S)
  <2>1. S \in SUBSET S
    OBVIOUS
  <2>2. QED
    BY <1>3, <2>1, WeightsGrow
<1>7. QED
  BY <1>2, <1>4, <1>5, <1>6

-----------------------------------------------------------------------------
(* Whole seconds in a set of instants. *)

Bounded(T) == \E a, b \in Int : T \subseteq a..b

LEMMA BoundedSets ==
  ASSUME NEW T, Bounded(T)
  PROVE  T \subseteq Int /\ IsFiniteSet(T) /\ Cardinality(T) \in Nat
<1>1. PICK a \in Int, b \in Int : T \subseteq a..b
  BY DEF Bounded
<1>2. IsFiniteSet(a..b) /\ a..b \subseteq Int
  BY FS_Interval
<1>3. QED
  BY <1>1, <1>2, FS_Subset, FS_CardinalityType

LEMMA LeastOf ==
  ASSUME NEW S \in SUBSET Nat, S # {} PROVE \E k \in S : \A j \in S : k <= j
<1> DEFINE R == OpToRel(<, Nat)
<1>1. \A i, j \in Nat : i < j <=> <<i, j>> \in R
  BY DEF OpToRel
<1>2. IsWellFoundedOn(R, Nat)
  BY NatLessThanWellFounded DEF OpToRel
<1> HIDE DEF R
<1>3. PICK k \in S : \A j \in S : ~(<<j, k>> \in R)
  BY <1>2, WFMin
<1>4. \A j \in S : ~(j < k)
  BY <1>1, <1>3
<1>5. QED
  BY <1>4

(* A number of ticks and its seconds. *)
LEMMA Quotients ==
  ASSUME NEW n \in Nat
  PROVE  \E q, p \in Nat, r \in 0..(TicksPerSecond - 1) :
            q = n \div TicksPerSecond /\ p = q * TicksPerSecond /\ n = p + r
<1>1. TicksPerSecond \in Nat \ {0}
  BY ConstantFacts
<1>2. /\ n \div TicksPerSecond \in Nat /\ n % TicksPerSecond \in 0..(TicksPerSecond - 1)
      /\ n = (n \div TicksPerSecond) * TicksPerSecond + (n % TicksPerSecond)
  BY <1>1
<1>3. (n \div TicksPerSecond) * TicksPerSecond \in Nat
  BY <1>1, <1>2
<1>4. QED
  BY <1>2, <1>3

LEMMA SecondsAscend ==
  ASSUME NEW m \in Nat, NEW n \in Nat
  PROVE  /\ m * TicksPerSecond \in Nat /\ n * TicksPerSecond \in Nat
         /\ m < n => m * TicksPerSecond + TicksPerSecond <= n * TicksPerSecond
         /\ m <= n => m * TicksPerSecond <= n * TicksPerSecond
         /\ (m + n) * TicksPerSecond = m * TicksPerSecond + n * TicksPerSecond
<1>1. TicksPerSecond \in Nat
  BY ConstantFacts
<1>2. m * TicksPerSecond \in Nat /\ n * TicksPerSecond \in Nat
  BY <1>1
<1>3. ASSUME m < n
      PROVE  m * TicksPerSecond + TicksPerSecond <= n * TicksPerSecond
  <2>1. PICK d \in Nat : n = m + 1 + d
    <3>1. n - m - 1 \in Nat /\ n = m + 1 + (n - m - 1)
      BY <1>3
    <3>2. QED
      BY <3>1
  <2>2. n * TicksPerSecond = m * TicksPerSecond + TicksPerSecond + d * TicksPerSecond
    BY <1>1, <2>1
  <2>3. d * TicksPerSecond \in Nat
    BY <1>1
  <2>4. QED
    BY <1>1, <1>2, <2>2, <2>3
<1>4. ASSUME m <= n PROVE m * TicksPerSecond <= n * TicksPerSecond
  <2>1. m = n \/ m < n
    BY <1>4
  <2>2. QED
    BY <1>1, <1>2, <1>3, <2>1
<1>5. (m + n) * TicksPerSecond = m * TicksPerSecond + n * TicksPerSecond
  BY <1>1
<1>6. QED
  BY <1>2, <1>3, <1>4, <1>5

LEMMA StretchFacts ==
  ASSUME NEW T, T \subseteq Int, NEW i \in Stretches(T)
  PROVE  /\ i.start \in Int /\ i.end \in Int /\ i.start < i.end
         /\ i.start \in T /\ i.start - 1 \notin T /\ i.end \notin T
         /\ Instants(i) \subseteq T
         /\ i = [start |-> i.start, end |-> i.end]
         /\ i.end - i.start \in Nat
<1>1. /\ i \in [start : {t \in T : t - 1 \notin T}, end : {t + 1 : t \in T} \ T]
      /\ i.start < i.end /\ Instants(i) \subseteq T
  BY DEF Stretches
<1>2. i.start \in {t \in T : t - 1 \notin T} /\ i.end \in {t + 1 : t \in T} \ T
      /\ i = [start |-> i.start, end |-> i.end]
  BY <1>1
<1>3. i.start \in Int /\ i.end \in Int
  BY <1>2
<1>4. QED
  BY <1>1, <1>2, <1>3

(* Every instant is in one stretch, and only in one. *)
LEMMA StretchOf ==
  ASSUME NEW T, Bounded(T), NEW t \in T
  PROVE  \E i \in Stretches(T) : t \in Instants(i)
<1>1. PICK a \in Int, b \in Int : T \subseteq a..b
  BY DEF Bounded
<1>2. t \in Int /\ a <= t /\ t <= b
  BY <1>1
<1> DEFINE Below == {n \in Nat : t - n \notin T}
           Above == {n \in Nat : t + n \notin T}
<1>3. PICK k \in Below : \A n \in Below : k <= n
  <2>1. t - a + 1 \in Below
    <3>1. t - a + 1 \in Nat /\ t - (t - a + 1) = a - 1
      BY <1>2
    <3>2. a - 1 \notin T
      BY <1>1
    <3>3. QED
      BY <3>1, <3>2
  <2>2. Below \in SUBSET Nat /\ Below # {}
    BY <2>1
  <2> HIDE DEF Below
  <2>3. QED
    BY <2>2, LeastOf
<1>4. PICK m \in Above : \A n \in Above : m <= n
  <2>1. b - t + 1 \in Above
    <3>1. b - t + 1 \in Nat /\ t + (b - t + 1) = b + 1
      BY <1>2
    <3>2. b + 1 \notin T
      BY <1>1
    <3>3. QED
      BY <3>1, <3>2
  <2>2. Above \in SUBSET Nat /\ Above # {}
    BY <2>1
  <2> HIDE DEF Above
  <2>3. QED
    BY <2>2, LeastOf
<1>5. k \in Nat /\ m \in Nat /\ k >= 1 /\ m >= 1 /\ t - k \notin T /\ t + m \notin T
  <2>1. k \in Nat /\ m \in Nat /\ t - k \notin T /\ t + m \notin T
    OBVIOUS
  <2>2. t - 0 = t /\ t + 0 = t
    BY <1>2
  <2>3. QED
    BY <2>1, <2>2
<1>6. ASSUME NEW x \in Int, t - k < x, x < t + m PROVE x \in T
  <2>1. CASE x <= t
    <3>1. t - x \in Nat /\ t - x < k /\ t - (t - x) = x
      BY <1>2, <1>5, <1>6, <2>1
    <3>2. t - x \notin Below
      BY <1>3, <1>5, <3>1
    <3>3. QED
      BY <3>1, <3>2
  <2>2. CASE x > t
    <3>1. x - t \in Nat /\ x - t < m /\ t + (x - t) = x
      BY <1>2, <1>5, <1>6, <2>2
    <3>2. x - t \notin Above
      BY <1>4, <1>5, <3>1
    <3>3. QED
      BY <3>1, <3>2
  <2>3. QED
    BY <1>2, <1>6, <2>1, <2>2
<1> HIDE DEF Below, Above
<1> DEFINE s == t - k + 1
           e == t + m
           i == [start |-> s, end |-> e]
<1>7. /\ s \in Int /\ e \in Int /\ s <= t /\ t < e /\ s - 1 = t - k /\ e - 1 \in Int
      /\ \A x \in s..(e - 1) : t - k < x /\ x < t + m
  BY <1>2, <1>5
<1>8. s \in T /\ s - 1 \notin T /\ e - 1 \in T /\ e \notin T /\ s..(e - 1) \subseteq T
      /\ e = (e - 1) + 1 /\ t \in s..(e - 1)
  BY <1>2, <1>5, <1>6, <1>7
<1>9. i.start = s /\ i.end = e
  OBVIOUS
<1>10. i \in [start : {x \in T : x - 1 \notin T}, end : {x + 1 : x \in T} \ T]
  <2> HIDE DEF s, e
  <2>1. s \in {x \in T : x - 1 \notin T} /\ e \in {x + 1 : x \in T} \ T
    BY <1>8
  <2>2. QED
    BY <2>1
<1> HIDE DEF i
<1>11. Instants(i) = s..(e - 1)
  BY <1>9 DEF Instants
<1>12. i \in Stretches(T)
  BY <1>7, <1>8, <1>9, <1>10, <1>11 DEF Stretches
<1>13. QED
  BY <1>8, <1>11, <1>12

LEMMA StretchesApart ==
  ASSUME NEW T, T \subseteq Int, NEW i \in Stretches(T), NEW j \in Stretches(T),
         NEW t \in Instants(i), t \in Instants(j)
  PROVE  i = j
<1>1. /\ i.start \in Int /\ i.end \in Int /\ j.start \in Int /\ j.end \in Int
      /\ i.start - 1 \notin T /\ i.end \notin T /\ j.start - 1 \notin T /\ j.end \notin T
      /\ i.start..(i.end - 1) \subseteq T /\ j.start..(j.end - 1) \subseteq T
      /\ t \in i.start..(i.end - 1) /\ t \in j.start..(j.end - 1)
  BY StretchFacts DEF Instants
<1>2. i.start = j.start
  <2>1. ~(i.start < j.start)
    <3>1. i.start < j.start => j.start - 1 \in i.start..(i.end - 1)
      BY <1>1
    <3>2. QED
      BY <1>1, <3>1
  <2>2. ~(j.start < i.start)
    <3>1. j.start < i.start => i.start - 1 \in j.start..(j.end - 1)
      BY <1>1
    <3>2. QED
      BY <1>1, <3>1
  <2>3. QED
    BY <1>1, <2>1, <2>2
<1>3. i.end = j.end
  <2>1. ~(i.end < j.end)
    <3>1. i.end < j.end => i.end \in j.start..(j.end - 1)
      BY <1>1
    <3>2. QED
      BY <1>1, <3>1
  <2>2. ~(j.end < i.end)
    <3>1. j.end < i.end => j.end \in i.start..(i.end - 1)
      BY <1>1
    <3>2. QED
      BY <1>1, <3>1
  <2>3. QED
    BY <1>1, <2>1, <2>2
<1>4. i = [start |-> i.start, end |-> i.end] /\ j = [start |-> j.start, end |-> j.end]
  BY StretchFacts
<1>5. QED
  BY <1>2, <1>3, <1>4

LEMMA StretchesAreFinite ==
  ASSUME NEW T, Bounded(T)
  PROVE  IsFiniteSet(Stretches(T)) /\ Cardinality(Stretches(T)) \in Nat
<1> DEFINE f == [i \in Stretches(T) |-> i.start]
<1>1. IsFiniteSet(T) /\ T \subseteq Int
  BY BoundedSets
<1>2. \A i, j \in Stretches(T) : i.start = j.start => i = j
  <2>1. \A i \in Stretches(T) : i.start \in Instants(i)
    BY <1>1, StretchFacts DEF Instants
  <2>2. QED
    BY <1>1, <2>1, StretchesApart
<1>3. \A i \in Stretches(T) : i.start \in T
  BY <1>1, StretchFacts
<1>4. f \in Injection(Stretches(T), T)
  BY <1>2, <1>3 DEF Injection, IsInjective
<1> HIDE DEF f
<1>5. QED
  BY <1>1, <1>4, FS_Injection, FS_CardinalityType

Cuts(T)    == [i \in Stretches(T) |-> Seconds(i)]
Lengths(T) == [i \in Stretches(T) |-> i.end - i.start]

LEMMA SecondsAreWeights ==
  ASSUME NEW T, Bounded(T)
  PROVE  /\ \A i \in Stretches(T) : /\ Cuts(T)[i] \in Nat /\ Lengths(T)[i] \in Nat
                                    /\ Cuts(T)[i] = Lengths(T)[i] \div TicksPerSecond
         /\ SecondsOf(T) = Weight(Cuts(T), Stretches(T)) /\ SecondsOf(T) \in Nat
         /\ Weight(Lengths(T), Stretches(T)) \in Nat
<1>1. T \subseteq Int /\ IsFiniteSet(Stretches(T))
  BY BoundedSets, StretchesAreFinite
<1>2. ASSUME NEW i \in Stretches(T)
      PROVE  /\ Cuts(T)[i] \in Nat /\ Lengths(T)[i] \in Nat
             /\ Cuts(T)[i] = Lengths(T)[i] \div TicksPerSecond
  <2>1. /\ Lengths(T)[i] = i.end - i.start /\ i.end - i.start \in Nat
        /\ Cuts(T)[i] = (i.end - i.start) \div TicksPerSecond
    BY <1>1, StretchFacts DEF Cuts, Lengths, Seconds
  <2> DEFINE n == i.end - i.start
  <2>2. n \in Nat
    BY <2>1
  <2> HIDE DEF n
  <2>3. n \div TicksPerSecond \in Nat
    BY <2>2, Quotients
  <2>4. QED
    BY <2>1, <2>3 DEF n
<1>3. SecondsOf(T) = SumFunction(Cuts(T)) /\ DOMAIN Cuts(T) = Stretches(T)
  BY DEF SecondsOf, Cuts
<1>4. SecondsOf(T) = Weight(Cuts(T), Stretches(T)) /\ SecondsOf(T) \in Nat
  BY <1>1, <1>2, <1>3, SumsAreWeights
<1>5. Weight(Lengths(T), Stretches(T)) \in Nat
  BY <1>1, <1>2, UnitsAreFinite
<1>6. QED
  BY <1>2, <1>4, <1>5

(* An interval is its only stretch. *)
LEMMA SecondsOfIntervals ==
  ASSUME NEW w, w.start \in Int, w.end \in Int, w.start < w.end
  PROVE  SecondsOf(Instants(w)) = Seconds(w)
<1> DEFINE T == Instants(w)
           i == [start |-> w.start, end |-> w.end]
<1>1. T = w.start..(w.end - 1) /\ Bounded(T)
  <2>1. w.end - 1 \in Int
    OBVIOUS
  <2>2. QED
    BY <2>1 DEF Instants, Bounded
<1>2. T \subseteq Int /\ \A t \in Int : t \in T <=> w.start <= t /\ t < w.end
  BY <1>1
<1>3. w.start \in T
  BY <1>2
<1>4. i.start = w.start /\ i.end = w.end
  OBVIOUS
<1> HIDE DEF T
<1>5. ASSUME NEW j \in Stretches(T) PROVE j = i
  <2>1. /\ j.start \in Int /\ j.end \in Int /\ j.start < j.end
        /\ j.start \in T /\ j.start - 1 \notin T /\ j.end \notin T
        /\ j.start..(j.end - 1) \subseteq T
        /\ j = [start |-> j.start, end |-> j.end]
    BY <1>2, StretchFacts DEF Instants
  <2>2. j.end - 1 \in j.start..(j.end - 1)
    BY <2>1
  <2>3. j.start = w.start /\ j.end = w.end
    BY <1>2, <2>1, <2>2
  <2>4. QED
    BY <2>1, <2>3
<1>6. PICK j \in Stretches(T) : w.start \in Instants(j)
  BY <1>1, <1>3, StretchOf
<1>7. Stretches(T) = {i} /\ i \in Stretches(T)
  BY <1>5, <1>6
<1> DEFINE g == Cuts(T)
<1>8. g[i] = Seconds(w)
  BY <1>4, <1>7 DEF Cuts, Seconds
<1>9. IsFiniteSet({i}) /\ {i} \ {i} = {}
  BY FS_Singleton
<1>10. \A x \in {i} : g[x] \in Nat
  BY <1>1, <1>7, SecondsAreWeights
<1>11. SecondsOf(T) = Weight(g, {i})
  BY <1>1, <1>7, SecondsAreWeights
<1> HIDE DEF i, g
<1>12. Weight(g, {i}) = g[i] + Weight(g, {i} \ {i})
  BY <1>9, <1>10, WeightsAdd
<1>13. Weight(g, {i} \ {i}) = 0
  BY <1>9, NoWeight
<1>14. QED
  BY <1>8, <1>10, <1>11, <1>12, <1>13 DEF T

(* The last instant of a whole second, the u[2]th of its stretch u[1].       *)
Mark(u) == u[1].start + u[2] * TicksPerSecond - 1

Whole(T) == Units(Cuts(T), Stretches(T))

LEMMA SecondsLieInStretches ==
  ASSUME NEW T, Bounded(T), NEW u \in Whole(T)
  PROVE  /\ u[1] \in Stretches(T) /\ u[2] \in Nat /\ u = <<u[1], u[2]>>
         /\ Mark(u) \in Int
         /\ u[1].start <= Mark(u) - TicksPerSecond + 1 /\ Mark(u) < u[1].end
<1>0. PICK i \in Stretches(T) : \E m \in 1..Cuts(T)[i] : u = <<i, m>>
  BY UnitsOf DEF Whole
<1>1. PICK m \in 1..Cuts(T)[i] : u = <<i, m>>
  BY <1>0
<1>2. u[1] = i /\ u[2] = m
  BY <1>1
<1>3. /\ i.start \in Int /\ i.end \in Int /\ i.end - i.start \in Nat
  BY BoundedSets, StretchFacts
<1>4. Cuts(T)[i] = (i.end - i.start) \div TicksPerSecond
  BY DEF Cuts, Seconds
<1> DEFINE n == i.end - i.start
<1>5. n \in Nat
  BY <1>3
<1> HIDE DEF n
<1>6. PICK q \in Nat, p \in Nat, r \in 0..(TicksPerSecond - 1) :
        q = n \div TicksPerSecond /\ p = q * TicksPerSecond /\ n = p + r
  BY <1>5, Quotients
<1>7. m \in Nat /\ 1 <= m /\ m <= q
  BY <1>4, <1>6 DEF n
<1>8. PICK k \in Nat : k = m * TicksPerSecond
  BY <1>7, SecondsAscend
<1>9. k <= p
  BY <1>6, <1>7, <1>8, SecondsAscend
<1>10. TicksPerSecond <= k
  <2>1. 1 * TicksPerSecond = TicksPerSecond /\ 1 \in Nat
    BY ConstantFacts
  <2>2. QED
    BY <1>7, <1>8, <2>1, SecondsAscend
<1>11. TicksPerSecond \in Nat
  BY ConstantFacts
<1>12. Mark(u) = i.start + k - 1
  BY <1>2, <1>8 DEF Mark
<1>13. k <= i.end - i.start
  BY <1>5, <1>6, <1>8, <1>9, <1>11 DEF n
<1>14. QED
  BY <1>1, <1>2, <1>3, <1>7, <1>8, <1>10, <1>11, <1>12, <1>13

(* Two of them do not overlap. *)
LEMMA SecondsDoNotOverlap ==
  ASSUME NEW T, Bounded(T), NEW u \in Whole(T), NEW v \in Whole(T),
         Mark(v) - TicksPerSecond < Mark(u), Mark(u) <= Mark(v)
  PROVE  u = v
<1>1. /\ u[1] \in Stretches(T) /\ u[2] \in Nat /\ u = <<u[1], u[2]>>
      /\ Mark(u) \in Int
      /\ u[1].start <= Mark(u) - TicksPerSecond + 1 /\ Mark(u) < u[1].end
  BY SecondsLieInStretches
<1>2. /\ v[1] \in Stretches(T) /\ v[2] \in Nat /\ v = <<v[1], v[2]>>
      /\ Mark(v) \in Int
      /\ v[1].start <= Mark(v) - TicksPerSecond + 1 /\ Mark(v) < v[1].end
  BY SecondsLieInStretches
<1>3. TicksPerSecond \in Nat /\ TicksPerSecond > 0 /\ T \subseteq Int
  BY ConstantFacts, BoundedSets
<1>4. /\ u[1].start \in Int /\ u[1].end \in Int /\ v[1].start \in Int /\ v[1].end \in Int
  BY <1>1, <1>2, <1>3, StretchFacts
<1>5. Mark(u) \in Instants(u[1]) /\ Mark(u) \in Instants(v[1])
  BY <1>1, <1>2, <1>3, <1>4 DEF Instants
<1>6. u[1] = v[1]
  BY <1>1, <1>2, <1>3, <1>5, StretchesApart
<1>7. PICK k \in Nat, m \in Nat : k = u[2] * TicksPerSecond /\ m = v[2] * TicksPerSecond
  BY <1>1, <1>2, SecondsAscend
<1>8. Mark(u) = u[1].start + k - 1 /\ Mark(v) = u[1].start + m - 1
  BY <1>6, <1>7 DEF Mark
<1>9. /\ u[2] < v[2] => k + TicksPerSecond <= m
      /\ v[2] < u[2] => m + TicksPerSecond <= k
  BY <1>1, <1>2, <1>7, SecondsAscend
<1>10. ~(k + TicksPerSecond <= m) /\ ~(m + TicksPerSecond <= k)
  BY <1>3, <1>4, <1>7, <1>8
<1>11. u[2] = v[2]
  BY <1>1, <1>2, <1>9, <1>10
<1>12. QED
  BY <1>1, <1>2, <1>6, <1>11

(* Any second's time within a stretch holds the end of a whole second of it. *)
LEMMA SomeSecondEnds ==
  ASSUME NEW T, Bounded(T), NEW c \in Stretches(T), NEW x \in Int,
         c.start <= x - TicksPerSecond + 1, x < c.end
  PROVE  \E v \in Whole(T) : x - TicksPerSecond < Mark(v) /\ Mark(v) <= x
<1>1. /\ c.start \in Int /\ c.end \in Int /\ c.end - c.start \in Nat
      /\ TicksPerSecond \in Nat /\ TicksPerSecond > 0
  BY BoundedSets, StretchFacts, ConstantFacts
<1> DEFINE n == c.end - c.start
           y == x + 1 - c.start
<1>2. n \in Nat /\ y \in Nat /\ y <= n /\ TicksPerSecond <= y
  BY <1>1
<1>3. c.start + y = x + 1
  BY <1>1
<1>4. Cuts(T)[c] = n \div TicksPerSecond
  BY DEF Cuts, Seconds
<1> HIDE DEF n, y
<1>5. PICK q \in Nat, p \in Nat, r \in 0..(TicksPerSecond - 1) :
        q = n \div TicksPerSecond /\ p = q * TicksPerSecond /\ n = p + r
  BY <1>2, Quotients
<1>6. PICK m \in Nat, k \in Nat, s \in 0..(TicksPerSecond - 1) :
        m = y \div TicksPerSecond /\ k = m * TicksPerSecond /\ y = k + s
  BY <1>2, Quotients
<1>7. m <= q
  <2>1. q < m => p + TicksPerSecond <= k
    BY <1>5, <1>6, SecondsAscend
  <2>2. ~(p + TicksPerSecond <= k)
    BY <1>1, <1>2, <1>5, <1>6
  <2>3. QED
    BY <1>5, <1>6, <2>1, <2>2
<1>8. 1 <= m
  <2>1. m = 0 => k = 0
    BY <1>1, <1>6
  <2>2. QED
    BY <1>1, <1>2, <1>6, <2>1
<1> DEFINE v == <<c, m>>
<1>9. v \in Whole(T)
  <2>1. m \in 1..Cuts(T)[c]
    BY <1>4, <1>5, <1>6, <1>7, <1>8
  <2>2. QED
    BY <2>1, UnitsOf DEF Whole
<1>10. Mark(v) = c.start + k - 1
  BY <1>6 DEF Mark
<1> HIDE DEF v
<1>11. c.start + k - 1 = x - s
  BY <1>1, <1>3, <1>6
<1>12. x - TicksPerSecond < x - s /\ x - s <= x
  BY <1>1, <1>6
<1>13. QED
  BY <1>9, <1>10, <1>11, <1>12

(* The seconds of sets that have nothing in common fit into any set that has *)
(* both. *)
LEMMA SecondsFit ==
  ASSUME NEW C, Bounded(C), NEW A \in SUBSET C, NEW B \in SUBSET C, A \intersect B = {}
  PROVE  /\ SecondsOf(A) + SecondsOf(B) <= SecondsOf(C)
         /\ SecondsOf(A) \in Nat /\ SecondsOf(B) \in Nat /\ SecondsOf(C) \in Nat
<1>1. Bounded(A) /\ Bounded(B) /\ C \subseteq Int
  <2>1. PICK a \in Int, b \in Int : C \subseteq a..b
    BY DEF Bounded
  <2>2. A \subseteq a..b /\ B \subseteq a..b
    BY <2>1
  <2>3. QED
    BY <2>2, BoundedSets DEF Bounded
<1>2. ASSUME NEW T \in {A, B, C}
      PROVE  /\ SecondsOf(T) \in Nat /\ SecondsOf(T) = Cardinality(Whole(T))
             /\ IsFiniteSet(Whole(T))
  <2>1. Bounded(T)
    BY <1>1
  <2>2. \A i \in Stretches(T) : Cuts(T)[i] \in Nat
    BY <2>1, SecondsAreWeights
  <2>3. IsFiniteSet(Whole(T))
    BY <2>1, <2>2, StretchesAreFinite, UnitsAreFinite DEF Whole
  <2>4. SecondsOf(T) \in Nat /\ SecondsOf(T) = Cardinality(Whole(T))
    BY <2>1, SecondsAreWeights DEF Whole, Weight
  <2>5. QED
    BY <2>3, <2>4
<1> DEFINE U == Whole(A) \union Whole(B)
           Ends(u, v) == Mark(u) - TicksPerSecond < Mark(v) /\ Mark(v) <= Mark(u)
           h == [u \in U |-> CHOOSE v \in Whole(C) : Ends(u, v)]
<1>3. \A T \in {A, B} : \A u \in Whole(T) :
        /\ u[1] \in Stretches(T) /\ Mark(u) \in Int
        /\ u[1].start <= Mark(u) - TicksPerSecond + 1 /\ Mark(u) < u[1].end
        /\ u[1].start \in Int /\ u[1].end \in Int
        /\ u[1].start..(u[1].end - 1) \subseteq T
  BY <1>1, SecondsLieInStretches, StretchFacts DEF Instants
<1>4. TicksPerSecond \in Nat /\ TicksPerSecond > 0
  BY ConstantFacts
<1>5. ASSUME NEW T \in {A, B}, NEW u \in Whole(T) PROVE \E v \in Whole(C) : Ends(u, v)
  <2>1. PICK i \in Stretches(T) : i = u[1]
    BY <1>3
  <2>2. /\ i.start \in Int /\ i.end \in Int /\ i.start < i.end
        /\ i.start..(i.end - 1) \subseteq C /\ i.start \in C
    BY <1>1, <2>1, StretchFacts DEF Instants
  <2>3. PICK c \in Stretches(C) : i.start \in Instants(c)
    BY <1>1, <2>2, StretchOf
  <2>4. c.start \in Int /\ c.end \in Int /\ c.end \notin C /\ c.start <= i.start
        /\ i.start < c.end
    BY <1>1, <2>3, StretchFacts DEF Instants
  <2>5. i.end <= c.end
    <3>1. c.end < i.end => c.end \in i.start..(i.end - 1)
      BY <2>2, <2>4
    <3>2. QED
      BY <2>2, <2>4, <3>1
  <2>6. /\ Mark(u) \in Int /\ c.start <= Mark(u) - TicksPerSecond + 1 /\ Mark(u) < c.end
    BY <1>3, <1>4, <2>1, <2>2, <2>4, <2>5
  <2>7. QED
    BY <1>1, <2>6, SomeSecondEnds
<1>6. \A u \in U : h[u] \in Whole(C) /\ Ends(u, h[u])
  BY <1>5
<1> HIDE DEF h
<1>7. ASSUME NEW T \in {A, B}, NEW S \in {A, B}, NEW u \in Whole(T), NEW v \in Whole(S),
             Mark(v) - TicksPerSecond < Mark(u), Mark(u) <= Mark(v)
      PROVE  u = v
  <2>1. Mark(u) \in T /\ Mark(u) \in S
    <3>1. Mark(u) \in u[1].start..(u[1].end - 1) /\ Mark(u) \in v[1].start..(v[1].end - 1)
      BY <1>3, <1>4, <1>7
    <3>2. QED
      BY <1>3, <3>1
  <2>2. T = S
    BY <2>1
  <2>3. QED
    BY <1>1, <1>7, <2>2, SecondsDoNotOverlap
<1>8. ASSUME NEW u \in U, NEW v \in U, h[u] = h[v] PROVE u = v
  <2>1. PICK z : z = Mark(h[u])
    OBVIOUS
  <2>2. /\ Mark(u) - TicksPerSecond < z /\ z <= Mark(u)
        /\ Mark(v) - TicksPerSecond < z /\ z <= Mark(v)
    BY <1>6, <1>8, <2>1
  <2>3. z \in Int /\ Mark(u) \in Int /\ Mark(v) \in Int
    BY <1>1, <1>3, <1>6, <2>1, SecondsLieInStretches
  <2>4. \/ Mark(v) - TicksPerSecond < Mark(u) /\ Mark(u) <= Mark(v)
        \/ Mark(u) - TicksPerSecond < Mark(v) /\ Mark(v) <= Mark(u)
    BY <1>4, <2>2, <2>3
  <2>5. QED
    BY <1>7, <2>4
<1>9. h \in Injection(U, Whole(C))
  <2>1. h = [u \in U |-> h[u]]
    BY DEF h
  <2>2. QED
    BY <1>6, <1>8, <2>1 DEF Injection, IsInjective
<1>10. Whole(A) \intersect Whole(B) = {}
  <2>1. ASSUME NEW u \in Whole(A), u \in Whole(B) PROVE FALSE
    <3>1. Mark(u) \in A /\ Mark(u) \in B
      <4>1. Mark(u) \in u[1].start..(u[1].end - 1)
        BY <1>3, <1>4
      <4>2. QED
        BY <1>3, <2>1, <4>1
    <3>2. QED
      BY <3>1
  <2>2. QED
    BY <2>1
<1>11. Cardinality(U) <= Cardinality(Whole(C))
  <2> HIDE DEF U
  <2>1. QED
    BY <1>2, <1>9, FS_Injection
<1>12. Cardinality(U) = Cardinality(Whole(A)) + Cardinality(Whole(B))
  <2>1. Cardinality(Whole(A) \intersect Whole(B)) = 0
    BY <1>10, FS_EmptySet
  <2>2. Cardinality(U) = Cardinality(Whole(A)) + Cardinality(Whole(B))
                           - Cardinality(Whole(A) \intersect Whole(B))
    BY <1>2, FS_Union
  <2>3. QED
    BY <1>2, <2>1, <2>2
<1>13. QED
  BY <1>2, <1>11, <1>12

(* Cut one by one, what many numbers of ticks lose is less than a second     *)
(* each.                                                                     *)
LEMMA CutToSeconds ==
  ASSUME NEW S, IsFiniteSet(S), NEW f, NEW g,
         \A x \in S : g[x] \in Nat /\ f[x] \in Nat /\ f[x] = g[x] \div TicksPerSecond
  PROVE  \E p, q \in Nat :
           /\ p = Weight(f, S) * TicksPerSecond
           /\ q = Cardinality(S) * (TicksPerSecond - 1)
           /\ p <= Weight(g, S) /\ Weight(g, S) <= p + q
<1> DEFINE Loses(s) ==
             \E p, q \in Nat :
               /\ p = Weight(f, s) * TicksPerSecond
               /\ q = Cardinality(s) * (TicksPerSecond - 1)
               /\ p <= Weight(g, s) /\ Weight(g, s) <= p + q
           Wrong == {s \in SUBSET S : ~Loses(s)}
           T == {Cardinality(s) : s \in Wrong}
<1>1. \A s \in SUBSET S : IsFiniteSet(s) /\ Cardinality(s) \in Nat
  BY FS_Subset, FS_CardinalityType
<1>2. SUFFICES ASSUME Wrong # {} PROVE FALSE
  OBVIOUS
<1>3. T \in SUBSET Nat /\ T # {}
  BY <1>1, <1>2
<1>4. /\ \A s \in Wrong : Cardinality(s) \in T
      /\ \A k \in T : \E s \in Wrong : k = Cardinality(s)
  OBVIOUS
<1>5. PICK s \in Wrong : \A r \in Wrong : Cardinality(s) <= Cardinality(r)
  <2> HIDE DEF T, Wrong
  <2>1. PICK k \in T : \A j \in T : k <= j
    BY <1>3, LeastOf
  <2>2. QED
    BY <1>4, <2>1
<1>6. s \in SUBSET S /\ ~Loses(s) /\ IsFiniteSet(s) /\ Cardinality(s) \in Nat
  BY <1>1
<1>7. TicksPerSecond \in Nat /\ TicksPerSecond > 0
  BY ConstantFacts
<1>8. s # {}
  <2>1. SUFFICES ASSUME s = {} PROVE Loses(s)
    BY <1>6
  <2>2. Weight(f, s) = 0 /\ Weight(g, s) = 0 /\ Cardinality(s) = 0
    BY <2>1, NoWeight, FS_EmptySet
  <2>3. 0 = 0 * TicksPerSecond /\ 0 = 0 * (TicksPerSecond - 1)
    BY <1>7
  <2>4. QED
    BY <2>2, <2>3
<1>9. PICK c \in s : TRUE
  BY <1>8
<1> DEFINE r == s \ {c}
<1>10. /\ r \in SUBSET S /\ IsFiniteSet(r)
       /\ Cardinality(r) = Cardinality(s) - 1 /\ Cardinality(r) \in Nat
  <2>1. r \in SUBSET S
    BY <1>6
  <2>2. QED
    BY <1>1, <1>6, <2>1, FS_RemoveElement
<1>11. Loses(r)
  <2>1. r \notin Wrong
    BY <1>5, <1>6, <1>10
  <2> HIDE DEF Loses
  <2>2. QED
    BY <1>10, <2>1
<1>12. PICK p \in Nat, q \in Nat :
         /\ p = Weight(f, r) * TicksPerSecond
         /\ q = Cardinality(r) * (TicksPerSecond - 1)
         /\ p <= Weight(g, r) /\ Weight(g, r) <= p + q
  BY <1>11
<1>13. /\ Weight(f, s) = f[c] + Weight(f, r) /\ Weight(g, s) = g[c] + Weight(g, r)
       /\ f[c] \in Nat /\ g[c] \in Nat /\ f[c] = g[c] \div TicksPerSecond
       /\ Weight(f, r) \in Nat /\ Weight(g, r) \in Nat
  <2>1. \A x \in s : g[x] \in Nat /\ f[x] \in Nat
    BY <1>6
  <2>2. Weight(f, s) = f[c] + Weight(f, r) /\ Weight(g, s) = g[c] + Weight(g, r)
    BY <1>6, <2>1, WeightsAdd
  <2>3. Weight(f, r) \in Nat /\ Weight(g, r) \in Nat
    BY <1>10, <2>1, UnitsAreFinite
  <2>4. QED
    BY <1>6, <2>2, <2>3
<1> HIDE DEF r, Wrong, T
<1>14. PICK m \in Nat, k \in Nat, d \in 0..(TicksPerSecond - 1) :
         m = g[c] \div TicksPerSecond /\ k = m * TicksPerSecond /\ g[c] = k + d
  BY <1>13, Quotients
<1>15. (f[c] + Weight(f, r)) * TicksPerSecond = k + p
  BY <1>12, <1>13, <1>14, SecondsAscend
<1>16. Cardinality(s) * (TicksPerSecond - 1) = q + (TicksPerSecond - 1)
  <2>1. PICK n \in Nat, l \in Nat : n = Cardinality(r) /\ l = TicksPerSecond - 1
    BY <1>7, <1>10
  <2>2. Cardinality(s) = n + 1 /\ q = n * l
    BY <1>6, <1>10, <1>12, <2>1
  <2>3. (n + 1) * l = n * l + l
    OBVIOUS
  <2>4. QED
    BY <2>1, <2>2, <2>3
<1>17. k + p <= g[c] + Weight(g, r) /\ g[c] + Weight(g, r) <= (k + p) + (q + (TicksPerSecond - 1))
  BY <1>7, <1>12, <1>13, <1>14
<1>18. k + p \in Nat /\ q + (TicksPerSecond - 1) \in Nat
  BY <1>7, <1>12, <1>14
<1>19. Loses(s)
  BY <1>13, <1>15, <1>16, <1>17, <1>18
<1>20. QED
  BY <1>6, <1>19

(* The stretches have no instants but those of the set. *)
LEMMA InstantsInStretches ==
  ASSUME NEW T, Bounded(T)
  PROVE  Cardinality(T) <= Weight(Lengths(T), Stretches(T))
<1> DEFINE Holds(t, i) == t \in Instants(i)
           of == [t \in T |-> CHOOSE i \in Stretches(T) : Holds(t, i)]
           h  == [t \in T |-> <<of[t], t - of[t].start + 1>>]
           U  == Units(Lengths(T), Stretches(T))
<1>1. T \subseteq Int /\ IsFiniteSet(T)
  BY BoundedSets
<1>2. \A t \in T : of[t] \in Stretches(T) /\ t \in Instants(of[t])
  BY StretchOf
<1>3. IsFiniteSet(U)
  BY StretchesAreFinite, SecondsAreWeights, UnitsAreFinite
<1> HIDE DEF of
<1>4. ASSUME NEW t \in T PROVE h[t] \in U
  <2>1. PICK i \in Stretches(T) : i = of[t] /\ t \in Instants(i)
    BY <1>2
  <2>2. /\ i.start \in Int /\ i.end \in Int /\ t \in i.start..(i.end - 1)
        /\ Lengths(T)[i] = i.end - i.start
    BY <1>1, <2>1, StretchFacts DEF Instants, Lengths
  <2>3. t - i.start + 1 \in 1..Lengths(T)[i]
    BY <2>2
  <2>4. h[t] = <<i, t - i.start + 1>>
    BY <2>1
  <2>5. QED
    BY <2>3, <2>4, UnitsOf
<1>5. ASSUME NEW t \in T, NEW x \in T, h[t] = h[x] PROVE t = x
  <2>1. of[t] = of[x] /\ t - of[t].start + 1 = x - of[t].start + 1
    BY <1>5
  <2>2. of[t].start \in Int /\ t \in Int /\ x \in Int
    BY <1>1, <1>2, StretchFacts
  <2>3. QED
    BY <2>1, <2>2
<1>6. h \in Injection(T, U)
  <2>1. h = [t \in T |-> h[t]]
    OBVIOUS
  <2> HIDE DEF h, U
  <2>2. QED
    BY <1>4, <1>5, <2>1 DEF Injection, IsInjective
<1> HIDE DEF h, U
<1>7. Cardinality(T) <= Cardinality(U)
  BY <1>1, <1>3, <1>6, FS_Injection
<1>8. QED
  BY <1>7 DEF Weight, U

(* All the instants of a set, but less than a second for each of its         *)
(* stretches, are in its seconds.                                            *)
LEMMA SecondsOfSets ==
  ASSUME NEW T, Bounded(T)
  PROVE  \E p, q \in Nat :
           /\ p = SecondsOf(T) * TicksPerSecond
           /\ q = Cardinality(Stretches(T)) * (TicksPerSecond - 1)
           /\ Cardinality(T) <= p + q
<1> DEFINE S == Stretches(T)
           f == Cuts(T)
           g == Lengths(T)
<1>1. /\ IsFiniteSet(S) /\ Cardinality(T) \in Nat /\ Cardinality(T) <= Weight(g, S)
      /\ \A x \in S : g[x] \in Nat /\ f[x] \in Nat /\ f[x] = g[x] \div TicksPerSecond
      /\ SecondsOf(T) = Weight(f, S) /\ Weight(g, S) \in Nat
  BY BoundedSets, StretchesAreFinite, InstantsInStretches, SecondsAreWeights
<1> HIDE DEF S, f, g
<1>2. PICK p \in Nat, q \in Nat :
        /\ p = Weight(f, S) * TicksPerSecond
        /\ q = Cardinality(S) * (TicksPerSecond - 1)
        /\ p <= Weight(g, S) /\ Weight(g, S) <= p + q
  BY <1>1, CutToSeconds
<1>3. Cardinality(T) <= p + q
  BY <1>1, <1>2
<1>4. QED
  BY <1>1, <1>2, <1>3 DEF S

LEMMA MoreSeconds ==
  ASSUME NEW C, Bounded(C), NEW A \in SUBSET C
  PROVE  SecondsOf(A) <= SecondsOf(C) /\ SecondsOf(A) \in Nat /\ SecondsOf(C) \in Nat
<1>1. {} \in SUBSET C /\ A \intersect {} = {}
  OBVIOUS
<1>2. /\ SecondsOf(A) + SecondsOf({}) <= SecondsOf(C)
      /\ SecondsOf(A) \in Nat /\ SecondsOf({}) \in Nat /\ SecondsOf(C) \in Nat
  BY <1>1, SecondsFit
<1>3. QED
  BY <1>2

-----------------------------------------------------------------------------
(* The steps of a request, one statement after the other. *)

Same ==
  /\ request'.kind = request.kind /\ request'.window = request.window
  /\ request'.source = request.source /\ request'.shift = request.shift

From(pc, next) == request.pc = pc /\ request'.pc = next

(* What is in flight is lost: a refusal or a new request. *)
GivesUp ==
  /\ \/ request'.pc = "data_through"
     \/ request'.pc = "answered" /\ request'.answer.status # 200
     \/ request'.pc = "line" /\ request'.kind = "oee"
  /\ last' = last

FindsData ==
  /\ request'.pc = "line" /\ request'.window.end \in LatestEnd
  /\ UNCHANGED <<began, last>>

State == [production |-> production, downtime |-> downtime, commits |-> commits]

BeginsQuery == From("line", "count") /\ Same /\ began' = State /\ last' = last

CountsDowntime ==
  /\ From("count", "limit") /\ Same /\ UNCHANGED <<began, last>>
  /\ request'.counted = Cardinality(DowntimeFilter(request.window, request.source))

CountsProduction ==
  /\ From("limit", "load") /\ Same /\ UNCHANGED <<began, last>>
  /\ request'.counted = request.counted
  /\ ~(request.counted + Cardinality(ProductionFilter(request.window, request.source)) > MaxRows)

LoadsDowntime ==
  /\ From("load", "loaded") /\ Same /\ UNCHANGED <<began, last>>
  /\ request'.counted = request.counted
  /\ request'.events = DowntimeFilter(request.window, request.source)

Answers ==
  /\ request.pc = "loaded" /\ began' = began
  /\ \E a : AnswerIs(a)

RequestMoves ==
  \/ GivesUp \/ FindsData \/ BeginsQuery \/ CountsDowntime \/ CountsProduction
  \/ LoadsDowntime \/ Answers

LEMMA RefusalsGiveUp ==
  ASSUME NEW status, Refuse(status), status # 200 PROVE GivesUp
<1>1. /\ request' = [pc |-> "answered", kind |-> request.kind, window |-> None,
                     source |-> None, shift |-> None, counted |-> None, events |-> None,
                     answer |-> [status |-> status, at |-> request.pc]]
      /\ last' = last
  BY DEF Refuse, Answer, Idle
<1>2. QED
  BY <1>1 DEF GivesUp

LEMMA StepsOfRequests ==
  ASSUME IsRequest(request), [Next]_vars
  PROVE  \/ UNCHANGED <<request, began, last>>
         \/ UNCHANGED <<rows, commits>> /\ RequestMoves
<1>1. ASSUME NEW w \in Windows, GetOee(w) PROVE UNCHANGED <<rows, commits>> /\ GivesUp
  <2>1. /\ UNCHANGED <<rows, commits>> /\ last' = last
        /\ \/ request' = [Idle EXCEPT !.pc = "answered", !.kind = "oee",
                                      !.answer = [status |-> 422, at |-> "window"]]
           \/ request' = [Idle EXCEPT !.pc = "line", !.kind = "oee", !.window = w]
    BY <1>1 DEF GetOee
  <2>2. ASSUME request' = [Idle EXCEPT !.pc = "answered", !.kind = "oee",
                                       !.answer = [status |-> 422, at |-> "window"]]
        PROVE  request'.pc = "answered" /\ request'.answer.status # 200
    BY <2>2 DEF Idle
  <2>3. ASSUME request' = [Idle EXCEPT !.pc = "line", !.kind = "oee", !.window = w]
        PROVE  request'.pc = "line" /\ request'.kind = "oee"
    BY <2>3 DEF Idle
  <2>4. QED
    BY <2>1, <2>2, <2>3 DEF GivesUp
<1>2. CASE GetOverview
  BY <1>2 DEF GetOverview, Idle, GivesUp, RequestMoves
<1>3. CASE ReadDataThrough
  <2>1. CASE Refuse(503)
    <3>1. UNCHANGED <<rows, commits>>
      BY <1>3, Zenon DEF ReadDataThrough
    <3>2. QED
      BY <2>1, <3>1, RefusalsGiveUp DEF RequestMoves
  <2>2. ASSUME NEW through \in LatestEnd,
               request' = [request EXCEPT !.pc = "line",
                             !.window = CompletedShiftWindow(through).window,
                             !.shift = CompletedShiftWindow(through).shift],
               last' = last, began' = began, UNCHANGED <<rows, commits>>
        PROVE  UNCHANGED <<rows, commits>> /\ RequestMoves
    <3> DEFINE sw == CompletedShiftWindow(through)
    <3>1. sw.window.end = through
      BY DEF CompletedShiftWindow, Window
    <3> HIDE DEF sw
    <3>2. request' = [pc |-> "line", kind |-> request.kind, window |-> sw.window,
                      source |-> request.source, shift |-> sw.shift,
                      counted |-> request.counted, events |-> request.events,
                      answer |-> request.answer]
      BY <2>2 DEF sw, IsRequest
    <3>3. request'.pc = "line" /\ request'.window.end \in LatestEnd
      BY <3>1, <3>2
    <3>4. QED
      BY <2>2, <3>3 DEF RequestMoves, FindsData
  <2>3. QED
    BY <1>3, <2>1, <2>2, Zenon DEF ReadDataThrough
<1>4. CASE ReadLine
  <2>1. request.pc = "line" /\ UNCHANGED <<rows, commits>> /\ began' = State
    BY <1>4 DEF ReadLine, State
  <2>2. CASE request' = [request EXCEPT !.pc = "count"] /\ last' = last
    <3>1. request' = [pc |-> "count", kind |-> request.kind, window |-> request.window,
                      source |-> request.source, shift |-> request.shift,
                      counted |-> request.counted, events |-> request.events,
                      answer |-> request.answer]
      BY <2>2 DEF IsRequest
    <3>2. QED
      BY <2>1, <2>2, <3>1 DEF RequestMoves, BeginsQuery, From, Same
  <2>3. CASE Refuse(IF request.kind = "oee" THEN 404 ELSE 503)
    BY <2>1, <2>3, RefusalsGiveUp DEF RequestMoves
  <2>4. QED
    BY <1>4, <2>2, <2>3 DEF ReadLine
<1>5. CASE CountDowntime
  <2> DEFINE n == Cardinality(DowntimeFilter(request.window, request.source))
  <2>1. /\ request' = [request EXCEPT !.pc = "limit", !.counted = n]
        /\ request.pc = "count" /\ UNCHANGED <<rows, commits, began, last>>
    BY <1>5 DEF CountDowntime
  <2> HIDE DEF n
  <2>2. request' = [pc |-> "limit", kind |-> request.kind, window |-> request.window,
                    source |-> request.source, shift |-> request.shift,
                    counted |-> n, events |-> request.events, answer |-> request.answer]
    BY <2>1 DEF IsRequest
  <2>3. QED
    BY <2>1, <2>2 DEF RequestMoves, CountsDowntime, From, Same, n
<1>6. CASE CountProduction
  <2>1. /\ request.pc = "limit" /\ UNCHANGED <<rows, commits, began>>
        /\ IF request.counted
                + Cardinality(ProductionFilter(request.window, request.source)) > MaxRows
             THEN Refuse(IF request.kind = "oee" THEN 422 ELSE 503)
             ELSE request' = [request EXCEPT !.pc = "load"] /\ UNCHANGED last
    BY <1>6 DEF CountProduction
  <2>2. CASE Refuse(IF request.kind = "oee" THEN 422 ELSE 503)
    BY <2>1, <2>2, RefusalsGiveUp DEF RequestMoves
  <2>3. ASSUME request' = [request EXCEPT !.pc = "load"]
        PROVE  request' = [pc |-> "load", kind |-> request.kind, window |-> request.window,
                           source |-> request.source, shift |-> request.shift,
                           counted |-> request.counted, events |-> request.events,
                           answer |-> request.answer]
    BY <2>3 DEF IsRequest
  <2>4. QED
    BY <2>1, <2>2, <2>3 DEF RequestMoves, CountsProduction, From, Same
<1>7. CASE LoadDowntime
  <2> DEFINE es == DowntimeFilter(request.window, request.source)
  <2>1. /\ request' = [request EXCEPT !.pc = "loaded", !.events = es]
        /\ request.pc = "load" /\ UNCHANGED <<rows, commits, began, last>>
    BY <1>7 DEF LoadDowntime
  <2> HIDE DEF es
  <2>2. request' = [pc |-> "loaded", kind |-> request.kind, window |-> request.window,
                    source |-> request.source, shift |-> request.shift,
                    counted |-> request.counted, events |-> es, answer |-> request.answer]
    BY <2>1 DEF IsRequest
  <2>3. QED
    BY <2>1, <2>2 DEF RequestMoves, LoadsDowntime, From, Same, es
<1>8. CASE LoadProduction
  <2>1. request.pc = "loaded" /\ UNCHANGED <<rows, commits, began>>
    BY <1>8, Zenon DEF LoadProduction
  <2>2. QED
    BY <1>8, <2>1, Answering DEF RequestMoves, Answers
<1>9. CASE CreateLine \/ StoreRecord \/ StoreEvent \/ CorrectEvent \/ UNCHANGED vars
  BY <1>9, Zenon DEF CreateLine, StoreRecord, StoreEvent, CorrectEvent, vars
<1>10. QED
  BY <1>1, <1>2, <1>3, <1>4, <1>5, <1>6, <1>7, <1>8, <1>9, Zenon DEF Next, RequestMoves

-----------------------------------------------------------------------------
(* One overview after another. *)

DemoRecords(w) ==
  {r \in production : r.source = DemoSource /\ r.start >= w.start /\ r.end <= w.end}

(* What the last overview was about is still there, and no request is about *)
(* less.                                                                    *)
LastInv ==
  last # None =>
    /\ last.window.start \in Int /\ last.window.end \in Int
    /\ last.overview.data_through = last.window.end
    /\ HasData(last.window.end)
    /\ last.result.total \in Nat /\ last.result.total <= Total(DemoRecords(last.window))
    /\ request.pc \in Loading /\ request.kind = "overview" =>
         request.window.end >= last.window.end

LEMMA DemoTotals ==
  ASSUME RowsInv, NEW w, NEW v, DemoRecords(v) \subseteq DemoRecords(w)
  PROVE  /\ Total(DemoRecords(w)) \in Nat /\ Total(DemoRecords(v)) \in Nat
         /\ Total(DemoRecords(v)) <= Total(DemoRecords(w))
<1> DEFINE S == DemoRecords(w)
<1>1. S \in SUBSET production
  BY DEF DemoRecords
<1>2. \A r \in S : IsRecord(r)
  BY <1>1 DEF RowsInv, RecordRow, IsRecord
<1>3. DemoRecords(v) \in SUBSET S
  OBVIOUS
<1> HIDE DEF S
<1>4. IsFiniteSet(S)
  BY <1>1, FS_Subset DEF RowsInv
<1>5. QED
  BY <1>2, <1>3, <1>4, TotalsGrow DEF S

(* The rows an overview counts are those of its shift so far.              *)
LEMMA OverviewsCountDemoRecords ==
  ASSUME RowsInv, NEW w, w.start \in Int, w.end \in Int, w.start < w.end
  PROVE  Included(w, ProductionFilter(w, DemoSource)) = DemoRecords(w)
<1>1. \A r \in production : r.start \in Int /\ r.end \in Int /\ r.start < r.end
  BY DEF RowsInv, RecordRow
<1>2. DemoSource # None
  BY ConstantFacts
<1>3. \A r \in production :
        r.start >= w.start /\ r.end <= w.end => r.start < w.end /\ r.end > w.start
  BY <1>1
<1>4. QED
  BY <1>2, <1>3 DEF Included, ProductionFilter, FromSource, DemoRecords

(* An answer to the overview has more than the one before.                 *)
LEMMA OverviewsGrow ==
  ASSUME RowsInv, RequestInv, LastInv, Answers, UNCHANGED <<rows, commits>>
  PROVE  /\ LastInv'
         /\ last # None /\ last' # last =>
              /\ last'.overview.data_through >= last.overview.data_through
              /\ last'.window.start = last.window.start =>
                   last'.result.total >= last.result.total
<1>0. PICK w : w = request.window
  OBVIOUS
<1>1. PICK a : AnswerIs(a)
  BY DEF Answers
<1>2. request' = [pc |-> "answered", kind |-> request.kind, window |-> None, source |-> None,
                  shift |-> None, counted |-> None, events |-> None, answer |-> a]
  BY <1>1, Zenon DEF AnswerIs
<1>3. request'.pc = "answered" /\ request'.pc \notin Loading
  BY <1>2 DEF Loading
<1>4. CASE request.kind # "overview"
  <2>1. last' = last
    BY <1>1, <1>4 DEF AnswerIs
  <2>2. QED
    BY <1>3, <2>1 DEF LastInv, HasData, DemoRecords, rows, Total
<1>5. CASE request.kind = "overview"
  <2>1. /\ w.start \in Int /\ w.end \in Int /\ w.start < w.end
        /\ request.source = DemoSource /\ HasData(w.end) /\ request.pc \in Loading
    BY <1>0, <1>5 DEF Answers, RequestInv, Served, Loading, BeginsItsShift
  <2>2. last' = a
    BY <1>1, <1>5 DEF AnswerIs
  <2>3. PICK n, o :
          /\ o = Result(w, request.events, ProductionFilter(w, request.source))
          /\ \E view :
            /\ request.kind # "oee" =>
                 view = Overview(w, request.shift, request.events, o.run)
            /\ a = [status |-> 200, window |-> w, source |-> request.source,
                    loaded |-> n, result |-> o, overview |-> view]
    BY <1>0, <1>1 DEF AnswerIs
  <2>4. a.window = w /\ a.overview.data_through = w.end /\ a.result = o
    BY <1>5, <2>3 DEF Overview
  <2>5. o.total = Total(Included(w, ProductionFilter(w, DemoSource)))
    BY <2>1, <2>3 DEF Result
  <2>6. o.total = Total(DemoRecords(w))
    BY <2>1, <2>5, OverviewsCountDemoRecords
  <2>7. o.total \in Nat
    BY <2>6, DemoTotals
  <2>8. ASSUME NEW v PROVE DemoRecords(v)' = DemoRecords(v) /\ HasData(v.end)' = HasData(v.end)
    BY DEF DemoRecords, rows, HasData
  <2>9. LastInv'
    <3>1. Total(DemoRecords(w))' = Total(DemoRecords(w)) /\ HasData(w.end)'
      BY <2>1, <2>8 DEF Total
    <3>2. o.total <= Total(DemoRecords(w))'
      BY <2>6, <2>7, <3>1
    <3>3. QED
      BY <1>3, <2>1, <2>2, <2>4, <2>7, <3>1, <3>2 DEF LastInv
  <2>10. ASSUME last # None
         PROVE  /\ last'.overview.data_through >= last.overview.data_through
                /\ last'.window.start = last.window.start =>
                     last'.result.total >= last.result.total
    <3>1. /\ last.window.start \in Int /\ last.window.end \in Int
          /\ last.overview.data_through = last.window.end
          /\ last.result.total \in Nat
          /\ last.result.total <= Total(DemoRecords(last.window))
          /\ w.end >= last.window.end
      BY <1>0, <1>5, <2>1, <2>10 DEF LastInv
    <3>2. ASSUME w.start = last.window.start
          PROVE  last.result.total <= o.total
      <4>1. \A r \in production : r.end \in Int
        BY DEF RowsInv, RecordRow
      <4>2. DemoRecords(last.window) \subseteq DemoRecords(w)
        BY <2>1, <3>1, <3>2, <4>1 DEF DemoRecords
      <4>3. /\ Total(DemoRecords(w)) \in Nat /\ Total(DemoRecords(last.window)) \in Nat
            /\ Total(DemoRecords(last.window)) <= Total(DemoRecords(w))
        BY <4>2, DemoTotals
      <4>4. QED
        BY <2>6, <3>1, <4>3
    <3>3. QED
      BY <2>1, <2>2, <2>4, <2>7, <3>1, <3>2
  <2>11. QED
    BY <2>9, <2>10
<1>6. QED
  BY <1>4, <1>5 DEF Answers, RequestInv, Served, Loading

LEMMA LastInvStep ==
  ASSUME RowsInv, RequestInv, LastInv, RowsInv', [Next]_vars
  PROVE  /\ LastInv'
         /\ last # None /\ last' # last =>
              /\ last'.overview.data_through >= last.overview.data_through
              /\ last'.window.start = last.window.start =>
                   last'.result.total >= last.result.total
<1>1. (line' = line \/ line' = TRUE) /\ production \subseteq production'
  BY RowsOnlyGrow
<1>2. ASSUME last' = last, last # None,
             request'.pc \in Loading /\ request'.kind = "overview" =>
               request'.window.end >= last.window.end
      PROVE  LastInv'
  <2> DEFINE w == last.window
             S == DemoRecords(w)'
             T == DemoRecords(w)
  <2>1. HasData(w.end)'
    BY <1>1, <1>2 DEF LastInv, HasData
  <2>2. S \in SUBSET production' /\ T \in SUBSET S
    BY <1>1, <1>2 DEF DemoRecords
  <2>3. \A r \in S : IsRecord(r)
    BY <2>2 DEF RowsInv, RecordRow, IsRecord
  <2>4. Total(DemoRecords(w)') = Total(DemoRecords(w))'
    BY DEF Total
  <2> HIDE DEF S, T
  <2>5. IsFiniteSet(S)
    BY <2>2, FS_Subset DEF RowsInv
  <2>6. Total(S) \in Nat /\ Total(T) \in Nat /\ Total(T) <= Total(S)
    BY <2>2, <2>3, <2>5, TotalsGrow
  <2>7. last.result.total \in Nat /\ last.result.total <= Total(T)
    BY <1>2 DEF LastInv, T
  <2>8. last.result.total <= Total(DemoRecords(last.window))'
    BY <2>4, <2>6, <2>7 DEF S
  <2>9. QED
    BY <1>2, <2>1, <2>7, <2>8 DEF LastInv
<1>3. CASE last' = last /\ last = None
  BY <1>3 DEF LastInv
<1>4. CASE UNCHANGED <<request, began, last>>
  BY <1>2, <1>3, <1>4 DEF LastInv
<1>5. CASE UNCHANGED <<rows, commits>> /\ RequestMoves
  <2>1. CASE GivesUp
    BY <1>2, <1>3, <2>1 DEF GivesUp, Loading
  <2>2. CASE FindsData
    <3>1. ASSUME last # None PROVE request'.window.end >= last.window.end
      <4>1. last.window.end \in Int /\ HasData(last.window.end)
        BY <3>1 DEF LastInv
      <4>2. last.window.end <= request'.window.end /\ request'.window.end \in Int
        BY <2>2, <4>1, LatestEndIsTheLast DEF FindsData, HasData
      <4>3. QED
        BY <4>1, <4>2
    <3>2. QED
      BY <1>2, <1>3, <2>2, <3>1 DEF FindsData
  <2>3. CASE BeginsQuery \/ CountsDowntime \/ CountsProduction \/ LoadsDowntime
    <3>1. /\ last' = last /\ Same /\ request.pc \in Loading
      BY <2>3 DEF BeginsQuery, CountsDowntime, CountsProduction, LoadsDowntime, From, Loading
    <3>2. QED
      BY <1>2, <1>3, <3>1 DEF Same, LastInv
  <2>4. CASE Answers
    BY <1>5, <2>4, OverviewsGrow
  <2>5. last' = last \/ Answers
    BY <1>5 DEF RequestMoves, GivesUp, FindsData, BeginsQuery, CountsDowntime,
       CountsProduction, LoadsDowntime
  <2>6. QED
    BY <1>5, <2>1, <2>2, <2>3, <2>4, <2>5 DEF RequestMoves
<1>6. QED
  BY <1>4, <1>5, StepsOfRequests DEF RequestInv

(* Whoever polls the overview never sees it go back, and within one shift    *)
(* the total grows.                                                          *)
THEOREM OverviewsNeverGoBack == Spec => OverviewGrows
<1> DEFINE Grows == last # None /\ last' # last =>
             /\ last'.overview.data_through >= last.overview.data_through
             /\ last'.window.start = last.window.start =>
                  last'.result.total >= last.result.total
<1>1. Init => RequestInv /\ LastInv
  BY DEF Init, RequestInv, WindowIsTheShiftSoFar, Idle, IsRequest, Loading, LastInv
<1>2. RowsInv /\ RowsInv' /\ RequestInv /\ LastInv /\ [Next]_vars
        => RequestInv' /\ LastInv' /\ [Grows]_vars
  <2>1. ASSUME RowsInv, RowsInv', RequestInv, LastInv, [Next]_vars
        PROVE  RequestInv' /\ LastInv' /\ Grows
    BY <2>1, RequestInvStep, LastInvStep
  <2> HIDE DEF Grows
  <2>2. QED
    BY <2>1
<1> HIDE DEF Grows
<1>3. Spec => [][Grows]_vars
  BY <1>1, <1>2, RowsInvHolds, PTL DEF Spec
<1>4. QED
  BY <1>3 DEF OverviewGrows, Grows

-----------------------------------------------------------------------------
(* An answer between two states: b when the query began, and n now, after c   *)
(* commits.                                                                  *)

ValidRecords(P) ==
  /\ P \subseteq RecordRow /\ IsFiniteSet(P)
  /\ \A r \in P : r.start < r.end /\ r.good <= r.total

Passing(D, w, source) ==
  {e \in FromSource(D, source) : e.start < w.end /\ (e.end # None => e.end > w.start)}

Overlapping(P, w, source) == {r \in FromSource(P, source) : r.start < w.end /\ r.end > w.start}

Common(b, n) == [downtime |-> b.downtime \intersect n.downtime]

Exact(n, a) ==
  /\ a.result.run = SecondsOf(Running(n, a))
  /\ a.result.partial <=> \E r \in FromSource(n.production, a.source) :
       ~Inside(r, a.window) /\ Instants(r) \intersect Instants(a.window) # {}

Between(b, n, c, a) ==
  /\ b.commits = c => Exact(n, a)
  /\ a.loaded <= MaxRows + (c - b.commits)
  /\ Total(Counted(b, a)) <= a.result.total /\ a.result.total <= Total(Counted(n, a))
  /\ Good(Counted(b, a)) <= a.result.good /\ a.result.good <= a.result.total
  /\ a.result.run <= SecondsOf(Running(Common(b, n), a))
  /\ a.result.run <= a.result.planned

TypedAnswer(a) ==
  /\ a.window.start \in Int /\ a.window.end \in Int /\ a.window.start < a.window.end
  /\ a.loaded \in Nat
  /\ a.result.run \in Nat /\ a.result.total \in Nat /\ a.result.good \in Nat

LEMMA InstantsAreFinite ==
  ASSUME NEW w, w.start \in Int, w.end \in Int, NEW T \in SUBSET Instants(w)
  PROVE  Bounded(T) /\ IsFiniteSet(T) /\ Cardinality(T) \in Nat
<1>1. w.end - 1 \in Int /\ T \subseteq w.start..(w.end - 1)
  BY DEF Instants
<1>2. Bounded(T)
  BY <1>1 DEF Bounded
<1>3. QED
  BY <1>2, BoundedSets

LEMMA CountedOnlyGrow ==
  ASSUME NEW b, NEW n, NEW a, ValidRecords(n.production), b.production \subseteq n.production
  PROVE  /\ Total(Counted(n, a)) \in Nat /\ Total(Counted(b, a)) \in Nat
         /\ Good(Counted(n, a)) \in Nat /\ Good(Counted(b, a)) \in Nat
         /\ Total(Counted(b, a)) <= Total(Counted(n, a))
         /\ Good(Counted(b, a)) <= Good(Counted(n, a))
         /\ Good(Counted(n, a)) <= Total(Counted(n, a))
<1> DEFINE S == Counted(n, a)
           T == Counted(b, a)
<1>1. S \in SUBSET n.production /\ T \in SUBSET S
  BY DEF Counted, FromSource
<1>2. \A r \in S : IsRecord(r)
  BY <1>1 DEF ValidRecords, RecordRow, IsRecord
<1> HIDE DEF S, T
<1>3. IsFiniteSet(S)
  BY <1>1, FS_Subset DEF ValidRecords
<1>4. QED
  BY <1>1, <1>2, <1>3, TotalsGrow DEF S, T

(* An answer once given stays between, as long as nothing comes back.        *)
LEMMA StaysBetween ==
  ASSUME NEW b, NEW n, NEW m, NEW c \in Nat, NEW d \in Nat, NEW a,
         TypedAnswer(a), Between(b, n, c, a),
         ValidRecords(n.production), ValidRecords(m.production),
         b.production \subseteq n.production, n.production \subseteq m.production,
         b.downtime \intersect m.downtime \subseteq n.downtime,
         b.commits \in Nat, b.commits <= c, c < d
  PROVE  Between(b, m, d, a)
<1>1. /\ Total(Counted(n, a)) <= Total(Counted(m, a))
      /\ Total(Counted(n, a)) \in Nat /\ Total(Counted(m, a)) \in Nat
  BY CountedOnlyGrow
<1>2. a.result.total <= Total(Counted(m, a))
  BY <1>1 DEF Between, TypedAnswer
<1> DEFINE before == Running(Common(b, n), a)
           after  == Running(Common(b, m), a)
<1>3. after \in SUBSET Instants(a.window)
  BY DEF Running
<1>4. before \in SUBSET after
  BY DEF Running, StandsAt, Common, FromSource
<1> HIDE DEF before, after
<1>5. Bounded(after)
  BY <1>3, InstantsAreFinite DEF TypedAnswer
<1>6. /\ SecondsOf(before) <= SecondsOf(after)
      /\ SecondsOf(before) \in Nat /\ SecondsOf(after) \in Nat
  BY <1>4, <1>5, MoreSeconds
<1>7. a.result.run <= SecondsOf(after)
  BY <1>6 DEF Between, TypedAnswer, before
<1>8. b.commits # d /\ a.loaded <= MaxRows + (d - b.commits)
  <2>1. a.loaded <= MaxRows + (c - b.commits) /\ a.loaded \in Nat /\ MaxRows \in Nat
    BY ConstantFacts DEF Between, TypedAnswer
  <2>2. QED
    BY <2>1
<1>9. QED
  BY <1>2, <1>7, <1>8 DEF Between, after

ValidEvents(D) == D \subseteq EventRow

ValidWindow(w) == w.start \in Int /\ w.end \in Int /\ w.start < w.end

LEMMA InsideIsWithin ==
  ASSUME NEW r \in RecordRow, r.start < r.end, NEW w, ValidWindow(w)
  PROVE  /\ Inside(r, w) <=> r.start >= w.start /\ r.end <= w.end
         /\ Instants(r) \intersect Instants(w) # {} <=> r.start < w.end /\ r.end > w.start
<1>1. r.start \in Int /\ r.end \in Int /\ w.start \in Int /\ w.end \in Int /\ w.start < w.end
  BY DEF RecordRow, ValidWindow
<1>2. Instants(Window(r.start, r.end)) = r.start..(r.end - 1)
  BY DEF Instants, Window
<1>3. ASSUME Inside(r, w) PROVE r.start >= w.start /\ r.end <= w.end
  <2>1. r.start \in r.start..(r.end - 1) /\ r.end - 1 \in r.start..(r.end - 1)
    BY <1>1
  <2>2. r.start \in Instants(w) /\ r.end - 1 \in Instants(w)
    BY <1>2, <1>3, <2>1 DEF Inside
  <2>3. QED
    BY <1>1, <2>2 DEF Instants
<1>4. ASSUME r.start >= w.start, r.end <= w.end PROVE Inside(r, w)
  <2>1. r.start..(r.end - 1) \subseteq Instants(w)
    BY <1>1, <1>4 DEF Instants
  <2>2. QED
    BY <1>2, <2>1 DEF Inside
<1>5. ASSUME NEW t \in Instants(r) \intersect Instants(w)
      PROVE  r.start < w.end /\ r.end > w.start
  BY <1>1, <1>5 DEF Instants
<1>6. ASSUME r.start < w.end, r.end > w.start
      PROVE  Instants(r) \intersect Instants(w) # {}
  <2>1. CASE r.start >= w.start
    <3>1. r.start \in Instants(r) \intersect Instants(w)
      BY <1>1, <1>6, <2>1 DEF Instants
    <3>2. QED
      BY <3>1
  <2>2. CASE r.start < w.start
    <3>1. w.start \in Instants(r) \intersect Instants(w)
      BY <1>1, <1>6, <2>2 DEF Instants
    <3>2. QED
      BY <3>1
  <2>3. QED
    BY <1>1, <2>1, <2>2
<1>7. QED
  BY <1>3, <1>4, <1>5, <1>6

(* What counts is what lies inside of the window.                            *)
LEMMA CountedAreIncluded ==
  ASSUME NEW n, ValidRecords(n.production), NEW a, ValidWindow(a.window)
  PROVE  LET loaded == Overlapping(n.production, a.window, a.source) IN
         /\ Counted(n, a) = Included(a.window, loaded)
         /\ Included(a.window, loaded) # loaded <=>
              \E r \in FromSource(n.production, a.source) :
                ~Inside(r, a.window) /\ Instants(r) \intersect Instants(a.window) # {}
<1> DEFINE w == a.window
           P == FromSource(n.production, a.source)
           loaded == Overlapping(n.production, w, a.source)
<1>1. \A r \in P : /\ Inside(r, w) <=> r.start >= w.start /\ r.end <= w.end
                   /\ Instants(r) \intersect Instants(w) # {} <=>
                        r.start < w.end /\ r.end > w.start
  BY InsideIsWithin DEF ValidRecords, FromSource
<1>2. \A r \in P : r.start >= w.start /\ r.end <= w.end => r.start < w.end /\ r.end > w.start
  BY DEF ValidRecords, ValidWindow, FromSource, RecordRow
<1>3. loaded = {r \in P : r.start < w.end /\ r.end > w.start}
  BY DEF Overlapping
<1>4. Counted(n, a) = {r \in P : Inside(r, w)}
  BY DEF Counted
<1>5. Included(w, loaded) = {r \in loaded : r.start >= w.start /\ r.end <= w.end}
  BY DEF Included
<1> HIDE DEF P, loaded, w
<1>6. Counted(n, a) = Included(w, loaded)
  BY <1>1, <1>2, <1>3, <1>4, <1>5
<1>7. Included(w, loaded) # loaded <=>
        \E r \in P : ~Inside(r, w) /\ Instants(r) \intersect Instants(w) # {}
  BY <1>1, <1>3, <1>5
<1>8. QED
  BY <1>6, <1>7 DEF P, loaded, w

(* The window without the stops of the events is when the line runs.         *)
LEMMA RunsAreUnstopped ==
  ASSUME NEW w, ValidWindow(w), NEW events, events \subseteq EventRow, NEW records
  PROVE  LET o == Result(w, events, records)
             run == {t \in Instants(w) :
                       ~\E e \in events : t \in e.start..(EndOf(e, w) - 1)}
         IN  /\ o.run = SecondsOf(run) /\ o.run <= o.planned
             /\ o.run \in Nat /\ o.planned \in Nat
<1> DEFINE planned == Instants(w) \ Stopped(w, {e \in events : e.is_planned})
           run     == planned \ Stopped(w, {e \in events : ~e.is_planned})
           unstopped == {t \in Instants(w) :
                           ~\E e \in events : t \in e.start..(EndOf(e, w) - 1)}
           o == Result(w, events, records)
<1>1. \A e \in events : e.start \in Int /\ EndOf(e, w) \in Int /\ e.is_planned \in BOOLEAN
  BY DEF ValidWindow, EventRow, EndOf
<1>2. \A t \in Instants(w) : t \in Int
  BY DEF Instants, ValidWindow
<1>3. run = unstopped
  BY <1>1, <1>2 DEF Stopped
<1>4. o.run = SecondsOf(run) /\ o.planned = SecondsOf(planned)
  BY DEF Result
<1>5. planned \in SUBSET Instants(w) /\ run \in SUBSET planned
  OBVIOUS
<1> HIDE DEF planned, run, o
<1>6. Bounded(planned)
  BY <1>5, InstantsAreFinite DEF ValidWindow
<1>7. /\ SecondsOf(run) <= SecondsOf(planned)
      /\ SecondsOf(run) \in Nat /\ SecondsOf(planned) \in Nat
  BY <1>5, <1>6, MoreSeconds
<1>8. QED
  BY <1>3, <1>4, <1>7 DEF o

(* An answer when it is given.                                               *)
LEMMA GivenBetween ==
  ASSUME NEW b, NEW n, NEW c, NEW a, ValidRecords(n.production), ValidEvents(n.downtime),
         ValidWindow(a.window), NEW events, events \subseteq EventRow,
         b.production \subseteq n.production,
         (b.downtime \intersect n.downtime) \intersect Passing(n.downtime, a.window, a.source)
           \subseteq events,
         b.commits = c => events = Passing(n.downtime, a.window, a.source),
         a.loaded \in Nat, a.loaded <= MaxRows + (c - b.commits),
         a.result = Result(a.window, events, Overlapping(n.production, a.window, a.source))
  PROVE  TypedAnswer(a) /\ Between(b, n, c, a)
<1> DEFINE w == a.window
           records == Overlapping(n.production, w, a.source)
           o == a.result
<1>1. o = Result(w, events, records)
  OBVIOUS
<1> DEFINE run == {t \in Instants(w) : ~\E e \in events : t \in e.start..(EndOf(e, w) - 1)}
<1>2. o.run = SecondsOf(run) /\ o.run <= o.planned /\ o.run \in Nat
  <2> HIDE DEF o, records, w
  <2>1. ValidWindow(w)
    BY DEF w
  <2>2. QED
    BY <1>1, <2>1, RunsAreUnstopped
<1>3. /\ Counted(n, a) = Included(w, records)
      /\ Included(w, records) # records <=>
           \E r \in FromSource(n.production, a.source) :
             ~Inside(r, w) /\ Instants(r) \intersect Instants(w) # {}
  BY CountedAreIncluded
<1>4. /\ o.total = Total(Included(w, records)) /\ o.good = Good(Included(w, records))
      /\ o.partial = (Included(w, records) # records)
  <2> HIDE DEF o, records, w
  <2>1. QED
    BY <1>1 DEF Result
<1>5. /\ o.total = Total(Counted(n, a)) /\ o.good = Good(Counted(n, a))
      /\ o.total \in Nat /\ o.good \in Nat /\ o.good <= o.total
      /\ Total(Counted(b, a)) <= o.total /\ Good(Counted(b, a)) <= o.good
  BY <1>3, <1>4, CountedOnlyGrow
(* An event that stops the window passes the filter.                         *)
<1>6. ASSUME NEW e \in EventRow, NEW t \in Instants(w), t \in e.start..(EndOf(e, w) - 1)
      PROVE  e.start < w.end /\ (e.end # None => e.end > w.start)
  BY <1>6 DEF EventRow, EndOf, Instants, ValidWindow
<1>7. Running(Common(b, n), a) \subseteq Instants(w) /\ run \subseteq Running(Common(b, n), a)
  <2>1. ASSUME NEW t \in run, NEW e \in FromSource(b.downtime \intersect n.downtime, a.source),
               t \in e.start..(EndOf(e, w) - 1)
        PROVE  FALSE
    <3>1. e \in EventRow /\ e \in b.downtime \intersect n.downtime
          /\ e \in FromSource(n.downtime, a.source)
      BY <2>1 DEF FromSource, ValidEvents
    <3>2. e \in Passing(n.downtime, w, a.source)
      BY <1>6, <2>1, <3>1 DEF Passing
    <3>3. e \in events
      BY <3>1, <3>2
    <3>4. QED
      BY <2>1, <3>3
  <2>2. QED
    BY <2>1 DEF Running, StandsAt, Common
<1>8. b.commits = c => run = Running(n, a)
  <2>1. SUFFICES ASSUME b.commits = c PROVE run = Running(n, a)
    OBVIOUS
  <2>2. events = Passing(n.downtime, w, a.source)
    BY <2>1
  <2>3. ASSUME NEW t \in Instants(w)
        PROVE  (\E e \in events : t \in e.start..(EndOf(e, w) - 1)) <=> StandsAt(n, a, t)
    BY <1>6, <2>2 DEF StandsAt, Passing, FromSource, ValidEvents
  <2>4. QED
    BY <2>3 DEF Running
<1> HIDE DEF run, records, o
<1>9. SecondsOf(run) <= SecondsOf(Running(Common(b, n), a))
  <2>1. Bounded(Running(Common(b, n), a))
    BY <1>7, InstantsAreFinite DEF ValidWindow
  <2>2. QED
    BY <1>7, <2>1, MoreSeconds
<1>10. b.commits = c => Exact(n, a)
  BY <1>2, <1>3, <1>4, <1>8 DEF Exact, o
<1>11. TypedAnswer(a)
  BY <1>2, <1>5 DEF TypedAnswer, ValidWindow, o, w
<1>12. QED
  BY <1>2, <1>5, <1>9, <1>10, <1>11 DEF Between, o

-----------------------------------------------------------------------------
(* What a query has seen so far. *)

(* The rows when it began: none of the records is gone, and all of the       *)
(* events are from before.                                                   *)
Past ==
  /\ began.commits \in Nat /\ began.commits <= commits
  /\ began.production \subseteq production
  /\ began.downtime \subseteq EventRow
  /\ \A e \in began.downtime : e.updated_at < began.commits

(* Of what a statement finds, the rows that had been there, as they were,    *)
(* when the query began. Only of these does the count say anything later.    *)
OldEvents(D)  == {e \in D : e.updated_at < began.commits}
OldRecords(P) == {r \in P : r.id < began.commits}

(* Events as they were read: each of a commit of its own. *)
Versions(es) ==
  /\ es \subseteq EventRow /\ IsFiniteSet(es)
  /\ \A e \in es : e.updated_at < commits
  /\ \A e, f \in es : e.updated_at = f.updated_at => e = f
  /\ \A e \in es, r \in production : e.updated_at # r.id

Flight ==
  LET D == DowntimeFilter(request.window, request.source)
      P == ProductionFilter(request.window, request.source)
  IN
  /\ request.pc = "limit" =>
       request.counted \in Nat /\ Cardinality(OldEvents(D)) <= request.counted
  /\ request.pc = "load" => Cardinality(OldEvents(D)) + Cardinality(OldRecords(P)) <= MaxRows
  /\ request.pc = "loaded" =>
       /\ Versions(request.events)
       /\ Cardinality(OldEvents(request.events)) + Cardinality(OldRecords(P)) <= MaxRows
       /\ (began.downtime \intersect downtime) \intersect D \subseteq request.events
       /\ began.commits = commits => request.events = D

InFlight == request.pc \in {"count", "limit", "load", "loaded"}
Done     == request.pc = "answered" /\ request.answer.status = 200

BetweenInv ==
  /\ InFlight \/ Done => Past
  /\ InFlight => Flight
  /\ Done => TypedAnswer(request.answer) /\ Between(began, Now, commits, request.answer)

(* What a commit leaves: no event of the beginning comes back, and what is   *)
(* new is of this commit.                                                    *)
NewEvents  == {e \in downtime' : e.updated_at = commits}
NewRecords == {r \in production' : r.id = commits}

LEMMA CommitsMoveOn ==
  ASSUME RowsInv, Commits
  PROVE  /\ commits \in Nat /\ commits' = commits + 1
         /\ production \subseteq production' /\ production' \subseteq production \union NewRecords
         /\ downtime' \subseteq downtime \union NewEvents
<1>1. commits \in Nat
  BY DEF RowsInv
<1>2. ASSUME NEW r \in RecordDrafts, Stores(r)
      PROVE  /\ commits' = commits + 1 /\ production \subseteq production'
             /\ production' \subseteq production \union NewRecords
             /\ downtime' \subseteq downtime \union NewEvents
  <2> DEFINE n == NewRecord(r)
  <2>1. n.id = commits
    BY <1>1, NewRecordIsValid
  <2> HIDE DEF n
  <2>2. QED
    BY <1>2, <2>1 DEF Stores, NewRecords, NewEvents, n
<1>3. ASSUME NEW e \in EventDrafts, StoresEvent(e)
      PROVE  /\ commits' = commits + 1 /\ production \subseteq production'
             /\ production' \subseteq production \union NewRecords
             /\ downtime' \subseteq downtime \union NewEvents
  <2> DEFINE n == NewEvent(e)
  <2>1. n.updated_at = commits
    BY <1>1, NewEventIsValid
  <2> HIDE DEF n
  <2>2. QED
    BY <1>3, <2>1 DEF StoresEvent, NewRecords, NewEvents, n
<1>4. ASSUME NEW e \in downtime, NEW p \in Patches, Corrects(e, p)
      PROVE  /\ commits' = commits + 1 /\ production \subseteq production'
             /\ production' \subseteq production \union NewRecords
             /\ downtime' \subseteq downtime \union NewEvents
  <2> DEFINE n == Patched(e, p)
  <2>1. e \in EventRow /\ (n.end # None => n.start < n.end)
    BY <1>4 DEF RowsInv, Corrects
  <2>2. n.updated_at = commits
    BY <1>1, <2>1, PatchedIsValid
  <2>3. /\ downtime' = (downtime \ {e}) \union {n} /\ production' = production
        /\ commits' = commits + 1
    BY <1>4 DEF Corrects
  <2> HIDE DEF n
  <2>4. QED
    BY <2>2, <2>3 DEF NewRecords, NewEvents
<1>5. QED
  BY <1>1, <1>2, <1>3, <1>4 DEF Commits

LEMMA PastStays ==
  ASSUME RowsInv, Past, Commits, began' = began
  PROVE  /\ Past' /\ began.commits < commits' /\ commits' \in Nat
         /\ began.downtime \intersect downtime' \subseteq downtime
<1>1. /\ commits \in Nat /\ commits' = commits + 1
      /\ production \subseteq production' /\ downtime' \subseteq downtime \union NewEvents
  BY CommitsMoveOn
<1>2. began.downtime \intersect NewEvents = {}
  <2>1. ASSUME NEW e \in began.downtime, e.updated_at = commits PROVE FALSE
    BY <1>1, <2>1 DEF Past
  <2>2. QED
    BY <2>1 DEF NewEvents
<1>3. QED
  BY <1>1, <1>2 DEF Past

LEMMA RowsAreValid ==
  ASSUME RowsInv
  PROVE  /\ ValidRecords(Now.production) /\ ValidEvents(Now.downtime)
         /\ Now.production = production /\ Now.downtime = downtime
BY DEF RowsInv, ValidRecords, ValidEvents, Now

LEMMA FiltersAreFinite ==
  ASSUME RowsInv, NEW w, NEW source
  PROVE  /\ IsFiniteSet(DowntimeFilter(w, source)) /\ Cardinality(DowntimeFilter(w, source)) \in Nat
         /\ IsFiniteSet(ProductionFilter(w, source))
         /\ Cardinality(ProductionFilter(w, source)) \in Nat
         /\ DowntimeFilter(w, source) \in SUBSET downtime
         /\ ProductionFilter(w, source) \in SUBSET production
<1> DEFINE D == DowntimeFilter(w, source)
           P == ProductionFilter(w, source)
<1>1. D \in SUBSET downtime /\ P \in SUBSET production
  BY DEF DowntimeFilter, ProductionFilter, FromSource
<1> HIDE DEF D, P
<1>2. QED
  BY <1>1, FS_Subset, FS_CardinalityType DEF RowsInv, D, P

LEMMA OldOnes ==
  ASSUME NEW D, IsFiniteSet(D), NEW P, IsFiniteSet(P)
  PROVE  /\ IsFiniteSet(OldEvents(D)) /\ Cardinality(OldEvents(D)) \in Nat
         /\ Cardinality(OldEvents(D)) <= Cardinality(D)
         /\ IsFiniteSet(OldRecords(P)) /\ Cardinality(OldRecords(P)) \in Nat
         /\ Cardinality(OldRecords(P)) <= Cardinality(P)
<1>1. OldEvents(D) \in SUBSET D /\ OldRecords(P) \in SUBSET P
  BY DEF OldEvents, OldRecords
<1>2. QED
  BY <1>1, FS_Subset, FS_CardinalityType

(* A commit adds nothing old, and makes no version of an event come back.    *)
LEMMA FlightStays ==
  ASSUME RowsInv, RowsInv', Past, Flight, Commits, UNCHANGED <<request, began>>
  PROVE  Flight'
<1> DEFINE D == DowntimeFilter(request.window, request.source)
           P == ProductionFilter(request.window, request.source)
<1>0. PICK d, p : d = D' /\ p = P'
  OBVIOUS
<1>1. /\ commits \in Nat /\ commits' = commits + 1 /\ began' = began /\ request' = request
      /\ production \subseteq production' /\ production' \subseteq production \union NewRecords
      /\ downtime' \subseteq downtime \union NewEvents
  BY CommitsMoveOn
<1>2. /\ began.commits < commits' /\ began.commits \in Nat /\ began.commits <= commits
      /\ began.downtime \intersect downtime' \subseteq downtime
  BY PastStays DEF Past
<1>3. d \subseteq D \union NewEvents /\ p \subseteq P \union NewRecords
  BY <1>0, <1>1 DEF DowntimeFilter, ProductionFilter, FromSource
<1>4. OldEvents(d) \in SUBSET OldEvents(D) /\ OldRecords(p) \in SUBSET OldRecords(P)
  <2>1. ASSUME NEW e \in OldEvents(d) PROVE e \in OldEvents(D)
    <3>1. e \notin NewEvents
      BY <1>1, <1>2 DEF OldEvents, NewEvents
    <3>2. QED
      BY <1>3, <3>1 DEF OldEvents
  <2>2. ASSUME NEW r \in OldRecords(p) PROVE r \in OldRecords(P)
    <3>1. r \notin NewRecords
      BY <1>1, <1>2 DEF OldRecords, NewRecords
    <3>2. QED
      BY <1>3, <3>1 DEF OldRecords
  <2>3. QED
    BY <2>1, <2>2
<1>5. /\ IsFiniteSet(OldEvents(D)) /\ Cardinality(OldEvents(D)) \in Nat
      /\ IsFiniteSet(OldRecords(P)) /\ Cardinality(OldRecords(P)) \in Nat
  <2>1. IsFiniteSet(D) /\ IsFiniteSet(P)
    BY FiltersAreFinite
  <2> HIDE DEF D, P
  <2>2. QED
    BY <2>1, OldOnes
<1>6. ASSUME request.pc = "loaded"
      PROVE  /\ Versions(request.events)'
             /\ (began.downtime \intersect downtime') \intersect d \subseteq request.events
             /\ IsFiniteSet(request.events)
  <2>1. Versions(request.events)
    BY <1>6 DEF Flight
  <2>2. \A e \in request.events : e.updated_at \in Nat
    BY <2>1 DEF Versions, EventRow
  <2>3. Versions(request.events)'
    <3>1. \A e \in request.events : e.updated_at < commits'
      BY <1>1, <2>1, <2>2 DEF Versions
    <3>2. \A e \in request.events, r \in production' : e.updated_at # r.id
      BY <1>1, <2>1, <2>2 DEF Versions, NewRecords
    <3>3. QED
      BY <1>1, <2>1, <3>1, <3>2 DEF Versions
  <2>4. (began.downtime \intersect downtime') \intersect d \subseteq D
    <3>1. \A e \in began.downtime : e \notin NewEvents
      BY <1>1, <1>2 DEF Past, NewEvents
    <3>2. QED
      BY <1>3, <3>1
  <2>5. (began.downtime \intersect downtime) \intersect D \subseteq request.events
    BY <1>6 DEF Flight
  <2>6. QED
    BY <1>2, <2>1, <2>3, <2>4, <2>5 DEF Versions
<1> HIDE DEF D, P
<1>7. /\ Cardinality(OldEvents(d)) <= Cardinality(OldEvents(D))
      /\ Cardinality(OldRecords(p)) <= Cardinality(OldRecords(P))
      /\ Cardinality(OldEvents(d)) \in Nat /\ Cardinality(OldRecords(p)) \in Nat
  BY <1>4, <1>5, FS_Subset, FS_CardinalityType
<1>8. request.pc = "limit" =>
        request.counted \in Nat /\ Cardinality(OldEvents(d)) <= request.counted
  BY <1>5, <1>7 DEF Flight, D, P
<1>9. request.pc = "load" => Cardinality(OldEvents(d)) + Cardinality(OldRecords(p)) <= MaxRows
  <2>1. request.pc = "load" =>
          Cardinality(OldEvents(D)) + Cardinality(OldRecords(P)) <= MaxRows
    BY DEF Flight, D, P
  <2>2. QED
    BY <1>5, <1>7, <2>1, ConstantFacts
<1>10. request.pc = "loaded" =>
         Cardinality(OldEvents(request.events)) + Cardinality(OldRecords(p)) <= MaxRows
  <2>1. request.pc = "loaded" =>
          Cardinality(OldEvents(request.events)) + Cardinality(OldRecords(P)) <= MaxRows
    BY DEF Flight, P
  <2>2. request.pc = "loaded" => Cardinality(OldEvents(request.events)) \in Nat
    BY <1>5, <1>6, OldOnes, FS_EmptySet
  <2>3. QED
    BY <1>5, <1>7, <2>1, <2>2, ConstantFacts
<1>11. /\ \A S : OldEvents(S)' = OldEvents(S) /\ OldRecords(S)' = OldRecords(S)
  BY <1>1 DEF OldEvents, OldRecords
<1>12. QED
  BY <1>0, <1>1, <1>2, <1>6, <1>8, <1>9, <1>10, <1>11 DEF Flight, OldEvents, OldRecords, D, P

LEMMA CommitsKeepBetween ==
  ASSUME RowsInv, RowsInv', BetweenInv, Commits, UNCHANGED <<request, began>>
  PROVE  BetweenInv'
<1>1. ASSUME InFlight \/ Done
      PROVE  /\ Past /\ Past' /\ began.commits < commits' /\ commits' \in Nat
             /\ production \subseteq production' /\ commits' = commits + 1
             /\ began.downtime \intersect downtime' \subseteq downtime
  BY <1>1, PastStays, CommitsMoveOn DEF BetweenInv
<1>2. ASSUME InFlight PROVE Flight'
  BY <1>1, <1>2, FlightStays DEF BetweenInv
<1>3. ASSUME Done PROVE Between(began, Now, commits, request.answer)'
  <2> DEFINE n == Now
             m == Now'
  <2>1. /\ ValidRecords(n.production) /\ n.production = production /\ n.downtime = downtime
    BY RowsAreValid
  <2>2. /\ ValidRecords(m.production) /\ m.production = production'
        /\ m.downtime = downtime'
    BY DEF RowsInv, ValidRecords, Now
  <2>3. /\ n.production \subseteq m.production
        /\ began.downtime \intersect m.downtime \subseteq n.downtime
        /\ began.production \subseteq n.production
        /\ began.commits \in Nat /\ began.commits <= commits /\ commits < commits'
        /\ commits \in Nat /\ commits' \in Nat
    BY <1>1, <1>3, <2>1, <2>2 DEF Past, RowsInv
  <2>4. TypedAnswer(request.answer) /\ Between(began, n, commits, request.answer)
    BY <1>3 DEF BetweenInv
  <2> HIDE DEF n, m
  <2>5. PICK d \in Nat : d = commits'
    BY <2>3
  <2>6. Between(began, m, d, request.answer)
    BY <2>1, <2>2, <2>3, <2>4, <2>5, StaysBetween
  <2>7. QED
    BY <2>5, <2>6 DEF m
<1>4. QED
  BY <1>1, <1>2, <1>3 DEF BetweenInv, InFlight, Done, TypedAnswer

(* Every row that is loaded and was not counted is of a commit after the     *)
(* beginning, and no two are of the same.                                    *)
LEMMA LoadedAreCommitted ==
  ASSUME NEW es, IsFiniteSet(es), NEW rs, IsFiniteSet(rs), NEW k \in Nat, NEW c \in Nat, k <= c,
         \A e \in es : e.updated_at \in k..(c - 1), \A r \in rs : r.id \in k..(c - 1),
         \A e, f \in es : e.updated_at = f.updated_at => e = f,
         \A q, r \in rs : q.id = r.id => q = r,
         \A e \in es, r \in rs : e.updated_at # r.id
  PROVE  Cardinality(es) + Cardinality(rs) <= c - k
<1> DEFINE stamps == {e.updated_at : e \in es}
           ids    == {r.id : r \in rs}
           f == [e \in es |-> e.updated_at]
           g == [r \in rs |-> r.id]
<1>1. f \in Bijection(es, stamps) /\ g \in Bijection(rs, ids)
  BY DEF Bijection, Injection, Surjection, IsInjective
<1>0. ExistsBijection(es, stamps) /\ ExistsBijection(rs, ids)
  BY <1>1 DEF ExistsBijection
<1>2. stamps \in SUBSET (k..(c - 1)) /\ ids \in SUBSET (k..(c - 1)) /\ stamps \intersect ids = {}
  OBVIOUS
<1> HIDE DEF stamps, ids, f, g
<1>3. /\ IsFiniteSet(stamps) /\ Cardinality(stamps) = Cardinality(es)
      /\ IsFiniteSet(ids) /\ Cardinality(ids) = Cardinality(rs)
  BY <1>0, FS_Bijection
<1>4. IsFiniteSet(k..(c - 1)) /\ Cardinality(k..(c - 1)) = c - k
  <2>1. k \in Int /\ c - 1 \in Int /\ (k > c - 1 => c - k = 0) /\ (c - 1) - k + 1 = c - k
    OBVIOUS
  <2>2. QED
    BY <2>1, FS_Interval
<1>5. Cardinality(stamps \union ids) = Cardinality(stamps) + Cardinality(ids)
  <2>1. Cardinality(stamps \intersect ids) = 0
    BY <1>2, FS_EmptySet
  <2>2. Cardinality(stamps \union ids)
          = Cardinality(stamps) + Cardinality(ids) - Cardinality(stamps \intersect ids)
    BY <1>3, FS_Union
  <2>3. Cardinality(stamps) \in Nat /\ Cardinality(ids) \in Nat
    BY <1>3, FS_CardinalityType
  <2>4. QED
    BY <2>1, <2>2, <2>3
<1>6. stamps \union ids \in SUBSET (k..(c - 1))
  BY <1>2
<1>7. Cardinality(stamps \union ids) <= Cardinality(k..(c - 1))
  BY <1>4, <1>6, FS_Subset
<1>8. QED
  BY <1>3, <1>4, <1>5, <1>7

LEMMA LoadIsBounded ==
  ASSUME RowsInv, Past, Versions(request.events), NEW P \in SUBSET production,
         Cardinality(OldEvents(request.events)) + Cardinality(OldRecords(P)) <= MaxRows
  PROVE  /\ Cardinality(request.events) + Cardinality(P) \in Nat
         /\ Cardinality(request.events) + Cardinality(P)
              <= MaxRows + (commits - began.commits)
<1> DEFINE E == request.events
           newE == E \ OldEvents(E)
           newP == P \ OldRecords(P)
<1>1. IsFiniteSet(E) /\ IsFiniteSet(P)
  BY FS_Subset DEF Versions, RowsInv
<1>2. /\ commits \in Nat /\ began.commits \in Nat /\ began.commits <= commits
      /\ MaxRows \in Nat
  BY ConstantFacts DEF RowsInv, Past
<1>3. \A e \in newE : e.updated_at \in began.commits..(commits - 1)
  BY <1>2 DEF Versions, OldEvents, EventRow
<1>4. \A r \in newP : r.id \in began.commits..(commits - 1)
  BY <1>2 DEF RowsInv, OldRecords, RecordRow
<1>5. /\ \A e, f \in newE : e.updated_at = f.updated_at => e = f
      /\ \A q, r \in newP : q.id = r.id => q = r
      /\ \A e \in newE, r \in newP : e.updated_at # r.id
  BY DEF Versions, RowsInv
<1>6. newE \in SUBSET E /\ newP \in SUBSET P
  OBVIOUS
<1>7. OldEvents(E) \in SUBSET E /\ OldRecords(P) \in SUBSET P
  BY DEF OldEvents, OldRecords
<1>8. /\ Cardinality(E) = Cardinality(OldEvents(E)) + Cardinality(newE)
      /\ Cardinality(P) = Cardinality(OldRecords(P)) + Cardinality(newP)
      /\ Cardinality(OldEvents(E)) \in Nat /\ Cardinality(newE) \in Nat
      /\ Cardinality(OldRecords(P)) \in Nat /\ Cardinality(newP) \in Nat
  <2> HIDE DEF E
  <2>1. /\ IsFiniteSet(OldEvents(E)) /\ IsFiniteSet(OldRecords(P))
        /\ Cardinality(OldEvents(E)) \in Nat /\ Cardinality(OldRecords(P)) \in Nat
        /\ Cardinality(E) \in Nat /\ Cardinality(P) \in Nat
    BY <1>1, <1>7, FS_Subset, FS_CardinalityType
  <2>2. /\ IsFiniteSet(newE) /\ IsFiniteSet(newP)
        /\ Cardinality(newE) \in Nat /\ Cardinality(newP) \in Nat
    BY <1>1, <1>6, FS_Subset, FS_CardinalityType
  <2>3. E \intersect OldEvents(E) = OldEvents(E) /\ P \intersect OldRecords(P) = OldRecords(P)
    BY <1>7
  <2>4. /\ Cardinality(newE) = Cardinality(E) - Cardinality(E \intersect OldEvents(E))
        /\ Cardinality(newP) = Cardinality(P) - Cardinality(P \intersect OldRecords(P))
    BY <1>1, <2>1, FS_Difference
  <2>5. /\ Cardinality(newE) = Cardinality(E) - Cardinality(OldEvents(E))
        /\ Cardinality(newP) = Cardinality(P) - Cardinality(OldRecords(P))
    BY <2>3, <2>4
  <2> HIDE DEF newE, newP
  <2>6. QED
    BY <2>1, <2>2, <2>5
<1>9. IsFiniteSet(newE) /\ IsFiniteSet(newP)
  BY <1>1, <1>6, FS_Subset
<1> HIDE DEF newE, newP, E
<1>10. Cardinality(newE) + Cardinality(newP) <= commits - began.commits
  BY <1>2, <1>3, <1>4, <1>5, <1>9, LoadedAreCommitted
<1>11. QED
  BY <1>2, <1>8, <1>10 DEF E

LEMMA AnswersBetween ==
  ASSUME RowsInv, RequestInv, BetweenInv, Answers, UNCHANGED <<rows, commits>>
  PROVE  BetweenInv'
<1>1. PICK a : AnswerIs(a)
  BY DEF Answers
<1>2. request' = [pc |-> "answered", kind |-> request.kind, window |-> None, source |-> None,
                  shift |-> None, counted |-> None, events |-> None, answer |-> a]
  BY <1>1, Zenon DEF AnswerIs
<1>3. request'.pc = "answered" /\ request'.answer = a
  BY <1>2
<1>4. PICK w, source, events, n : /\ w = request.window /\ source = request.source
                                  /\ events = request.events /\ n = Now
  OBVIOUS
<1>5. ValidWindow(w)
  <2>1. Served(request) /\ request.pc # "line"
    BY DEF Answers, RequestInv, Loading
  <2>2. QED
    BY <1>4, <2>1 DEF Served, ValidWindow
<1>6. Past /\ Flight /\ request.pc = "loaded"
  BY DEF BetweenInv, InFlight, Answers
<1> DEFINE D == DowntimeFilter(w, source)
           P == ProductionFilter(w, source)
<1>7. P \in SUBSET production
  BY FiltersAreFinite
<1>8. PICK k, o :
       /\ k = Cardinality(events) + Cardinality(P)
       /\ o = Result(w, events, P)
       /\ \E view : a = [status |-> 200, window |-> w, source |-> source,
                         loaded |-> k, result |-> o, overview |-> view]
  <2>1. PICK k, o :
       /\ k = Cardinality(request.events)
                + Cardinality(ProductionFilter(request.window, request.source))
       /\ o = Result(request.window, request.events,
                     ProductionFilter(request.window, request.source))
       /\ \E view :
            /\ request.kind # "oee" =>
                 view = Overview(request.window, request.shift, request.events, o.run)
            /\ a = [status |-> 200, window |-> request.window, source |-> request.source,
                    loaded |-> k, result |-> o, overview |-> view]
    BY <1>1, Zenon DEF AnswerIs
  <2>2. QED
    BY <1>4, <2>1
<1>9. /\ a.window = w /\ a.source = source /\ a.result = o /\ a.loaded = k
      /\ a.status = 200
  BY <1>8
<1>10. /\ ValidRecords(n.production) /\ ValidEvents(n.downtime)
       /\ n.production = production /\ n.downtime = downtime
  BY <1>4, RowsAreValid
<1>11. /\ Passing(n.downtime, w, source) = D /\ Overlapping(n.production, w, source) = P
  BY <1>10 DEF Passing, Overlapping, DowntimeFilter, ProductionFilter
<1>12. /\ Versions(events) /\ events \subseteq EventRow
       /\ (began.downtime \intersect n.downtime) \intersect D \subseteq events
       /\ began.production \subseteq n.production
       /\ began.commits = commits => events = D
       /\ Cardinality(OldEvents(events)) + Cardinality(OldRecords(P)) <= MaxRows
  BY <1>4, <1>6, <1>10 DEF Flight, Past, Versions
<1> HIDE DEF D, P
<1>13. a.loaded \in Nat /\ a.loaded <= MaxRows + (commits - began.commits)
  BY <1>4, <1>6, <1>7, <1>8, <1>9, <1>12, LoadIsBounded
<1>14. TypedAnswer(a) /\ Between(began, n, commits, a)
  <2>1. ValidWindow(a.window)
    BY <1>5, <1>9
  <2>2. /\ Passing(n.downtime, a.window, a.source) = D
        /\ a.result = Result(a.window, events, Overlapping(n.production, a.window, a.source))
    BY <1>8, <1>9, <1>11
  <2>3. /\ (began.downtime \intersect n.downtime)
             \intersect Passing(n.downtime, a.window, a.source) \subseteq events
        /\ began.commits = commits => events = Passing(n.downtime, a.window, a.source)
    BY <1>12, <2>2
  <2>4. QED
    BY <1>10, <1>12, <1>13, <2>1, <2>2, <2>3, GivenBetween
<1>15. began' = began /\ Now' = n /\ commits' = commits
  BY <1>4 DEF Answers, Now, rows
<1>16. Past'
  BY <1>6, <1>15 DEF Past, rows
<1>17. (TypedAnswer(request.answer) /\ Between(began, Now, commits, request.answer))'
  BY <1>3, <1>14, <1>15
<1>18. QED
  BY <1>3, <1>16, <1>17 DEF BetweenInv, InFlight

LEMMA BetweenInvStep ==
  ASSUME RowsInv, RowsInv', RequestInv, BetweenInv, [Next]_vars
  PROVE  BetweenInv'
<1>1. CASE Commits /\ UNCHANGED <<request, began, last>>
  BY <1>1, CommitsKeepBetween
<1>2. CASE UNCHANGED <<production, downtime, commits, request, began>>
  BY <1>2 DEF BetweenInv, Past, Flight, InFlight, Done, Now, DowntimeFilter, ProductionFilter,
     FromSource, TypedAnswer, OldEvents, OldRecords, Versions
<1>3. CASE UNCHANGED <<rows, commits>> /\ RequestMoves
  <2>1. /\ UNCHANGED <<line, production, downtime, commits>> /\ Now' = Now
        /\ \A w, s : /\ DowntimeFilter(w, s)' = DowntimeFilter(w, s)
                     /\ ProductionFilter(w, s)' = ProductionFilter(w, s)
    BY <1>3 DEF rows, Now, DowntimeFilter, ProductionFilter
  <2>2. CASE GivesUp \/ FindsData
    <3>1. ~InFlight' /\ ~Done'
      BY <2>2 DEF GivesUp, FindsData, InFlight, Done
    <3>2. QED
      BY <3>1 DEF BetweenInv
  <2>3. CASE BeginsQuery
    <3>1. /\ request'.pc = "count" /\ began'.commits = commits
          /\ began'.production = production /\ began'.downtime = downtime
      BY <2>3 DEF BeginsQuery, From, State
    <3>2. Past'
      BY <2>1, <3>1 DEF Past, RowsInv
    <3>3. QED
      BY <3>1, <3>2 DEF BetweenInv, InFlight, Done, Flight
  <2>4. CASE CountsDowntime \/ CountsProduction \/ LoadsDowntime
    <3>1. /\ Same /\ began' = began /\ Past /\ Flight /\ ~Done'
      BY <2>4 DEF CountsDowntime, CountsProduction, LoadsDowntime, From, BetweenInv,
         InFlight, Done
    <3>2. Past'
      BY <2>1, <3>1 DEF Past
    <3> DEFINE D == DowntimeFilter(request.window, request.source)
               P == ProductionFilter(request.window, request.source)
    <3>3. /\ D \in SUBSET downtime /\ IsFiniteSet(D) /\ IsFiniteSet(P)
          /\ DowntimeFilter(request.window, request.source)' = D
          /\ ProductionFilter(request.window, request.source)' = P
          /\ Cardinality(D) \in Nat /\ Cardinality(P) \in Nat /\ P \in SUBSET production
      BY <2>1, <3>1, FiltersAreFinite DEF Same
    <3>4. \A S : OldEvents(S)' = OldEvents(S) /\ OldRecords(S)' = OldRecords(S)
      BY <3>1 DEF OldEvents, OldRecords
    <3>5. /\ Cardinality(OldEvents(D)) \in Nat /\ Cardinality(OldEvents(D)) <= Cardinality(D)
          /\ Cardinality(OldRecords(P)) \in Nat /\ Cardinality(OldRecords(P)) <= Cardinality(P)
      <4> HIDE DEF D, P
      <4>1. QED
        BY <3>3, OldOnes
    <3>6. Flight'
      <4>1. CASE CountsDowntime
        <5>1. request'.pc = "limit" /\ request'.counted = Cardinality(D)
          BY <4>1 DEF CountsDowntime, From
        <5> HIDE DEF D, P
        <5>2. /\ request'.counted \in Nat
              /\ Cardinality(OldEvents(D)) <= request'.counted
          BY <3>3, <3>5, <5>1
        <5>3. QED
          BY <3>1, <3>3, <5>1, <5>2 DEF Flight, OldEvents, OldRecords
      <4>2. CASE CountsProduction
        <5>1. /\ request.pc = "limit" /\ request'.pc = "load"
              /\ ~(request.counted + Cardinality(P) > MaxRows)
          BY <4>2 DEF CountsProduction, From
        <5>2. request.counted \in Nat /\ Cardinality(OldEvents(D)) <= request.counted
          BY <3>1, <5>1 DEF Flight
        <5> HIDE DEF D, P
        <5>3. Cardinality(OldEvents(D)) + Cardinality(OldRecords(P)) <= MaxRows
          BY <3>3, <3>5, <5>1, <5>2, ConstantFacts
        <5>4. QED
          BY <3>1, <3>3, <5>1, <5>3 DEF Flight, OldEvents, OldRecords
      <4>3. CASE LoadsDowntime
        <5>1. request.pc = "load" /\ request'.pc = "loaded" /\ request'.events = D
          BY <4>3 DEF LoadsDowntime, From
        <5>2. Cardinality(OldEvents(D)) + Cardinality(OldRecords(P)) <= MaxRows
          BY <3>1, <5>1 DEF Flight
        <5> HIDE DEF D, P
        <5>3. Versions(D)
          BY <3>3 DEF Versions, RowsInv
        <5>4. QED
          BY <2>1, <3>1, <3>3, <5>1, <5>2, <5>3 DEF Flight, OldEvents, OldRecords, Versions
      <4>4. QED
        BY <2>4, <4>1, <4>2, <4>3
    <3>7. QED
      BY <3>1, <3>2, <3>6 DEF BetweenInv
  <2>5. CASE Answers
    BY <1>3, <2>5, AnswersBetween
  <2>6. QED
    BY <1>3, <2>2, <2>3, <2>4, <2>5 DEF RequestMoves
<1>4. CASE Serves /\ UNCHANGED <<request, began, last>>
  BY <1>2, <1>4 DEF Serves, rows
<1>5. QED
  <2>1. IsRequest(request)
    BY DEF RequestInv
  <2>2. \/ UNCHANGED <<request, began, last>>
        \/ UNCHANGED <<rows, commits>> /\ RequestMoves
    BY <2>1, StepsOfRequests
  <2>3. CASE line = FALSE /\ line' = TRUE
             /\ UNCHANGED <<production, downtime, commits, request, began, last>>
    BY <1>2, <2>3
  <2>4. QED
    BY <1>1, <1>3, <1>4, <2>2, <2>3, StepsOfRows, Zenon

(* An answer is between the state when the query began and the state when  *)
(* it answered, though its statements read different states, and though    *)
(* events are closed, reopened, moved and reclassified meanwhile: no whole *)
(* second of an event that stayed as it was is taken for run time. It      *)
(* holds no more rows than the limit and what was committed since; and if  *)
(* nothing was, it is exact, each stretch of run time cut to whole seconds *)
(* as the code does.                                                       *)
THEOREM AnswersAreOfTheirTime == Spec => []AnswersAreBetween
<1>1. Init => RequestInv /\ BetweenInv
  BY DEF Init, RequestInv, WindowIsTheShiftSoFar, Idle, IsRequest, Loading, BetweenInv,
     InFlight, Done
<1>2. RowsInv /\ RowsInv' /\ RequestInv /\ BetweenInv /\ [Next]_vars
        => RequestInv' /\ BetweenInv'
  BY RequestInvStep, BetweenInvStep
<1>3. BetweenInv => AnswersAreBetween
  <2>1. SUFFICES ASSUME BetweenInv, NEW kind \in {"oee", "overview"}, Answered(kind)
                 PROVE  Between(began, Now, commits, request.answer)
    BY DEF AnswersAreBetween, Between, Exact, Running, Common, Unchanged, Now, Counted, Inside,
       StandsAt
  <2>2. QED
    BY <2>1 DEF BetweenInv, Answered, Done
<1>4. QED
  BY <1>1, <1>2, <1>3, RowsInvHolds, PTL DEF Spec

-----------------------------------------------------------------------------
(* The sums of the overview. Pairs(w, es) are the instants and the events    *)
(* that stop them.                                                           *)

Stops(e, w) == {t \in Instants(w) : e.start <= t /\ t < EndOf(e, w)}

Pairs(w, es) == {x \in Instants(w) \X es : x[2].start <= x[1] /\ x[1] < EndOf(x[2], w)}

TicksIn(e, w) == Min({EndOf(e, w), w.end}) - Max({e.start, w.start})

Overlaps(e, w) ==
  /\ e \in EventRow /\ (e.end # None => e.start < e.end)
  /\ e.start < w.end /\ (e.end # None => e.end > w.start)

LEMMA MinAndMax ==
  ASSUME NEW a \in Int, NEW b \in Int
  PROVE  /\ Min({a, b}) = IF a <= b THEN a ELSE b
         /\ Max({a, b}) = IF a >= b THEN a ELSE b
<1>1. PICK x \in {a, b} : \A y \in {a, b} : x <= y
  OBVIOUS
<1>2. PICK z \in {a, b} : \A y \in {a, b} : z >= y
  OBVIOUS
<1>3. Min({a, b}) \in {a, b} /\ \A y \in {a, b} : Min({a, b}) <= y
  BY <1>1, Zenon DEF Min
<1>4. Max({a, b}) \in {a, b} /\ \A y \in {a, b} : Max({a, b}) >= y
  BY <1>2, Zenon DEF Max
<1>5. QED
  BY <1>3, <1>4

(* An event stops as many ticks as it has within the window, from the later  *)
(* of the two starts on, and its seconds are those of what it stops.         *)
LEMMA TicksAreStops ==
  ASSUME NEW w, ValidWindow(w), NEW e, Overlaps(e, w)
  PROVE  LET first == Max({e.start, w.start}) IN
         /\ TicksIn(e, w) \in Nat /\ first \in Int
         /\ Stops(e, w) = first..(first + TicksIn(e, w) - 1)
         /\ SecondsIn(e, w) \in Nat /\ SecondsIn(e, w) = TicksIn(e, w) \div TicksPerSecond
         /\ SecondsIn(e, w) = SecondsOf(Stops(e, w))
<1> DEFINE first == Max({e.start, w.start})
           end == Min({EndOf(e, w), w.end})
           n == TicksIn(e, w)
<1>1. /\ w.start \in Int /\ w.end \in Int /\ w.start < w.end
      /\ e.start \in Int /\ EndOf(e, w) \in Int
      /\ e.start < w.end /\ e.start < EndOf(e, w) /\ w.start < EndOf(e, w)
  BY DEF ValidWindow, Overlaps, EventRow, EndOf
<1>2. /\ first = IF e.start >= w.start THEN e.start ELSE w.start
      /\ end = IF EndOf(e, w) <= w.end THEN EndOf(e, w) ELSE w.end
      /\ n = end - first /\ SecondsIn(e, w) = Seconds(Window(first, end))
  BY <1>1, MinAndMax DEF TicksIn, SecondsIn
<1> HIDE DEF first, end, n
<1>3. /\ first \in Int /\ end \in Int /\ n \in Nat /\ first < end
      /\ end - 1 = first + n - 1
  BY <1>1, <1>2
<1>4. Stops(e, w) = first..(end - 1)
  BY <1>1, <1>2 DEF Stops, Instants
<1> DEFINE v == Window(first, end)
<1>5. v.start = first /\ v.end = end
  BY DEF Window
<1> HIDE DEF v
<1>6. Stops(e, w) = Instants(v)
  BY <1>4, <1>5 DEF Instants
<1>7. Seconds(v) = SecondsOf(Instants(v)) /\ Seconds(v) = n \div TicksPerSecond
  BY <1>2, <1>3, <1>5, SecondsOfIntervals DEF Seconds
<1>8. n \div TicksPerSecond \in Nat
  BY <1>3, Quotients
<1>9. QED
  BY <1>2, <1>3, <1>4, <1>6, <1>7, <1>8 DEF first, n, v

LEMMA NthOfRange ==
  ASSUME NEW s \in Int, NEW n \in Nat
  PROVE  /\ \A i \in 1..n : s + i - 1 \in s..(s + n - 1)
         /\ \A t \in s..(s + n - 1) : t - s + 1 \in 1..n /\ s + (t - s + 1) - 1 = t
OBVIOUS

(* So the ticks of events add up to their pairs.                             *)
LEMMA TicksArePairs ==
  ASSUME NEW w, ValidWindow(w), NEW es, IsFiniteSet(es), \A e \in es : Overlaps(e, w)
  PROVE  LET g == [e \in es |-> TicksIn(e, w)] IN
         /\ Weight(g, es) = Cardinality(Pairs(w, es))
         /\ IsFiniteSet(Pairs(w, es)) /\ Cardinality(Pairs(w, es)) \in Nat
<1> DEFINE g == [e \in es |-> TicksIn(e, w)]
           first == [e \in es |-> Max({e.start, w.start})]
           U == Units(g, es)
           f == [u \in U |-> <<first[u[1]] + u[2] - 1, u[1]>>]
<1>1. \A e \in es : /\ g[e] \in Nat /\ first[e] \in Int
                    /\ Stops(e, w) = first[e]..(first[e] + g[e] - 1)
  BY TicksAreStops
<1>2. \A x : x \in Pairs(w, es) <=> \E e \in es : \E t \in Stops(e, w) : x = <<t, e>>
  BY DEF Pairs, Stops
<1>3. DOMAIN g = es
  OBVIOUS
<1> HIDE DEF g, first
<1>4. \A u \in U : /\ u = <<u[1], u[2]>> /\ u[1] \in es /\ u[2] \in Int
                   /\ 1 <= u[2] /\ u[2] <= g[u[1]]
  BY <1>1, UnitsOf
<1>5. f \in [U -> Pairs(w, es)]
  <2>1. ASSUME NEW u \in U PROVE <<first[u[1]] + u[2] - 1, u[1]>> \in Pairs(w, es)
    <3>1. PICK e, i : e = u[1] /\ i = u[2] /\ e \in es /\ i \in 1..g[e]
      BY <1>1, <1>4
    <3>2. first[e] + i - 1 \in Stops(e, w)
      BY <1>1, <3>1, NthOfRange
    <3>3. QED
      BY <1>2, <3>1, <3>2
  <2> HIDE DEF U
  <2>2. QED
    BY <2>1
<1>6. \A u, v \in U : f[u] = f[v] => u = v
  <2>1. ASSUME NEW u \in U, NEW v \in U, f[u] = f[v] PROVE u = v
    <3>1. /\ first[u[1]] + u[2] - 1 = first[v[1]] + v[2] - 1 /\ u[1] = v[1]
      BY <2>1
    <3>2. u[2] = v[2]
      BY <1>1, <1>4, <3>1
    <3>3. QED
      BY <1>4, <3>1, <3>2
  <2>2. QED
    BY <2>1
<1>7. \A x \in Pairs(w, es) : \E u \in U : f[u] = x
  <2>1. ASSUME NEW x \in Pairs(w, es) PROVE \E u \in U : f[u] = x
    <3>1. PICK e, t : e \in es /\ t \in Stops(e, w) /\ x = <<t, e>>
      BY <1>2
    <3>2. PICK i : i \in 1..g[e] /\ first[e] + i - 1 = t
      BY <1>1, <3>1, NthOfRange
    <3>3. <<e, i>> \in U
      BY <3>1, <3>2, UnitsOf
    <3>4. f[<<e, i>>] = x
      BY <3>1, <3>2, <3>3
    <3>5. QED
      BY <3>3, <3>4
  <2>2. QED
    BY <2>1
<1>8. f \in Bijection(U, Pairs(w, es))
  BY <1>5, <1>6, <1>7, Fun_IsBij
<1>9. IsFiniteSet(U) /\ Weight(g, es) = Cardinality(U)
  BY <1>1, <1>3, UnitsAreFinite DEF Weight
<1> HIDE DEF U, f
<1>10. IsFiniteSet(Pairs(w, es)) /\ Cardinality(Pairs(w, es)) = Cardinality(U)
  BY <1>8, <1>9, FS_Bijection DEF ExistsBijection
<1>11. QED
  BY <1>9, <1>10, FS_CardinalityType DEF g

(* Their seconds are the pairs but for less than a second for each event.    *)
LEMMA PairsInSeconds ==
  ASSUME NEW w, ValidWindow(w), NEW es, IsFiniteSet(es), \A e \in es : Overlaps(e, w)
  PROVE  LET f == [e \in es |-> SecondsIn(e, w)] IN
         /\ SumFunction(f) = Cardinality(Units(f, es)) /\ SumFunction(f) \in Nat
         /\ IsFiniteSet(Units(f, es))
         /\ \E p, q \in Nat : /\ p = SumFunction(f) * TicksPerSecond
                              /\ q = Cardinality(es) * (TicksPerSecond - 1)
                              /\ p <= Cardinality(Pairs(w, es))
                              /\ Cardinality(Pairs(w, es)) <= p + q
<1> DEFINE f == [e \in es |-> SecondsIn(e, w)]
           g == [e \in es |-> TicksIn(e, w)]
<1>1. \A e \in es : g[e] \in Nat /\ f[e] \in Nat /\ f[e] = g[e] \div TicksPerSecond
  BY TicksAreStops
<1>2. Weight(g, es) = Cardinality(Pairs(w, es)) /\ DOMAIN f = es
  BY TicksArePairs
<1> HIDE DEF f, g
<1>3. SumFunction(f) = Weight(f, es) /\ SumFunction(f) \in Nat /\ IsFiniteSet(Units(f, es))
  BY <1>1, <1>2, SumsAreWeights, UnitsAreFinite
<1>4. PICK p \in Nat, q \in Nat :
        /\ p = Weight(f, es) * TicksPerSecond
        /\ q = Cardinality(es) * (TicksPerSecond - 1)
        /\ p <= Weight(g, es) /\ Weight(g, es) <= p + q
  BY <1>1, CutToSeconds
<1>5. /\ p = SumFunction(f) * TicksPerSecond
      /\ p <= Cardinality(Pairs(w, es)) /\ Cardinality(Pairs(w, es)) <= p + q
  BY <1>2, <1>3, <1>4
<1>6. QED
  BY <1>3, <1>4, <1>5 DEF f, Weight

(* Whatever is covered by pieces is no larger than all of them together.     *)
LEMMA PiecesCover ==
  ASSUME NEW R, IsFiniteSet(R), NEW A, NEW h, DOMAIN h = R,
         \A r \in R : IsFiniteSet(A[r]) /\ h[r] = Cardinality(A[r]),
         NEW S, \A t \in S : \E r \in R : t \in A[r]
  PROVE  Cardinality(S) <= SumFunction(h) /\ SumFunction(h) \in Nat
<1> DEFINE b(r) == CHOOSE m : m \in Bijection(1..h[r], A[r])
           U == Units(h, R)
           V == {u \in U : b(u[1])[u[2]] \in S}
           f == [u \in V |-> b(u[1])[u[2]]]
<1>1. \A r \in R : h[r] \in Nat
  BY FS_CardinalityType
<1>2. ASSUME NEW r \in R PROVE b(r) \in Bijection(1..h[r], A[r])
  <2>1. \E m : m \in Bijection(1..h[r], A[r])
    BY FS_CardinalityType DEF ExistsBijection
  <2>2. QED
    BY <2>1, Zenon
<1>3. SumFunction(h) = Cardinality(U) /\ Cardinality(U) \in Nat /\ IsFiniteSet(U)
  BY <1>1, SumsAreWeights, UnitsAreFinite DEF Weight
<1> HIDE DEF b
<1>4. \A t \in S : \E u \in V : f[u] = t
  <2>1. ASSUME NEW t \in S PROVE \E u \in V : f[u] = t
    <3>1. PICK r \in R : t \in A[r]
      OBVIOUS
    <3>3. PICK i \in 1..h[r] : b(r)[i] = t
      <4>1. b(r) \in Surjection(1..h[r], A[r])
        BY <1>2 DEF Bijection
      <4>2. QED
        BY <3>1, <4>1 DEF Surjection
    <3>4. <<r, i>> \in U
      BY UnitsOf
    <3>5. <<r, i>>[1] = r /\ <<r, i>>[2] = i
      OBVIOUS
    <3>6. <<r, i>> \in V /\ f[<<r, i>>] = t
      BY <3>3, <3>4, <3>5
    <3>7. QED
      BY <3>6
  <2>2. QED
    BY <2>1
<1>5. f \in Surjection(V, S)
  BY <1>4 DEF Surjection
<1>6. V \in SUBSET U
  OBVIOUS
<1> HIDE DEF U, V, f
<1>7. IsFiniteSet(V) /\ Cardinality(V) <= Cardinality(U) /\ Cardinality(V) \in Nat
  BY <1>3, <1>6, FS_Subset, FS_CardinalityType
<1>8. IsFiniteSet(S) /\ Cardinality(S) <= Cardinality(V)
  BY <1>5, <1>7, FS_Surjection
<1>9. Cardinality(S) \in Nat
  BY <1>8, FS_CardinalityType
<1>10. QED
  BY <1>3, <1>7, <1>8, <1>9

-----------------------------------------------------------------------------
(* The list of the reasons with the most seconds. *)

Beats(s, q, r) == s[q] > s[r] \/ (s[q] = s[r] /\ q < r)

Above(s, r) == {q \in DOMAIN s : Beats(s, q, r)}

LEMMA TopIsByRank ==
  ASSUME NEW s PROVE Top(s) = {r \in DOMAIN s : Cardinality(Above(s, r)) < TopReasons}
BY DEF Top, Above, Beats

LEMMA BeatsIsAnOrder ==
  ASSUME NEW s, DOMAIN s \subseteq Nat, \A r \in DOMAIN s : s[r] \in Nat
  PROVE  /\ \A q, r \in DOMAIN s : Beats(s, q, r) \/ Beats(s, r, q) \/ q = r
         /\ \A r \in DOMAIN s : ~Beats(s, r, r)
         /\ \A p, q, r \in DOMAIN s : Beats(s, p, q) /\ Beats(s, q, r) => Beats(s, p, r)
<1>1. \A r \in DOMAIN s : r \in Nat /\ s[r] \in Nat
  OBVIOUS
<1>2. QED
  BY <1>1 DEF Beats

LEMMA RanksAreSmall ==
  ASSUME NEW s, IsFiniteSet(DOMAIN s), DOMAIN s \subseteq Nat, \A r \in DOMAIN s : s[r] \in Nat
  PROVE  /\ \A r \in DOMAIN s : Cardinality(Above(s, r)) \in 0..(Cardinality(DOMAIN s) - 1)
         /\ \A q, r \in DOMAIN s :
              Beats(s, q, r) => Cardinality(Above(s, q)) < Cardinality(Above(s, r))
<1> DEFINE R == DOMAIN s
<1>1. ASSUME NEW r \in R
      PROVE  /\ Above(s, r) \in SUBSET R /\ Above(s, r) # R
             /\ IsFiniteSet(Above(s, r)) /\ Cardinality(Above(s, r)) \in Nat
  <2>1. Above(s, r) \in SUBSET R /\ r \notin Above(s, r)
    BY BeatsIsAnOrder DEF Above
  <2>2. IsFiniteSet(Above(s, r))
    BY <2>1, FS_Subset
  <2>3. QED
    BY <2>1, <2>2, FS_CardinalityType
<1>2. ASSUME NEW r \in R PROVE Cardinality(Above(s, r)) \in 0..(Cardinality(R) - 1)
  <2>1. /\ Cardinality(Above(s, r)) <= Cardinality(R) /\ Cardinality(Above(s, r)) # Cardinality(R)
    BY <1>1, FS_Subset
  <2>2. Cardinality(R) \in Nat /\ Cardinality(Above(s, r)) \in Nat
    BY <1>1, FS_CardinalityType
  <2>3. QED
    BY <2>1, <2>2
<1>3. ASSUME NEW q \in R, NEW r \in R, Beats(s, q, r)
      PROVE  Cardinality(Above(s, q)) < Cardinality(Above(s, r))
  <2>1. Above(s, q) \in SUBSET Above(s, r) /\ q \in Above(s, r) /\ q \notin Above(s, q)
    BY <1>3, BeatsIsAnOrder DEF Above
  <2>2. Above(s, q) # Above(s, r)
    BY <2>1
  <2>3. /\ Cardinality(Above(s, q)) <= Cardinality(Above(s, r))
        /\ Cardinality(Above(s, q)) # Cardinality(Above(s, r))
    BY <1>1, <2>1, <2>2, FS_Subset
  <2>4. QED
    BY <1>1, <2>3
<1>4. QED
  BY <1>2, <1>3

(* Ranks are different, so there are as many in the list as it has room for, *)
(* and what is left out has no more seconds.                                 *)
LEMMA TopIsFull ==
  ASSUME NEW s, IsFiniteSet(DOMAIN s), DOMAIN s \subseteq Nat, \A r \in DOMAIN s : s[r] \in Nat
  PROVE  /\ Cardinality(Top(s)) = Min({TopReasons, Cardinality(DOMAIN s)})
         /\ \A r \in Top(s), q \in DOMAIN s \ Top(s) : s[q] <= s[r]
<1> DEFINE R == DOMAIN s
           n == Cardinality(R)
           rank == [r \in R |-> Cardinality(Above(s, r))]
<1>1. n \in Nat /\ TopReasons \in Nat /\ TopReasons > 0
  BY FS_CardinalityType, ConstantFacts
<1>2. /\ \A r \in R : rank[r] \in 0..(n - 1)
      /\ \A q, r \in R : Beats(s, q, r) => rank[q] < rank[r]
  BY RanksAreSmall
<1>3. Top(s) = {r \in R : rank[r] < TopReasons}
  BY TopIsByRank
<1>4. rank \in [R -> 0..(n - 1)]
  <2>1. rank = [r \in R |-> rank[r]]
    OBVIOUS
  <2> HIDE DEF rank
  <2>2. QED
    BY <1>2, <2>1
<1> HIDE DEF rank
<1>5. \A q, r \in R : rank[q] = rank[r] => q = r
  <2>1. \A q, r \in R : Beats(s, q, r) \/ Beats(s, r, q) \/ q = r
    BY BeatsIsAnOrder
  <2>2. \A r \in R : rank[r] \in Int
    BY <1>1, <1>2
  <2>3. QED
    BY <1>2, <2>1, <2>2
<1>6. \A k \in 0..(n - 1) : \E r \in R : rank[r] = k
  <2>1. rank \in Injection(R, 0..(n - 1))
    BY <1>4, <1>5 DEF Injection, IsInjective
  <2>2. IsFiniteSet(0..(n - 1)) /\ Cardinality(0..(n - 1)) = n
    <3>1. 0 \in Int /\ n - 1 \in Int
      BY <1>1
    <3>2. /\ IsFiniteSet(0..(n - 1))
          /\ Cardinality(0..(n - 1)) = IF 0 > n - 1 THEN 0 ELSE (n - 1) - 0 + 1
      BY <3>1, FS_Interval
    <3>3. QED
      BY <1>1, <3>2
  <2>3. rank \in Surjection(R, 0..(n - 1))
    BY <2>1, <2>2, FS_Injection
  <2>4. QED
    BY <2>3 DEF Surjection
<1> DEFINE m == Min({TopReasons, n})
           T == Top(s)
           f == [r \in T |-> rank[r]]
<1>7. m \in Nat /\ m <= n /\ m <= TopReasons /\ (m = n \/ m = TopReasons)
  BY <1>1, MinAndMax
<1> HIDE DEF m
<1>8. T \in SUBSET R /\ \A r \in R : r \in T <=> rank[r] < TopReasons
  BY <1>3
<1> HIDE DEF T, R
<1>9. \A r \in R : r \in T <=> rank[r] \in 0..(m - 1)
  <2>1. ASSUME NEW r \in R PROVE r \in T <=> rank[r] \in 0..(m - 1)
    <3>1. rank[r] \in Int /\ 0 <= rank[r] /\ rank[r] <= n - 1
      BY <1>1, <1>2
    <3>2. r \in T <=> rank[r] < TopReasons
      BY <1>8
    <3>3. QED
      BY <1>1, <1>7, <3>1, <3>2
  <2>2. QED
    BY <2>1
<1>10. f \in [T -> 0..(m - 1)] /\ \A q, r \in T : f[q] = f[r] => q = r
  BY <1>5, <1>8, <1>9
<1>11. \A k \in 0..(m - 1) : \E r \in T : f[r] = k
  <2>1. ASSUME NEW k \in 0..(m - 1) PROVE \E r \in T : f[r] = k
    <3>1. k \in 0..(n - 1)
      BY <1>1, <1>7
    <3>2. PICK r \in R : rank[r] = k
      BY <1>6, <3>1
    <3>3. QED
      BY <1>9, <3>2
  <2>2. QED
    BY <2>1
<1>12. f \in Bijection(T, 0..(m - 1))
  BY <1>10, <1>11, Fun_IsBij
<1> HIDE DEF f
<1>13. Cardinality(T) = m
  <2>1. 0 \in Int /\ m - 1 \in Int
    BY <1>7
  <2>2. /\ IsFiniteSet(0..(m - 1))
        /\ Cardinality(0..(m - 1)) = IF 0 > m - 1 THEN 0 ELSE (m - 1) - 0 + 1
    BY <2>1, FS_Interval
  <2>3. IsFiniteSet(T)
    BY <1>8, FS_Subset DEF R
  <2>4. Cardinality(0..(m - 1)) = Cardinality(T)
    BY <1>12, <2>3, FS_Bijection DEF ExistsBijection
  <2>5. QED
    BY <1>7, <2>2, <2>4
<1>14. ASSUME NEW r \in T, NEW q \in R \ T PROVE s[q] <= s[r]
  <2>1. SUFFICES ASSUME s[q] > s[r] PROVE FALSE
    BY <1>8 DEF R
  <2>2. q \in R /\ r \in R /\ Beats(s, q, r)
    BY <1>8, <2>1 DEF Beats
  <2>3. rank[q] < rank[r] /\ rank[q] \in Int /\ rank[r] \in Int
    BY <1>1, <1>2, <2>2
  <2>4. rank[r] < TopReasons /\ ~(rank[q] < TopReasons)
    BY <1>8, <1>14
  <2>5. QED
    BY <1>1, <2>3, <2>4
<1>15. QED
  BY <1>13, <1>14 DEF T, R, m, n

-----------------------------------------------------------------------------
(* What the overview adds up. *)

AddsUp(w, o) ==
  /\ \A r \in DOMAIN o.seconds :
       LET ticks == Cardinality({x \in Instants(w) \X o.events :
                      x[2].reason = r /\ x[2].start <= x[1] /\ x[1] < EndOf(x[2], w)})
           lost  == ticks - o.seconds[r] * TicksPerSecond
       IN  lost \in 0..(Cardinality({e \in o.events : e.reason = r}) * (TicksPerSecond - 1))
  /\ \A e \in o.events : SecondsIn(e, w) <= o.line_seconds
  /\ o.line_seconds <= SumFunction(o.seconds) + 2 * Cardinality(o.events)
  /\ Cardinality(o.top) = Min({TopReasons, Cardinality(DOMAIN o.seconds)})
  /\ \A r \in o.top, q \in DOMAIN o.seconds \ o.top : o.seconds[q] <= o.seconds[r]

OfReason(events, r) == {e \in events : e.reason = r}

SecondsOfReason(w, events, r) == [e \in OfReason(events, r) |-> SecondsIn(e, w)]

LEMMA SecondsOfAReason ==
  ASSUME NEW w, ValidWindow(w), NEW events, IsFiniteSet(events),
         \A e \in events : Overlaps(e, w), NEW r \in {e.reason : e \in events}
  PROVE  LET es == OfReason(events, r)
             s  == SecondsByReason(w, events)[r]
             us == Units(SecondsOfReason(w, events, r), es)
         IN
         /\ s = Cardinality(us) /\ s \in Nat /\ IsFiniteSet(us)
         /\ Cardinality(Pairs(w, es)) - s * TicksPerSecond
              \in 0..(Cardinality(es) * (TicksPerSecond - 1))
<1> DEFINE es == OfReason(events, r)
           f  == SecondsOfReason(w, events, r)
           s  == SecondsByReason(w, events)[r]
<1>1. es \in SUBSET events
  BY DEF OfReason
<1>2. s = SumFunction(f) /\ f = [e \in es |-> SecondsIn(e, w)]
  BY DEF SecondsByReason, OfReason, SecondsOfReason
<1> HIDE DEF es, f, s
<1>3. IsFiniteSet(es) /\ \A x \in es : Overlaps(x, w)
  BY <1>1, FS_Subset
<1>4. /\ SumFunction(f) = Cardinality(Units(f, es)) /\ SumFunction(f) \in Nat
      /\ IsFiniteSet(Units(f, es))
      /\ \E p, q \in Nat : /\ p = SumFunction(f) * TicksPerSecond
                           /\ q = Cardinality(es) * (TicksPerSecond - 1)
                           /\ p <= Cardinality(Pairs(w, es))
                           /\ Cardinality(Pairs(w, es)) <= p + q
  BY <1>2, <1>3, PairsInSeconds
<1>5. PICK p \in Nat, q \in Nat :
        /\ p = s * TicksPerSecond /\ q = Cardinality(es) * (TicksPerSecond - 1)
        /\ p <= Cardinality(Pairs(w, es)) /\ Cardinality(Pairs(w, es)) <= p + q
  BY <1>2, <1>4
<1>6. Cardinality(Pairs(w, es)) \in Nat
  BY <1>3, TicksArePairs
<1>7. Cardinality(Pairs(w, es)) - p \in 0..q
  BY <1>5, <1>6
<1>8. QED
  BY <1>2, <1>4, <1>5, <1>7 DEF es, f, s

Standing(w, events) == {t \in Instants(w) : \E e \in events : t \in Stops(e, w)}

(* A stretch of run time begins with the window or when an event ends.       *)
LEMMA RunsBeginAtEnds ==
  ASSUME NEW w, ValidWindow(w), NEW events, IsFiniteSet(events), events \subseteq EventRow
  PROVE  LET run == Instants(w) \ Standing(w, events) IN
         /\ Bounded(run) /\ Cardinality(Stretches(run)) \in Nat
         /\ Cardinality(Stretches(run)) <= Cardinality(events) + 1
<1> DEFINE run == Instants(w) \ Standing(w, events)
           ends == {EndOf(e, w) : e \in events}
           g == [e \in events |-> EndOf(e, w)]
           begins == ends \union {w.start}
           f == [i \in Stretches(run) |-> i.start]
<1>1. w.start \in Int /\ w.end \in Int /\ w.start < w.end
  BY DEF ValidWindow
<1>2. run \in SUBSET Instants(w) /\ Bounded(run)
  BY <1>1, InstantsAreFinite
<1>3. run \subseteq Int
  BY <1>2, BoundedSets
<1>4. ASSUME NEW i \in Stretches(run) PROVE i.start \in begins
  <2>1. i.start \in Int /\ i.start \in run /\ i.start - 1 \notin run
    <3> HIDE DEF run
    <3>1. QED
      BY <1>3, StretchFacts
  <2>2. SUFFICES ASSUME i.start # w.start PROVE i.start \in ends
    OBVIOUS
  <2>3. i.start - 1 \in Instants(w) /\ i.start \in Instants(w)
    BY <1>1, <2>1, <2>2 DEF Instants
  <2>4. PICK e \in events : i.start - 1 \in Stops(e, w)
    BY <2>1, <2>3 DEF Standing
  <2>5. i.start \notin Stops(e, w)
    BY <2>1 DEF Standing
  <2>6. e.start \in Int /\ EndOf(e, w) \in Int
    BY <1>1 DEF EventRow, EndOf
  <2>7. EndOf(e, w) = i.start
    BY <2>1, <2>3, <2>4, <2>5, <2>6 DEF Stops
  <2>8. QED
    BY <2>7
<1>5. ASSUME NEW i \in Stretches(run), NEW j \in Stretches(run), i.start = j.start
      PROVE  i = j
  <2> HIDE DEF run
  <2>1. i.start \in Instants(i) /\ j.start \in Instants(j)
    BY <1>3, StretchFacts DEF Instants
  <2>2. QED
    BY <1>3, <1>5, <2>1, StretchesApart
<1>6. f \in Injection(Stretches(run), begins)
  <2> HIDE DEF run, begins
  <2>1. QED
    BY <1>4, <1>5 DEF Injection, IsInjective
<1>7. g \in Surjection(events, ends)
  BY DEF Surjection
<1> HIDE DEF run, ends, f, g
<1>8. IsFiniteSet(ends) /\ Cardinality(ends) <= Cardinality(events)
  BY <1>7, FS_Surjection
<1>9. Cardinality(ends) \in Nat /\ Cardinality(events) \in Nat
  BY <1>8, FS_CardinalityType
<1>10. IsFiniteSet(begins) /\ Cardinality(begins) <= Cardinality(ends) + 1
  <2> DEFINE x == w.start
  <2> HIDE DEF x
  <2>1. /\ IsFiniteSet(ends \union {x})
        /\ Cardinality(ends \union {x}) = Cardinality(ends) \/
             Cardinality(ends \union {x}) = Cardinality(ends) + 1
    BY <1>8, <1>9, FS_AddElement
  <2>2. QED
    BY <1>9, <2>1 DEF x
<1> HIDE DEF begins
<1>11. IsFiniteSet(Stretches(run)) /\ Cardinality(Stretches(run)) <= Cardinality(begins)
  BY <1>6, <1>10, FS_Injection
<1>12. Cardinality(Stretches(run)) \in Nat /\ Cardinality(begins) \in Nat
  BY <1>10, <1>11, FS_CardinalityType
<1>13. QED
  BY <1>2, <1>8, <1>9, <1>10, <1>11, <1>12 DEF run

(* What is lost per stretch and per event is not more than two seconds an    *)
(* event.                                                                    *)
LEMMA LossIsBounded ==
  ASSUME NEW all \in Nat, NEW run \in Nat, NEW logged \in Nat, NEW n \in Nat, NEW s \in Nat,
         s <= n + 1, NEW ticks \in Nat,
         all * TicksPerSecond <= ticks,
         ticks <= (run * TicksPerSecond + s * (TicksPerSecond - 1))
                    + (logged * TicksPerSecond + n * (TicksPerSecond - 1))
  PROVE  all - run <= logged + 2 * n
<1>1. PICK l \in Nat : l = TicksPerSecond - 1 /\ TicksPerSecond = l + 1
  <2>1. TicksPerSecond \in Nat /\ TicksPerSecond > 0
    BY ConstantFacts
  <2>2. TicksPerSecond - 1 \in Nat /\ TicksPerSecond = (TicksPerSecond - 1) + 1
    BY <2>1
  <2>3. QED
    BY <2>2
<1>2. PICK d \in Nat : n + 1 = s + d
  <2>1. n + 1 - s \in Nat /\ n + 1 = s + (n + 1 - s)
    OBVIOUS
  <2>2. QED
    BY <2>1
<1>3. PICK a, r, g, sl, nl, dl \in Nat :
        /\ a = all * l /\ r = run * l /\ g = logged * l
        /\ sl = s * l /\ nl = n * l /\ dl = d * l
  BY <1>1
<1>4. /\ all * TicksPerSecond = a + all /\ run * TicksPerSecond = r + run
      /\ logged * TicksPerSecond = g + logged
      /\ s * (TicksPerSecond - 1) = sl /\ n * (TicksPerSecond - 1) = nl
  BY <1>1, <1>3
<1>5. nl + l = sl + dl
  <2>1. (n + 1) * l = n * l + l /\ (s + d) * l = s * l + d * l
    BY <1>1
  <2>2. QED
    BY <1>2, <1>3, <2>1
<1>6. a + all <= r + run + (nl + l) + g + logged + nl
  BY <1>1, <1>3, <1>4, <1>5
<1>7. SUFFICES ASSUME all > run + logged + 2 * n PROVE FALSE
  OBVIOUS
<1>8. PICK z \in Nat : all = run + logged + 2 * n + 1 + z
  <2>1. all - run - logged - 2 * n - 1 \in Nat
    BY <1>7
  <2>2. all = run + logged + 2 * n + 1 + (all - run - logged - 2 * n - 1)
    OBVIOUS
  <2>3. QED
    BY <2>1, <2>2
<1>9. PICK zl \in Nat : zl = z * l
  BY <1>1
<1>10. a = r + g + 2 * nl + l + zl
  <2>1. (run + logged + 2 * n + 1 + z) * l = run * l + logged * l + 2 * (n * l) + l + z * l
    BY <1>1
  <2>2. QED
    BY <1>3, <1>8, <1>9, <2>1
<1>11. QED
  BY <1>1, <1>3, <1>6, <1>8, <1>9, <1>10

LEMMA LineSecondsAreStopped ==
  ASSUME NEW w, ValidWindow(w), NEW events, IsFiniteSet(events),
         \A e \in events : Overlaps(e, w), NEW records
  PROVE  LET line_seconds == Seconds(w) - Result(w, events, records).run
             f == [e \in events |-> SecondsIn(e, w)]
         IN  /\ line_seconds \in Nat
             /\ \A e \in events : SecondsIn(e, w) <= line_seconds
             /\ line_seconds <= Cardinality(Units(f, events)) + 2 * Cardinality(events)
<1> DEFINE I == Instants(w)
           stopped == Standing(w, events)
           run == I \ stopped
           runs == {t \in I : ~\E e \in events : t \in e.start..(EndOf(e, w) - 1)}
           f == [e \in events |-> SecondsIn(e, w)]
<1>1. events \subseteq EventRow /\ w.start \in Int /\ w.end \in Int /\ w.start < w.end
  BY DEF Overlaps, ValidWindow
<1>2. Result(w, events, records).run = SecondsOf(run)
  <2>1. runs = run
    <3>1. \A t \in I : t \in Int
      BY <1>1 DEF Instants
    <3>2. \A e \in events : e.start \in Int /\ EndOf(e, w) \in Int
      BY <1>1 DEF EventRow, EndOf
    <3>3. QED
      BY <3>1, <3>2 DEF Standing, Stops
  <2>2. QED
    BY <1>1, <2>1, RunsAreUnstopped
<1>3. /\ Bounded(I) /\ IsFiniteSet(I) /\ SecondsOf(I) = Seconds(w)
      /\ Cardinality(I) = w.end - w.start /\ w.end - w.start \in Nat
  <2>1. Bounded(I) /\ IsFiniteSet(I)
    BY <1>1, InstantsAreFinite
  <2>2. SecondsOf(I) = Seconds(w)
    BY <1>1, SecondsOfIntervals
  <2>3. Cardinality(w.start..(w.end - 1)) = w.end - w.start
    <3>1. /\ w.end - 1 \in Int /\ ~(w.start > w.end - 1)
          /\ (w.end - 1) - w.start + 1 = w.end - w.start
      BY <1>1
    <3>2. QED
      BY <1>1, <3>1, FS_Interval
  <2>4. QED
    BY <1>1, <2>1, <2>2, <2>3 DEF Instants
<1>4. ASSUME NEW e \in events
      PROVE  /\ SecondsOf(run) + SecondsIn(e, w) <= Seconds(w)
             /\ SecondsIn(e, w) \in Nat
  <2>1. SecondsIn(e, w) = SecondsOf(Stops(e, w)) /\ SecondsIn(e, w) \in Nat
    BY TicksAreStops
  <2>2. /\ run \in SUBSET I /\ Stops(e, w) \in SUBSET I /\ run \intersect Stops(e, w) = {}
    BY DEF Stops, Standing
  <2> HIDE DEF I, run
  <2>3. SecondsOf(run) + SecondsOf(Stops(e, w)) <= SecondsOf(I)
    BY <1>3, <2>2, SecondsFit
  <2>4. QED
    BY <1>3, <2>1, <2>3
<1>5. SecondsOf(run) <= Seconds(w) /\ SecondsOf(run) \in Nat /\ Seconds(w) \in Nat
  <2>1. run \in SUBSET I
    OBVIOUS
  <2> HIDE DEF I, run
  <2>2. QED
    BY <1>3, <2>1, MoreSeconds
<1>6. /\ SumFunction(f) = Cardinality(Units(f, events)) /\ SumFunction(f) \in Nat
      /\ \E p, q \in Nat : /\ p = SumFunction(f) * TicksPerSecond
                           /\ q = Cardinality(events) * (TicksPerSecond - 1)
                           /\ Cardinality(Pairs(w, events)) <= p + q
  BY PairsInSeconds
<1>7. PICK n \in Nat, s \in Nat, ticks \in Nat, logged \in Nat :
        /\ n = Cardinality(events) /\ s = Cardinality(Stretches(run)) /\ s <= n + 1
        /\ ticks = w.end - w.start /\ logged = SumFunction(f)
  <2>1. Cardinality(Stretches(run)) \in Nat /\ Cardinality(Stretches(run)) <= Cardinality(events) + 1
    BY <1>1, RunsBeginAtEnds
  <2>2. Cardinality(events) \in Nat
    BY FS_CardinalityType
  <2> HIDE DEF f, run
  <2>3. QED
    BY <1>3, <1>6, <2>1, <2>2
<1>8. Cardinality(stopped) <= Cardinality(Pairs(w, events)) /\ Cardinality(stopped) \in Nat
      /\ Cardinality(Pairs(w, events)) \in Nat
  <2> DEFINE g == [x \in Pairs(w, events) |-> x[1]]
  <2>1. IsFiniteSet(Pairs(w, events)) /\ Cardinality(Pairs(w, events)) \in Nat
    BY TicksArePairs
  <2>2. g \in Surjection(Pairs(w, events), stopped)
    <3>1. \A x \in Pairs(w, events) : x[1] \in stopped
      BY DEF Pairs, Standing, Stops
    <3>2. ASSUME NEW t \in stopped PROVE \E x \in Pairs(w, events) : x[1] = t
      <4>1. PICK e \in events : t \in Stops(e, w)
        BY DEF Standing
      <4>2. <<t, e>> \in Pairs(w, events) /\ <<t, e>>[1] = t
        BY <4>1 DEF Pairs, Stops
      <4>3. QED
        BY <4>2
    <3> HIDE DEF stopped
    <3>3. QED
      BY <3>1, <3>2 DEF Surjection
  <2> HIDE DEF g, stopped
  <2>3. QED
    BY <2>1, <2>2, FS_Surjection, FS_CardinalityType
<1>9. Cardinality(run) = ticks - Cardinality(stopped) /\ Bounded(run)
  <2>1. stopped \subseteq I /\ I \intersect stopped = stopped /\ run \in SUBSET I
    BY DEF Standing
  <2>2. Cardinality(I \ stopped) = Cardinality(I) - Cardinality(I \intersect stopped)
    BY <1>3, FS_Difference
  <2>3. Bounded(run)
    BY <1>1, InstantsAreFinite
  <2>4. QED
    BY <1>3, <1>7, <2>1, <2>2, <2>3
<1> HIDE DEF I, run, f, stopped, runs
<1>10. PICK rp \in Nat, rq \in Nat :
         /\ rp = SecondsOf(run) * TicksPerSecond /\ rq = s * (TicksPerSecond - 1)
         /\ Cardinality(run) <= rp + rq
  BY <1>7, <1>9, SecondsOfSets
<1>11. PICK p \in Nat, q \in Nat :
         /\ p = logged * TicksPerSecond /\ q = n * (TicksPerSecond - 1)
         /\ Cardinality(Pairs(w, events)) <= p + q
  BY <1>6, <1>7
<1>12. ticks <= (rp + rq) + (p + q)
  BY <1>8, <1>9, <1>10, <1>11
<1>13. PICK all \in Nat : all = Seconds(w) /\ all * TicksPerSecond <= ticks
  <2>1. PICK qu \in Nat, pr \in Nat, re \in 0..(TicksPerSecond - 1) :
          qu = ticks \div TicksPerSecond /\ pr = qu * TicksPerSecond /\ ticks = pr + re
    BY Quotients
  <2>2. Seconds(w) = qu
    BY <1>7, <2>1 DEF Seconds
  <2>3. pr <= ticks
    BY <2>1, ConstantFacts
  <2>4. QED
    BY <2>1, <2>2, <2>3
<1>14. all - SecondsOf(run) <= logged + 2 * n
  BY <1>5, <1>7, <1>10, <1>11, <1>12, <1>13, LossIsBounded
<1>15. /\ Seconds(w) - SecondsOf(run) \in Nat
       /\ \A e \in events : SecondsIn(e, w) <= Seconds(w) - SecondsOf(run)
  BY <1>4, <1>5
<1>16. QED
  BY <1>2, <1>6, <1>7, <1>13, <1>14, <1>15 DEF f

LEMMA OverviewsAdd ==
  ASSUME NEW w, ValidWindow(w), NEW events, IsFiniteSet(events),
         \A e \in events : Overlaps(e, w), NEW records, NEW shift, NEW o,
         o = Overview(w, shift, events, Result(w, events, records).run)
  PROVE  AddsUp(w, o)
<1> DEFINE S == SecondsByReason(w, events)
           R == {e.reason : e \in events}
           line_seconds == Seconds(w) - Result(w, events, records).run
           f == [e \in events |-> SecondsIn(e, w)]
           U == Units(f, events)
           A == [r \in R |-> Units(SecondsOfReason(w, events, r), OfReason(events, r))]
<1>1. /\ o.seconds = S /\ o.events = events /\ o.line_seconds = line_seconds
      /\ o.top = Top(S)
  BY DEF Overview
<1>2. DOMAIN S = R
  BY DEF SecondsByReason
<1>3. \A r \in R : /\ S[r] = Cardinality(A[r]) /\ IsFiniteSet(A[r]) /\ S[r] \in Nat
                   /\ Cardinality(Pairs(w, OfReason(events, r))) - S[r] * TicksPerSecond
                        \in 0..(Cardinality(OfReason(events, r)) * (TicksPerSecond - 1))
  BY SecondsOfAReason
<1>4. R \subseteq Nat
  BY QueryConstants DEF Overlaps, EventRow
<1>5. IsFiniteSet(R)
  <2> DEFINE g == [e \in events |-> e.reason]
  <2>1. g \in Surjection(events, R)
    BY DEF Surjection
  <2> HIDE DEF g, R
  <2>2. QED
    BY <2>1, FS_Surjection
<1>6. /\ line_seconds \in Nat /\ \A e \in events : SecondsIn(e, w) <= line_seconds
      /\ line_seconds <= Cardinality(U) + 2 * Cardinality(events)
  BY LineSecondsAreStopped
<1>7. ASSUME NEW r \in R
      PROVE  Pairs(w, OfReason(events, r))
               = {x \in Instants(w) \X events :
                    x[2].reason = r /\ x[2].start <= x[1] /\ x[1] < EndOf(x[2], w)}
  BY DEF Pairs, OfReason
<1>8. ASSUME NEW u \in U PROVE \E r \in R : u \in A[r]
  <2>1. PICK e \in events : \E i \in 1..f[e] : u = <<e, i>>
    BY UnitsOf
  <2>2. e.reason \in R /\ e \in OfReason(events, e.reason)
    BY DEF OfReason
  <2>3. SecondsOfReason(w, events, e.reason)[e] = f[e]
    BY <2>2 DEF SecondsOfReason
  <2>4. u \in A[e.reason]
    BY <2>1, <2>2, <2>3, UnitsOf
  <2>5. QED
    BY <2>2, <2>4
<1>9. Cardinality(U) \in Nat /\ Cardinality(events) \in Nat
  BY PairsInSeconds, FS_CardinalityType
<1> HIDE DEF S, R, line_seconds, A, f, U
<1>10. Cardinality(U) <= SumFunction(S) /\ SumFunction(S) \in Nat
  BY <1>2, <1>3, <1>5, <1>8, PiecesCover
<1>11. line_seconds <= SumFunction(S) + 2 * Cardinality(events)
  BY <1>6, <1>9, <1>10
<1>12. /\ Cardinality(Top(S)) = Min({TopReasons, Cardinality(DOMAIN S)})
       /\ \A r \in Top(S), q \in DOMAIN S \ Top(S) : S[q] <= S[r]
  BY <1>2, <1>3, <1>4, <1>5, TopIsFull
<1>13. \A r \in R :
         Cardinality({x \in Instants(w) \X events :
             x[2].reason = r /\ x[2].start <= x[1] /\ x[1] < EndOf(x[2], w)})
           - S[r] * TicksPerSecond
           \in 0..(Cardinality({e \in events : e.reason = r}) * (TicksPerSecond - 1))
  BY <1>3, <1>7, Zenon DEF OfReason
<1>14. QED
  BY <1>1, <1>2, <1>6, <1>11, <1>12, <1>13, Zenon DEF AddsUp

(* The events an overview is about to answer with overlap its window.        *)
AddsInv ==
  /\ request.pc = "loaded" =>
       /\ IsFiniteSet(request.events)
       /\ \A e \in request.events : Overlaps(e, request.window)
  /\ Done /\ request.kind = "overview" =>
       AddsUp(request.answer.window, request.answer.overview)

LEMMA OverviewAnswersAdd ==
  ASSUME RequestInv, AddsInv, Answers PROVE AddsInv'
<1>1. PICK a : AnswerIs(a)
  BY DEF Answers
<1>2. request' = [pc |-> "answered", kind |-> request.kind, window |-> None, source |-> None,
                  shift |-> None, counted |-> None, events |-> None, answer |-> a]
  BY <1>1, Zenon DEF AnswerIs
<1>3. request'.pc = "answered" /\ request'.answer = a /\ request'.kind = request.kind
  BY <1>2
<1>4. PICK w, events, shift, records :
        /\ w = request.window /\ events = request.events /\ shift = request.shift
        /\ records = ProductionFilter(request.window, request.source)
  OBVIOUS
<1>5. ValidWindow(w)
  <2>1. Served(request) /\ request.pc # "line"
    BY DEF Answers, RequestInv, Loading
  <2>2. QED
    BY <1>4, <2>1 DEF Served, ValidWindow
<1>6. IsFiniteSet(events) /\ \A e \in events : Overlaps(e, w)
  BY <1>4 DEF AddsInv, Answers
<1>7. ASSUME request.kind = "overview" PROVE AddsUp(a.window, a.overview)
  <2>1. PICK n, o :
       /\ o = Result(request.window, request.events,
                     ProductionFilter(request.window, request.source))
       /\ \E view :
            /\ request.kind # "oee" =>
                 view = Overview(request.window, request.shift, request.events, o.run)
            /\ a = [status |-> 200, window |-> request.window, source |-> request.source,
                    loaded |-> n, result |-> o, overview |-> view]
    BY <1>1, Zenon DEF AnswerIs
  <2>2. PICK view : /\ view = Overview(w, shift, events, Result(w, events, records).run)
                    /\ a.window = w /\ a.overview = view
    BY <1>4, <1>7, <2>1
  <2>3. QED
    BY <1>5, <1>6, <2>2, OverviewsAdd
<1>8. QED
  BY <1>3, <1>7 DEF AddsInv

LEMMA AddsInvStep ==
  ASSUME RowsInv, RequestInv, AddsInv, [Next]_vars PROVE AddsInv'
<1>1. CASE UNCHANGED request
  BY <1>1 DEF AddsInv, Done
<1>2. CASE RequestMoves
  <2>1. CASE GivesUp \/ FindsData \/ BeginsQuery \/ CountsDowntime \/ CountsProduction
    <3>1. request'.pc # "loaded" /\ ~Done'
      BY <2>1 DEF GivesUp, FindsData, BeginsQuery, CountsDowntime, CountsProduction, From, Done
    <3>2. QED
      BY <3>1 DEF AddsInv
  <2>2. CASE LoadsDowntime
    <3> DEFINE w == request.window
               D == DowntimeFilter(w, request.source)
    <3>1. /\ request'.pc = "loaded" /\ request'.events = D /\ request'.window = w
      BY <2>2 DEF LoadsDowntime, From, Same
    <3>2. D \in SUBSET downtime /\ \A e \in D : Overlaps(e, w)
      BY DEF DowntimeFilter, FromSource, RowsInv, Overlaps
    <3> HIDE DEF D
    <3>3. IsFiniteSet(D)
      BY <3>2, FS_Subset DEF RowsInv
    <3>4. QED
      BY <3>1, <3>2, <3>3 DEF AddsInv, Done
  <2>3. CASE Answers
    BY <2>3, OverviewAnswersAdd
  <2>4. QED
    BY <1>2, <2>1, <2>2, <2>3 DEF RequestMoves
<1>3. QED
  BY <1>1, <1>2, StepsOfRequests DEF RequestInv

(* The seconds by reason are the time that the window and the events of the  *)
(* reason have in common, but for less than a second lost per event; the     *)
(* line stood no shorter than any event, though its stretches of run time    *)
(* are cut one by one, and longer than all events together by at most two    *)
(* seconds per event; and the reasons listed are those with the most.        *)
THEOREM SecondsAddUp == Spec => []OverviewAddsUp
<1>1. Init => RequestInv /\ AddsInv
  BY DEF Init, RequestInv, WindowIsTheShiftSoFar, Idle, IsRequest, Loading, AddsInv, Done
<1>2. RowsInv /\ RequestInv /\ AddsInv /\ [Next]_vars => RequestInv' /\ AddsInv'
  BY RequestInvStep, AddsInvStep
<1>3. AddsInv => OverviewAddsUp
  <2>1. SUFFICES ASSUME AddsInv, Answered("overview") PROVE OverviewAddsUp
    BY DEF OverviewAddsUp
  <2>2. AddsUp(request.answer.window, request.answer.overview)
    BY <2>1 DEF AddsInv, Answered, Done
  <2>3. QED
    BY <2>2 DEF AddsUp, OverviewAddsUp
<1>4. QED
  BY <1>1, <1>2, <1>3, RowsInvHolds, PTL DEF Spec
=============================================================================
