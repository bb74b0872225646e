------------------------------- MODULE OeeProofs -------------------------------
(***************************************************************************)
(* Proofs about Oee, for all windows, downtimes and counts: the type       *)
(* invariant; by the invariants of the loops, that the planned production  *)
(* time and the run time are what the downtimes leave of the window; that  *)
(* their durations in whole seconds are nested; and that the warnings      *)
(* explain the result.                                                     *)
(***************************************************************************)
EXTENDS Oee, FiniteSetTheorems, SequenceTheorems, TLAPS

(* What the operators of Intervals do to the instants that a list of       *)
(* intervals covers, for all lists.                                        *)

In(t, i) == i.start <= t /\ t < i.end

Covers(s, t) == \E k \in DOMAIN s : In(t, s[k])

(* Covers by the elements before position n. *)
CoversBefore(s, n, t) == \E k \in DOMAIN s : k < n /\ In(t, s[k])

StartsAscend(s) == \A k, l \in DOMAIN s : k < l => s[k].start <= s[l].start

(* Covered(s) as a predicate: the instants of half-open intervals. *)
LEMMA CoveredIsCovers ==
  ASSUME NEW s \in Seq(Interval)
  PROVE  /\ Covered(s) \subseteq Nat
         /\ \A t \in Nat : t \in Covered(s) <=> Covers(s, t)
<1>1. \A k \in DOMAIN s : s[k] \in Interval
  OBVIOUS
<1>2. \A k \in DOMAIN s : s[k].start \in Nat /\ s[k].end \in Nat /\ s[k].start < s[k].end
  BY <1>1 DEF Interval
<1>3. \A k \in DOMAIN s : \A t : t \in Instants(s[k]) <=> t \in Nat /\ In(t, s[k])
  BY <1>2 DEF Instants, In
<1>4. \A t : t \in Covered(s) <=> \E k \in DOMAIN s : t \in Instants(s[k])
  BY DEF Covered
<1> QED
  BY <1>3, <1>4 DEF Covers

(* Larger and Smaller are the maximum and the minimum (max and min). *)
LEMMA LargerSmaller ==
  ASSUME NEW m \in Nat, NEW n \in Nat
  PROVE  /\ Larger(m, n) \in {m, n} /\ Larger(m, n) >= m /\ Larger(m, n) >= n
         /\ Smaller(m, n) \in {m, n} /\ Smaller(m, n) <= m /\ Smaller(m, n) <= n
BY DEF Larger, Smaller

(* sorted() returns a list of the same intervals whose starts ascend. *)
LEMMA SortingsKeepTheIntervals ==
  ASSUME NEW f, NEW D, f = [d \in D |-> f[d]], IsFiniteSet(D),
         \A d \in D : f[d] \in Interval,
         NEW s \in SortingsOf(f)
  PROVE  /\ s \in Seq(Interval)
         /\ StartsAscend(s)
         /\ \A t : Covers(s, t) <=> \E d \in D : In(t, f[d])
<1>1. DOMAIN f = D
  OBVIOUS
<1> DEFINE n == Cardinality(D)
<1>2. n \in Nat
  BY FS_CardinalityType
<1> HIDE DEF n
<1>3. PICK p \in Bijection(1..n, D) :
        /\ s = [k \in 1..n |-> f[p[k]]]
        /\ \A k, l \in DOMAIN s : k < l => ~ Before(s[l], s[k])
  BY <1>1 DEF SortingsOf, n
<1>4. p \in [1..n -> D] /\ \A d \in D : \E k \in 1..n : p[k] = d
  BY <1>3 DEF Bijection, Surjection
<1>5. DOMAIN s = 1..n /\ \A k \in 1..n : s[k] = f[p[k]] /\ s[k] \in Interval
  BY <1>3, <1>4
<1>6. s \in Seq(Interval)
  <2>1. s \in [1..n -> Interval]
    BY <1>3, <1>5
  <2> QED
    BY <1>2, <2>1, SeqDef
<1>7. StartsAscend(s)
  <2>1. SUFFICES ASSUME NEW k \in DOMAIN s, NEW l \in DOMAIN s, k < l
                 PROVE  s[k].start <= s[l].start
    BY DEF StartsAscend
  <2>2. ~ (s[l].start < s[k].start)
    BY <1>3, <2>1 DEF Before
  <2>3. s[k].start \in Nat /\ s[l].start \in Nat
    BY <1>5, <2>1 DEF Interval
  <2> QED
    BY <2>2, <2>3
<1>8. \A t : Covers(s, t) <=> \E d \in D : In(t, f[d])
  BY <1>4, <1>5 DEF Covers
<1> QED
  BY <1>6, <1>7, <1>8

(* Extending the last interval or appending another keeps the list typed. *)
LEMMA UnionStepTypes ==
  ASSUME NEW s \in Seq(Interval), NEW c \in Interval
  PROVE  UnionStep(s, c) \in Seq(Interval)
<1> DEFINE n == Len(s)
           e == Larger(s[n].end, c.end)
           last == [s[n] EXCEPT !.end = e]
<1>1. CASE n > 0 /\ c.start <= s[n].end
  <2>1. n \in 1..Len(s) /\ s[n] \in Interval
    BY <1>1
  <2>2. /\ s[n].start \in Nat /\ s[n].end \in Nat /\ s[n].start < s[n].end
        /\ c.end \in Nat
    BY <2>1 DEF Interval
  <2>3. e \in Nat /\ e >= s[n].end /\ e \in {s[n].end, c.end}
    BY <2>2, LargerSmaller
  <2>4. last \in Interval
    BY <2>1, <2>2, <2>3 DEF Interval
  <2>5. [s EXCEPT ![n] = last] \in Seq(Interval)
    BY <2>1, <2>4, ExceptSeq
  <2>6. UnionStep(s, c) = [s EXCEPT ![n] = last]
    BY <1>1 DEF UnionStep
  <2> QED
    BY <2>5, <2>6
<1>2. CASE ~ (n > 0 /\ c.start <= s[n].end)
  BY <1>2 DEF UnionStep
<1> QED
  BY <1>1, <1>2

(* One iteration of union(): the result stays separated and covers the     *)
(* current interval too, if the input is sorted.                           *)
LEMMA UnionStepAdds ==
  ASSUME NEW s \in Seq(Interval), Separated(s),
         NEW c \in Interval,
         s # <<>> => s[Len(s)].start <= c.start,
         NEW r, r = UnionStep(s, c)
  PROVE  /\ r \in Seq(Interval) /\ r # <<>>
         /\ Separated(r)
         /\ r[Len(r)].start <= c.start
         /\ \A t \in Nat : Covers(r, t) <=> Covers(s, t) \/ In(t, c)
<1> DEFINE n == Len(s)
<1>1. n \in Nat /\ DOMAIN s = 1..n
  OBVIOUS
<1>2. \A k \in 1..n : /\ s[k] \in Interval
                      /\ s[k].start \in Nat /\ s[k].end \in Nat /\ s[k].start < s[k].end
  BY DEF Interval
<1>3. c.start \in Nat /\ c.end \in Nat /\ c.start < c.end
  BY DEF Interval
<1>4. \A k, l \in 1..n : k < l => s[k].end < s[l].start
  BY DEF Separated
<1>5. CASE n > 0 /\ c.start <= s[n].end
  <2> DEFINE e == Larger(s[n].end, c.end)
             last == [s[n] EXCEPT !.end = e]
  <2>1. r = [s EXCEPT ![n] = last]
    BY <1>5 DEF UnionStep
  <2>2. e \in Nat /\ e >= s[n].end /\ e >= c.end /\ e \in {s[n].end, c.end}
    BY <1>2, <1>3, <1>5, LargerSmaller
  <2>3. n \in 1..n /\ s[n].start <= c.start
    BY <1>1, <1>5
  <2>4. last \in Interval /\ last.start = s[n].start /\ last.end = e
    BY <1>2, <2>2, <2>3 DEF Interval
  <2>5. /\ r \in Seq(Interval) /\ Len(r) = n /\ DOMAIN r = 1..n
        /\ r[n].start = s[n].start /\ r[n].end = e
        /\ \A k \in 1..n : k # n => r[k] = s[k]
    <3>1. [s EXCEPT ![n] = last] \in Seq(Interval)
      BY <2>3, <2>4, ExceptSeq, <1>1
    <3>2. Len([s EXCEPT ![n] = last]) = n
      BY <2>3, <2>4, ExceptSeq, <1>1
    <3>3. r[n] = last /\ \A k \in 1..n : k # n => r[k] = s[k]
      BY <1>1, <2>1, <2>3
    <3> QED
      BY <1>1, <2>1, <2>4, <3>1, <3>2, <3>3
  <2>6. Separated(r)
    <3>1. SUFFICES ASSUME NEW k \in 1..n, NEW l \in 1..n, k < l
                   PROVE  r[k].end < r[l].start
      BY <2>5 DEF Separated
    <3>2. k # n /\ r[k].end = s[k].end /\ r[l].start = s[l].start
      BY <1>1, <2>4, <2>5, <3>1
    <3> QED
      BY <1>4, <3>1, <3>2
  <2>7. ASSUME NEW t \in Nat PROVE Covers(r, t) <=> Covers(s, t) \/ In(t, c)
    <3>1. In(t, r[n]) <=> In(t, s[n]) \/ In(t, c)
      BY <1>2, <1>3, <1>5, <2>2, <2>3, <2>4, <2>5 DEF In
    <3> QED
      BY <1>1, <2>3, <2>5, <3>1 DEF Covers
  <2> QED
    BY <1>5, <2>3, <2>4, <2>5, <2>6, <2>7
<1>6. CASE ~ (n > 0 /\ c.start <= s[n].end)
  <2>1. r = Append(s, c)
    BY <1>6 DEF UnionStep
  <2>2. /\ r \in Seq(Interval) /\ Len(r) = n + 1 /\ DOMAIN r = 1..(n + 1)
        /\ r[n + 1] = c
        /\ \A k \in 1..n : r[k] = s[k]
    BY <1>1, <2>1
  <2>3. \A k \in 1..n : s[k].end < c.start
    BY <1>1, <1>2, <1>3, <1>4, <1>6
  <2>4. Separated(r)
    BY <1>1, <1>4, <2>2, <2>3 DEF Separated
  <2>5. ASSUME NEW t \in Nat PROVE Covers(r, t) <=> Covers(s, t) \/ In(t, c)
    BY <1>1, <2>2 DEF Covers
  <2> QED
    BY <1>1, <1>3, <2>2, <2>4, <2>5
<1> QED
  BY <1>5, <1>6

(* clip() returns the common instants, or None if there are none. *)
LEMMA ClipIsIntersection ==
  ASSUME NEW i \in Interval, NEW w \in Interval, NEW c, c = Clip(i, w)
  PROVE  /\ c # None => /\ c \in Interval
                         /\ c.start \in {i.start, w.start}
                         /\ c.start >= i.start /\ c.start >= w.start
                         /\ c.end \in {i.end, w.end}
                         /\ c.end <= i.end /\ c.end <= w.end
         /\ \A t \in Nat : In(t, i) /\ In(t, w) <=> c # None /\ In(t, c)
<1> DEFINE a == Larger(i.start, w.start)
           b == Smaller(i.end, w.end)
<1>1. /\ i.start \in Nat /\ i.end \in Nat /\ w.start \in Nat /\ w.end \in Nat
  BY DEF Interval
<1>2. /\ a \in Nat /\ a \in {i.start, w.start} /\ a >= i.start /\ a >= w.start
      /\ b \in Nat /\ b \in {i.end, w.end} /\ b <= i.end /\ b <= w.end
  BY <1>1, LargerSmaller
<1>3. c = IF b <= a THEN None ELSE [start |-> a, end |-> b]
  BY DEF Clip
<1> HIDE DEF a, b
<1>4. CASE b <= a
  BY <1>1, <1>2, <1>3, <1>4 DEF In
<1>5. CASE ~ (b <= a)
  <2>1. [start |-> a, end |-> b] \in Interval
    BY <1>2, <1>5 DEF Interval
  <2>2. c # None
    BY <1>3, <1>5, <2>1, TimeIsDiscrete
  <2> QED
    BY <1>1, <1>2, <1>3, <1>5, <2>1, <2>2 DEF In
<1> QED
  BY <1>4, <1>5

(* A stretch behind the end of a list may be appended to it. *)
LEMMA AppendStretch ==
  ASSUME NEW s \in Seq(Interval), Separated(s),
         NEW a \in Nat, NEW b \in Nat, a < b,
         \A k \in DOMAIN s : s[k].end < a,
         NEW r, r = Append(s, [start |-> a, end |-> b])
  PROVE  /\ r \in Seq(Interval)
         /\ Separated(r)
         /\ \A k \in DOMAIN r : r[k].end <= b
         /\ \A t \in Nat : Covers(r, t) <=> Covers(s, t) \/ (a <= t /\ t < b)
<1> DEFINE n == Len(s)
           c == [start |-> a, end |-> b]
<1>1. c \in Interval /\ c.start = a /\ c.end = b
  BY DEF Interval
<1>2. n \in Nat /\ DOMAIN s = 1..n
  OBVIOUS
<1>3. \A k \in 1..n : s[k].start \in Nat /\ s[k].end \in Nat /\ s[k].start < s[k].end
  BY DEF Interval
<1>4. /\ r \in Seq(Interval) /\ DOMAIN r = 1..(n + 1)
      /\ r[n + 1].start = a /\ r[n + 1].end = b
      /\ \A k \in 1..n : r[k] = s[k]
  BY <1>1, <1>2
<1>5. Separated(r)
  <2>1. SUFFICES ASSUME NEW k \in 1..(n + 1), NEW l \in 1..(n + 1), k < l
                 PROVE  r[k].end < r[l].start
    BY <1>4 DEF Separated
  <2>2. k \in 1..n /\ r[k] = s[k]
    BY <1>2, <1>4, <2>1
  <2>3. CASE l = n + 1
    BY <1>2, <1>4, <2>2, <2>3
  <2>4. CASE l # n + 1
    BY <1>2, <1>4, <2>1, <2>2, <2>4 DEF Separated
  <2> QED
    BY <2>3, <2>4
<1>6. \A k \in 1..(n + 1) : r[k].end <= b
  <2>1. SUFFICES ASSUME NEW k \in 1..(n + 1) PROVE r[k].end <= b
    OBVIOUS
  <2>2. CASE k = n + 1
    BY <1>4, <2>2
  <2>3. CASE k # n + 1
    <3>1. k \in 1..n
      BY <1>2, <2>3
    <3> QED
      BY <1>2, <1>3, <1>4, <3>1
  <2> QED
    BY <2>2, <2>3
<1>7. ASSUME NEW t \in Nat PROVE Covers(r, t) <=> Covers(s, t) \/ (a <= t /\ t < b)
  <2>1. Covers(r, t) <=> Covers(s, t) \/ In(t, r[n + 1])
    BY <1>2, <1>4 DEF Covers
  <2>2. In(t, r[n + 1]) <=> a <= t /\ t < b
    BY <1>4 DEF In
  <2> QED
    BY <2>1, <2>2
<1> QED
  BY <1>4, <1>5, <1>6, <1>7

(* One iteration of subtract(): between the cursor and the next block      *)
(* everything is left.                                                     *)
LEMMA SubtractStepLeaves ==
  ASSUME NEW s \in Seq(Interval), Separated(s),
         NEW pos \in Nat, NEW c \in Interval, pos <= c.start,
         \A k \in DOMAIN s : s[k].end < pos,
         NEW r, r = SubtractStep(s, pos, c)
  PROVE  /\ r \in Seq(Interval)
         /\ Separated(r)
         /\ \A k \in DOMAIN r : r[k].end < c.end
         /\ \A t \in Nat : Covers(r, t) <=> Covers(s, t) \/ (pos <= t /\ t < c.start)
<1>1. c.start \in Nat /\ c.end \in Nat /\ c.start < c.end
  BY DEF Interval
<1>2. \A k \in DOMAIN s : s[k].end \in Nat
  BY DEF Interval
<1>3. CASE c.start > pos
  <2>1. r = Append(s, [start |-> pos, end |-> c.start])
    BY <1>3 DEF SubtractStep
  <2>2. /\ r \in Seq(Interval) /\ Separated(r)
        /\ \A k \in DOMAIN r : r[k].end <= c.start
        /\ \A t \in Nat : Covers(r, t) <=> Covers(s, t) \/ (pos <= t /\ t < c.start)
    BY <1>1, <1>3, <2>1, AppendStretch
  <2>3. \A k \in DOMAIN r : r[k].end \in Nat
    BY <2>2 DEF Interval
  <2> QED
    BY <1>1, <2>2, <2>3
<1>4. CASE ~ (c.start > pos)
  <2>1. r = s /\ c.start = pos
    BY <1>1, <1>4 DEF SubtractStep
  <2> QED
    BY <1>1, <1>2, <2>1
<1> QED
  BY <1>3, <1>4

(* What subtract() returns: behind the cursor the rest of the base. *)
LEMMA WithTailLeaves ==
  ASSUME NEW s \in Seq(Interval), Separated(s),
         NEW pos \in Nat, NEW whole \in Interval, pos <= whole.end,
         \A k \in DOMAIN s : s[k].end < pos,
         NEW r, r = WithTail(s, pos, whole)
  PROVE  /\ r \in Seq(Interval)
         /\ Separated(r)
         /\ \A t \in Nat : Covers(r, t) <=> Covers(s, t) \/ (pos <= t /\ t < whole.end)
<1>1. whole.end \in Nat
  BY DEF Interval
<1>2. CASE pos < whole.end
  <2>1. r = Append(s, [start |-> pos, end |-> whole.end])
    BY <1>2 DEF WithTail
  <2> QED
    BY <1>1, <1>2, <2>1, AppendStretch
<1>3. CASE ~ (pos < whole.end)
  BY <1>1, <1>3 DEF WithTail
<1> QED
  BY <1>2, <1>3

(* A list behind the end of another may be appended to it (extend). *)
LEMMA ConcatStretches ==
  ASSUME NEW s1 \in Seq(Interval), NEW s2 \in Seq(Interval),
         Separated(s1), Separated(s2),
         \A k \in DOMAIN s1, l \in DOMAIN s2 : s1[k].end < s2[l].start,
         NEW r, r = s1 \o s2
  PROVE  /\ r \in Seq(Interval)
         /\ Separated(r)
         /\ \A t : Covers(r, t) <=> Covers(s1, t) \/ Covers(s2, t)
<1> DEFINE m == Len(s1)
           n == Len(s2)
<1>1. m \in Nat /\ n \in Nat /\ DOMAIN s1 = 1..m /\ DOMAIN s2 = 1..n
  OBVIOUS
<1>2. /\ r \in Seq(Interval) /\ Len(r) = m + n
      /\ \A k \in 1..(m + n) : r[k] = IF k <= m THEN s1[k] ELSE s2[k - m]
  BY ConcatProperties
<1>3. /\ DOMAIN r = 1..(m + n)
      /\ \A k \in 1..m : k \in 1..(m + n) /\ r[k] = s1[k]
      /\ \A l \in 1..n : m + l \in 1..(m + n) /\ r[m + l] = s2[l]
      /\ \A k \in 1..(m + n) : k \in 1..m \/ (k - m \in 1..n /\ r[k] = s2[k - m])
  BY <1>1, <1>2
<1>4. Separated(r)
  <2>1. SUFFICES ASSUME NEW k \in 1..(m + n), NEW l \in 1..(m + n), k < l
                 PROVE  r[k].end < r[l].start
    BY <1>3 DEF Separated
  <2>2. CASE l \in 1..m
    <3>1. k \in 1..m
      BY <1>1, <2>1, <2>2
    <3> QED
      BY <1>1, <1>3, <2>1, <2>2, <3>1 DEF Separated
  <2>3. CASE l \notin 1..m /\ k \in 1..m
    <3>1. l - m \in DOMAIN s2 /\ r[l] = s2[l - m]
      BY <1>1, <1>3, <2>3
    <3>2. k \in DOMAIN s1 /\ r[k] = s1[k]
      BY <1>1, <1>3, <2>3
    <3> QED
      BY <3>1, <3>2
  <2>4. CASE l \notin 1..m /\ k \notin 1..m
    <3>1. k - m \in 1..n /\ l - m \in 1..n /\ k - m < l - m
      BY <1>1, <1>3, <2>1, <2>4
    <3>2. r[k] = s2[k - m] /\ r[l] = s2[l - m]
      BY <1>3, <2>4
    <3> QED
      BY <1>1, <3>1, <3>2 DEF Separated
  <2> QED
    BY <2>2, <2>3, <2>4
<1>5. ASSUME NEW t PROVE Covers(r, t) <=> Covers(s1, t) \/ Covers(s2, t)
  <2>1. Covers(s1, t) => Covers(r, t)
    BY <1>1, <1>3 DEF Covers
  <2>2. Covers(s2, t) => Covers(r, t)
    BY <1>1, <1>3 DEF Covers
  <2>3. Covers(r, t) => Covers(s1, t) \/ Covers(s2, t)
    BY <1>1, <1>3 DEF Covers
  <2> QED
    BY <2>1, <2>2, <2>3
<1> QED
  BY <1>2, <1>4, <1>5

--------------------------------------------------------------------------------
(* An instant at which one of the spans, closed, lasts. *)
Down(spans, t) ==
  \E k \in DOMAIN spans : spans[k].start <= t /\ t < Closed(spans[k])

ArgumentsAreValid == pc \notin {"start", "rejected"} => CountsAreValid

TypeInv == TypeOK /\ ArgumentsAreValid

--------------------------------------------------------------------------------
(* The union of resolved spans starts from a sorted list of intervals that *)
(* covers what the spans do: those that are empty once closed cover        *)
(* nothing (_resolve_spans).                                               *)
LEMMA SpansAreResolved ==
  ASSUME input \in Input,
         NEW spans \in Seq(Span),
         NEW s \in SortingsOf(ResolveSpans(spans))
  PROVE  /\ s \in Seq(Interval)
         /\ StartsAscend(s)
         /\ \A t \in Nat : Covers(s, t) <=> Down(spans, t)
<1> DEFINE D == {j \in DOMAIN spans : spans[j].start < Closed(spans[j])}
           f == ResolveSpans(spans)
<1>1. AsOf \in Nat
  BY DEF Input, AsOf, Interval
<1>2. \A j \in DOMAIN spans : spans[j].start \in Nat /\ Closed(spans[j]) \in Nat
  <2>1. \A j \in DOMAIN spans : spans[j] \in Span
    OBVIOUS
  <2> QED
    BY <1>1, <2>1 DEF Span, Closed
<1>3. IsFiniteSet(D)
  <2>1. IsFiniteSet(1..Len(spans))
    BY FS_Interval
  <2> QED
    BY <2>1, FS_Subset
<1>4. /\ DOMAIN f = D
      /\ \A d \in D : f[d] = [start |-> spans[d].start, end |-> Closed(spans[d])]
      /\ f = [d \in D |-> f[d]]
  BY DEF ResolveSpans
<1>5. \A d \in D : f[d] \in Interval
  <2>1. SUFFICES ASSUME NEW d \in D PROVE f[d] \in Interval
    OBVIOUS
  <2>2. /\ spans[d].start \in Nat /\ Closed(spans[d]) \in Nat
        /\ spans[d].start < Closed(spans[d])
    BY <1>2
  <2>3. f[d] = [start |-> spans[d].start, end |-> Closed(spans[d])]
    BY <1>4
  <2> QED
    BY <2>2, <2>3 DEF Interval
<1> HIDE DEF f
<1>6. /\ s \in Seq(Interval) /\ StartsAscend(s)
      /\ \A t : Covers(s, t) <=> \E d \in D : In(t, f[d])
  <2>1. s \in SortingsOf(f)
    BY DEF f
  <2> HIDE DEF D
  <2> QED
    BY <1>3, <1>4, <1>5, <2>1, SortingsKeepTheIntervals
<1>7. ASSUME NEW t \in Nat
      PROVE  (\E d \in D : In(t, f[d])) <=> Down(spans, t)
  <2>1. \A d \in D : In(t, f[d]) <=> spans[d].start <= t /\ t < Closed(spans[d])
    <3>1. SUFFICES ASSUME NEW d \in D
                   PROVE  In(t, f[d]) <=> spans[d].start <= t /\ t < Closed(spans[d])
      OBVIOUS
    <3>2. f[d] = [start |-> spans[d].start, end |-> Closed(spans[d])]
      BY <1>4
    <3> QED
      BY <3>2 DEF In
  <2>2. \A j \in DOMAIN spans :
          spans[j].start <= t /\ t < Closed(spans[j]) => j \in D
    BY <1>2
  <2> QED
    BY <2>1, <2>2 DEF Down
<1> QED
  BY <1>6, <1>7

(* The union of a list starts from the list itself, sorted. *)
LEMMA ListsAreSorted ==
  ASSUME NEW l \in Seq(Interval),
         NEW s \in SortingsOf(l)
  PROVE  /\ s \in Seq(Interval)
         /\ StartsAscend(s)
         /\ \A t : Covers(s, t) <=> Covers(l, t)
<1>1. IsFiniteSet(1..Len(l))
  BY FS_Interval
<1>2. DOMAIN l = 1..Len(l) /\ l = [d \in 1..Len(l) |-> l[d]]
  OBVIOUS
<1>3. \A d \in 1..Len(l) : l[d] \in Interval
  OBVIOUS
<1>4. /\ s \in Seq(Interval) /\ StartsAscend(s)
      /\ \A t : Covers(s, t) <=> \E d \in 1..Len(l) : In(t, l[d])
  BY <1>1, <1>2, <1>3, SortingsKeepTheIntervals
<1> QED
  BY <1>2, <1>4 DEF Covers

LEMMA WarningsStayTyped ==
  ASSUME NEW s \in Seq(Warnings), NEW w \in Warnings, NEW c \in BOOLEAN
  PROVE  s \o WarningIf(c, w) \in Seq(Warnings)
<1>1. WarningIf(c, w) \in Seq(Warnings)
  BY DEF WarningIf
<1> QED
  BY <1>1, ConcatProperties

(* The ratios have no zero denominator. *)
LEMMA ComponentsAreFractions ==
  ASSUME input \in Input, CountsAreValid,
         NEW planned \in Nat, NEW running \in Nat
  PROVE  Components(planned, running) \in Result
<1>1. input.good \in Nat /\ input.total \in Nat /\ input.ideal \in Nat
  BY DEF Input, CountsAreValid
<1>2. \A m, n \in Nat : Ratio(m, n) \in Fraction
  BY DEF Ratio, Fraction
<1>3. \A m, n \in Nat : m * n \in Nat
  OBVIOUS
<1>4. \A m, n \in Nat \ {0} : m * n \in Nat \ {0}
  OBVIOUS
<1> DEFINE Pair == Nat \X (Nat \ {0})
<1>5. \A r, q \in Pair : Product(r, q) \in Pair
  <2>1. SUFFICES ASSUME NEW r \in Pair, NEW q \in Pair
                 PROVE  Product(r, q) \in Pair
    OBVIOUS
  <2>2. /\ r[1] \in Nat /\ r[2] \in Nat \ {0}
        /\ q[1] \in Nat /\ q[2] \in Nat \ {0}
    OBVIOUS
  <2>3. r[1] * q[1] \in Nat /\ r[2] * q[2] \in Nat \ {0}
    BY <1>3, <1>4, <2>2
  <2> QED
    BY <2>3 DEF Product
<1>6. Fraction = Pair \union {None} /\ <<1, 1>> \in Fraction
  BY DEF Fraction
<1> HIDE DEF Pair
<1> QED
  BY <1>1, <1>2, <1>5, <1>6 DEF Components, Result

--------------------------------------------------------------------------------
(* Beginning a call leaves its variables typed. *)
LEMMA CallSubtractTypes ==
  ASSUME input \in Input,
         NEW name \in SubtractCalls,
         NEW from \in Interval,
         NEW spans \in Seq(Span),
         CallSubtract(name, from, ResolveSpans(spans))
  PROVE  /\ pc' = "union" /\ call' = name /\ next' = 1 /\ merged' = <<>>
         /\ list' \in Seq(Interval) /\ StartsAscend(list')
         /\ \A t \in Nat : Covers(list', t) <=> Down(spans, t)
         /\ base' = from /\ remaining' = <<>> /\ cursor' = from.start
BY SpansAreResolved DEF CallSubtract, CallUnion

LEMMA CallUnionTypes ==
  ASSUME NEW name \in DurationCalls,
         NEW l \in Seq(Interval),
         CallUnion(name, l)
  PROVE  /\ pc' = "union" /\ call' = name /\ next' = 1 /\ merged' = <<>>
         /\ list' \in Seq(Interval) /\ StartsAscend(list')
BY ListsAreSorted DEF CallUnion

LEMMA InputTypes ==
  ASSUME input \in Input
  PROVE  /\ input.window \in Interval
         /\ input.planned \in Seq(Span) /\ input.unplanned \in Seq(Span)
         /\ input.window.start \in Nat
BY DEF Input, Interval

(* What subtract() returns is a list of intervals. *)
LEMMA TailTypes ==
  ASSUME TypeOK
  PROVE  WithTail(remaining, cursor, base) \in Seq(Interval)
<1>1. base.end \in Nat /\ cursor \in Nat /\ remaining \in Seq(Interval)
  BY DEF TypeOK, Stretches, Interval
<1>2. CASE cursor < base.end
  <2>1. [start |-> cursor, end |-> base.end] \in Interval
    BY <1>1, <1>2 DEF Interval
  <2> QED
    BY <1>1, <1>2, <2>1 DEF WithTail
<1>3. CASE ~ (cursor < base.end)
  BY <1>1, <1>3 DEF WithTail
<1> QED
  BY <1>2, <1>3

(* One disjunct of SubtractFromSegment or the other. *)
LEMMA SegmentStepTypes ==
  ASSUME TypeOK, NEW k \in Nat \ {0}, NEW stretches \in Seq(Interval),
         SubtractFromSegment(k, stretches)
  PROVE  /\ pc' = "union" /\ next' = 1 /\ merged' = <<>> /\ segment' = k
         /\ list' \in Seq(Interval) /\ StartsAscend(list')
         /\ call' \in {"unplanned", "run_seconds"}
         /\ base' \in Interval /\ remaining' \in Seq(Interval) /\ cursor' \in Nat
         /\ call' = "unplanned" =>
              /\ k <= Len(segments)
              /\ base' = segments[k] /\ remaining' = <<>> /\ cursor' = base'.start
              /\ \A t \in Nat : Covers(list', t) <=> Down(input.unplanned, t)
         /\ call' = "run_seconds" => k > Len(segments)
<1>1. segments \in Seq(Interval) /\ input \in Input /\ segment' = k
  BY DEF TypeOK, Stretches, SubtractFromSegment
<1>2. CASE k <= Len(segments)
  <2>1. segments[k] \in Interval /\ segments[k].start \in Nat
    BY <1>1, <1>2 DEF Interval
  <2>2. CallSubtract("unplanned", segments[k], ResolveSpans(input.unplanned))
    BY <1>2 DEF SubtractFromSegment
  <2>3. "unplanned" \in SubtractCalls
    BY DEF SubtractCalls
  <2>4. /\ pc' = "union" /\ call' = "unplanned" /\ next' = 1 /\ merged' = <<>>
        /\ list' \in Seq(Interval) /\ StartsAscend(list')
        /\ \A t \in Nat : Covers(list', t) <=> Down(input.unplanned, t)
        /\ base' = segments[k] /\ remaining' = <<>> /\ cursor' = segments[k].start
    <3>1. input.unplanned \in Seq(Span)
      BY <1>1, InputTypes
    <3> QED
      BY <1>1, <2>1, <2>2, <2>3, <3>1, CallSubtractTypes
  <2> QED
    BY <1>1, <1>2, <2>1, <2>4
<1>3. CASE ~ (k <= Len(segments))
  <2>1. CallUnion("run_seconds", stretches) /\ UNCHANGED subtractVars
    BY <1>3 DEF SubtractFromSegment
  <2>2. "run_seconds" \in DurationCalls
    BY DEF DurationCalls
  <2>3. base' \in Interval /\ remaining' \in Seq(Interval) /\ cursor' \in Nat
    BY <2>1 DEF TypeOK, Stretches, subtractVars
  <2>4. k > Len(segments)
    BY <1>1, <1>3
  <2> QED
    BY <1>1, <2>1, <2>2, <2>3, <2>4, CallUnionTypes
<1> QED
  BY <1>2, <1>3

(* The variables keep their types, and past the checks the counts are valid. *)
LEMMA TypeInvHolds == Spec => []TypeInv
<1>1. Init => TypeInv
  <2> SUFFICES ASSUME Init PROVE TypeInv
    OBVIOUS
  <2>1. input \in Input
    BY InputsAreTyped DEF Init
  <2> QED
    BY <2>1, InputTypes DEF Init, TypeInv, TypeOK, ArgumentsAreValid, Stretches
<1>2. TypeInv /\ [Next]_vars => TypeInv'
  <2> SUFFICES ASSUME TypeInv, [Next]_vars PROVE TypeInv'
    OBVIOUS
  <2> USE DEF TypeInv
  <2>0. /\ input \in Input /\ input.window \in Interval
        /\ input.planned \in Seq(Span) /\ input.unplanned \in Seq(Span)
    BY InputTypes DEF TypeOK
  <2>1. CASE Reject
    BY <2>1 DEF Reject, TypeOK, ArgumentsAreValid, unionVars, subtractVars, timeVars, resultVars
  <2>2. CASE Begin
    <3>1. CallSubtract("planned", input.window, ResolveSpans(input.planned))
      BY <2>2 DEF Begin
    <3>2. "planned" \in SubtractCalls /\ input.window.start \in Nat
      BY <2>0, InputTypes DEF SubtractCalls
    <3>3. /\ pc' = "union" /\ call' = "planned" /\ next' = 1 /\ merged' = <<>>
          /\ list' \in Seq(Interval)
          /\ base' = input.window /\ remaining' = <<>> /\ cursor' = input.window.start
      BY <2>0, <3>1, <3>2, CallSubtractTypes
    <3>4. warnings' \in Seq(Warnings)
      <4>1. OpenEventClipped \in Warnings
        BY DEF Warnings
      <4>2. warnings' \in {<<>>, <<OpenEventClipped>>}
        BY <2>2 DEF Begin
      <4>3. <<>> \in Seq(Warnings) /\ <<OpenEventClipped>> \in Seq(Warnings)
        BY <4>1
      <4> QED
        BY <4>2, <4>3
    <3>5. UNCHANGED <<input, sum, timeVars, planned_s, run_s, result>> /\ CountsAreValid
      BY <2>2 DEF Begin
    <3> QED
      BY <2>0, <3>2, <3>3, <3>4, <3>5
         DEF TypeOK, ArgumentsAreValid, CountsAreValid, Stretches, SubtractCalls, timeVars
  <2>3. CASE UnionNext
    <3>1. list[next] \in Interval /\ next' \in Nat \ {0}
      BY <2>3 DEF UnionNext, TypeOK, Stretches
    <3>2. merged' \in Seq(Interval)
      <4>1. merged' = UnionStep(merged, list[next]) /\ merged \in Seq(Interval)
        BY <2>3 DEF UnionNext, TypeOK, Stretches
      <4> QED
        BY <3>1, <4>1, UnionStepTypes
    <3> QED
      BY <2>3, <3>1, <3>2
         DEF UnionNext, TypeOK, ArgumentsAreValid, CountsAreValid, Stretches,
             subtractVars, timeVars, resultVars
  <2>4. CASE UnionReturns
    BY <2>4 DEF UnionReturns, TypeOK, ArgumentsAreValid, CountsAreValid,
                unionVars, subtractVars, timeVars, resultVars
  <2>5. CASE SubtractNext
    <3> DEFINE c == Clip(merged[next], base)
    <3>1. merged[next] \in Interval /\ base \in Interval /\ next' \in Nat \ {0}
      BY <2>5 DEF SubtractNext, TypeOK, Stretches
    <3>2. c # None => c \in Interval
      BY <3>1, ClipIsIntersection
    <3> HIDE DEF c
    <3>3. remaining' \in Seq(Interval) /\ cursor' \in Nat
      <4>1. CASE c = None
        BY <2>5, <4>1 DEF SubtractNext, TypeOK, Stretches, c
      <4>2. CASE c # None
        <5>1. /\ remaining' = SubtractStep(remaining, cursor, c)
              /\ cursor' = Larger(cursor, c.end)
          BY <2>5, <4>2 DEF SubtractNext, c
        <5>2. /\ remaining \in Seq(Interval) /\ cursor \in Nat
              /\ c.start \in Nat /\ c.end \in Nat
          BY <3>2, <4>2 DEF TypeOK, Stretches, Interval
        <5>3. c.start > cursor => [start |-> cursor, end |-> c.start] \in Interval
          BY <5>2 DEF Interval
        <5>4. remaining' \in Seq(Interval)
          BY <5>1, <5>2, <5>3 DEF SubtractStep
        <5> QED
          BY <5>1, <5>2, <5>4, LargerSmaller
      <4> QED
        BY <4>1, <4>2
    <3> QED
      BY <2>5, <3>1, <3>3
         DEF SubtractNext, TypeOK, ArgumentsAreValid, CountsAreValid, Stretches,
             unionVars, timeVars, resultVars
  <2>6. CASE SumNext
    <3>1. merged[next] \in Interval /\ next' \in Nat \ {0}
      BY <2>6 DEF SumNext, TypeOK, Stretches
    <3>2. Seconds(merged[next]) \in Nat
      BY <3>1, TimeIsDiscrete DEF Seconds, Interval
    <3> QED
      BY <2>6, <3>1, <3>2
         DEF SumNext, TypeOK, ArgumentsAreValid, CountsAreValid,
             unionVars, subtractVars, timeVars, resultVars
  <2>7. CASE PlannedReturns
    <3>1. segments' = WithTail(remaining, cursor, base) /\ CallUnion("planned_seconds", segments')
      BY <2>7 DEF PlannedReturns
    <3>2. segments' \in Seq(Interval)
      BY <3>1, TailTypes
    <3>3. /\ pc' = "union" /\ call' = "planned_seconds" /\ next' = 1 /\ merged' = <<>>
          /\ list' \in Seq(Interval)
      BY <3>1, <3>2, CallUnionTypes DEF DurationCalls
    <3> QED
      BY <2>7, <3>2, <3>3
         DEF PlannedReturns, TypeOK, ArgumentsAreValid, CountsAreValid, Stretches, DurationCalls,
             subtractVars, resultVars
  <2>8. CASE PlannedMeasured
    <3>1. SubtractFromSegment(1, run) /\ run \in Seq(Interval)
      BY <2>8 DEF PlannedMeasured, TypeOK, Stretches
    <3>2. /\ pc' = "union" /\ next' = 1 /\ merged' = <<>> /\ segment' = 1
          /\ list' \in Seq(Interval) /\ call' \in {"unplanned", "run_seconds"}
          /\ base' \in Interval /\ remaining' \in Seq(Interval) /\ cursor' \in Nat
      BY <3>1, SegmentStepTypes
    <3> QED
      BY <2>8, <3>2
         DEF PlannedMeasured, TypeOK, ArgumentsAreValid, CountsAreValid, Stretches,
             SubtractCalls, DurationCalls
  <2>9. CASE UnplannedReturns
    <3>1. /\ SubtractFromSegment(segment + 1, run')
          /\ run' = run \o WithTail(remaining, cursor, base)
      BY <2>9 DEF UnplannedReturns
    <3>2. run' \in Seq(Interval)
      BY <3>1, TailTypes, ConcatProperties DEF TypeOK, Stretches
    <3>3. /\ pc' = "union" /\ next' = 1 /\ merged' = <<>> /\ segment' \in Nat
          /\ list' \in Seq(Interval) /\ call' \in {"unplanned", "run_seconds"}
          /\ base' \in Interval /\ remaining' \in Seq(Interval) /\ cursor' \in Nat
      <4>1. segment + 1 \in Nat \ {0}
        BY DEF TypeOK
      <4> QED
        BY <3>1, <3>2, <4>1, SegmentStepTypes
    <3> QED
      BY <2>9, <3>2, <3>3
         DEF UnplannedReturns, TypeOK, ArgumentsAreValid, CountsAreValid, Stretches,
             SubtractCalls, DurationCalls, resultVars
  <2>10. CASE RunMeasured
    <3>1. CountsAreValid /\ planned_s \in Nat /\ sum \in Nat
      BY <2>10 DEF RunMeasured, ArgumentsAreValid, TypeOK
    <3>2. result' \in Result
      BY <2>0, <2>10, <3>1, ComponentsAreFractions DEF RunMeasured
    <3>3. warnings' \in Seq(Warnings)
      <4>1. /\ ZeroPlannedTime \in Warnings /\ ZeroRunTime \in Warnings
            /\ PerformanceOver100 \in Warnings /\ ZeroTotalCount \in Warnings
        BY DEF Warnings
      <4> DEFINE w1 == warnings \o WarningIf(planned_s = 0, ZeroPlannedTime)
                 w2 == w1 \o WarningIf(sum = 0, ZeroRunTime)
                 w3 == w2 \o WarningIf(sum > 0 /\ input.ideal > sum, PerformanceOver100)
                 w4 == w3 \o WarningIf(input.total = 0, ZeroTotalCount)
      <4>2. warnings' = w4
        BY <2>10 DEF RunMeasured
      <4>3. warnings \in Seq(Warnings)
        BY DEF TypeOK
      <4>4. w1 \in Seq(Warnings)
        BY <4>1, <4>3, WarningsStayTyped
      <4> HIDE DEF w1
      <4>5. w2 \in Seq(Warnings)
        BY <4>1, <4>4, WarningsStayTyped
      <4> HIDE DEF w2
      <4>6. w3 \in Seq(Warnings)
        BY <4>1, <4>5, WarningsStayTyped
      <4> HIDE DEF w3
      <4>7. w4 \in Seq(Warnings)
        BY <4>1, <4>6, WarningsStayTyped
      <4> QED
        BY <4>2, <4>7
    <3> QED
      BY <2>10, <3>1, <3>2, <3>3
         DEF RunMeasured, TypeOK, ArgumentsAreValid, CountsAreValid,
             unionVars, subtractVars, timeVars
  <2>11. CASE UNCHANGED vars
    BY <2>11 DEF vars, unionVars, subtractVars, timeVars, resultVars,
                 TypeOK, ArgumentsAreValid, CountsAreValid
  <2> QED
    BY <2>1, <2>2, <2>3, <2>4, <2>5, <2>6, <2>7, <2>8, <2>9, <2>10, <2>11 DEF Next
<1> QED
  BY <1>1, <1>2, PTL DEF Spec

(* The variables keep their types (OeeResult, the lists of Interval).      *)
THEOREM TypeCorrect == Spec => []TypeOK
<1>1. TypeInv => TypeOK
  BY DEF TypeInv
<1> QED
  BY <1>1, TypeInvHolds, PTL

--------------------------------------------------------------------------------
(* Which loop may run for which call. *)
CallInv ==
  /\ pc = "union" => call \in SubtractCalls \union DurationCalls
  /\ pc = "subtract" => call \in SubtractCalls
  /\ pc = "sum" => call \in DurationCalls
  /\ pc = "done" => call = "run_seconds"
  /\ pc \in {"start", "rejected"} => call = None

(* What the list of a subtraction covers. *)
ListInv ==
  \A t \in Nat :
    /\ call = "planned" => (Covers(list, t) <=> Down(input.planned, t))
    /\ call = "unplanned" => (Covers(list, t) <=> Down(input.unplanned, t))

(* The loop of union() has merged the intervals before next. *)
UnionInv ==
  pc = "union" =>
    /\ StartsAscend(list) /\ next <= Len(list) + 1
    /\ Separated(merged)
    /\ merged # <<>> => /\ next > 1
                        /\ merged[Len(merged)].start <= list[next - 1].start
    /\ \A t \in Nat : Covers(merged, t) <=> CoversBefore(list, next, t)
    /\ call \in SubtractCalls => remaining = <<>> /\ cursor = base.start

MergedInv ==
  pc \in {"subtract", "sum"} =>
    /\ Separated(merged)
    /\ \A t \in Nat : Covers(merged, t) <=> Covers(list, t)

(* The loop of subtract(): before the cursor the blocks before next are    *)
(* removed, and behind it they do not reach.                               *)
SubtractInv ==
  pc = "subtract" =>
    /\ base.start <= cursor /\ cursor <= base.end
    /\ Separated(remaining)
    /\ \A k \in DOMAIN remaining : remaining[k].end < cursor
    /\ \/ cursor = base.start
       \/ \E k \in DOMAIN merged : k < next /\ cursor <= merged[k].end
    /\ \A t \in Nat :
         /\ Covers(remaining, t) <=> /\ base.start <= t /\ t < cursor
                                     /\ ~ CoversBefore(merged, next, t)
         /\ cursor <= t /\ t < base.end => ~ CoversBefore(merged, next, t)

(* The base of a subtraction. *)
BaseInv ==
  /\ call = "planned" => base = input.window
  /\ call = "unplanned" => segment \in DOMAIN segments /\ base = segments[segment]

(* What is known of planned_production_segments. *)
SegmentsInv ==
  /\ call \in {None, "planned"} => segments = <<>>
  /\ Separated(segments)
  /\ call \in {"planned_seconds", "unplanned", "run_seconds"} =>
       \A t \in Nat : Covers(segments, t) <=> In(t, input.window) /\ ~ Down(input.planned, t)

(* The loop of _run_time_segments has dealt with the segments before       *)
(* segment.                                                                *)
RunInv ==
  /\ call \in {None, "planned", "planned_seconds"} => run = <<>>
  /\ Separated(run)
  /\ call = "unplanned" =>
       /\ \A k \in DOMAIN run :
            \E j \in DOMAIN segments : j < segment /\ run[k].end <= segments[j].end
       /\ \A t \in Nat : Covers(run, t) <=> /\ CoversBefore(segments, segment, t)
                                            /\ ~ Down(input.unplanned, t)
  /\ call = "run_seconds" =>
       \A t \in Nat : Covers(run, t) <=> Covers(segments, t) /\ ~ Down(input.unplanned, t)

LoopInv == /\ CallInv /\ ListInv /\ UnionInv /\ MergedInv /\ SubtractInv
           /\ BaseInv /\ SegmentsInv /\ RunInv

(* The intervals before next, and one more, are those before next + 1. *)
LEMMA BeforeTheNext ==
  ASSUME NEW s \in Seq(Interval), NEW n \in Nat, NEW t
  PROVE  /\ n \in DOMAIN s =>
              (CoversBefore(s, n + 1, t) <=> CoversBefore(s, n, t) \/ In(t, s[n]))
         /\ n > Len(s) => (CoversBefore(s, n, t) <=> Covers(s, t))
         /\ ~ CoversBefore(s, 1, t)
BY DEF CoversBefore, Covers

(* union() and subtract() are called with nothing done. *)
LEMMA UnionBegins ==
  ASSUME pc' = "union", next' = 1, merged' = <<>>, list' \in Seq(Interval),
         StartsAscend(list'),
         call' \in SubtractCalls => remaining' = <<>> /\ cursor' = base'.start
  PROVE  UnionInv' /\ MergedInv' /\ SubtractInv'
<1>1. \A t : ~ Covers(merged', t) /\ ~ CoversBefore(list', next', t)
  BY BeforeTheNext DEF Covers
<1>2. Separated(merged') /\ next' <= Len(list') + 1
  BY DEF Separated
<1> QED
  BY <1>1, <1>2 DEF UnionInv, MergedInv, SubtractInv

(* What subtract() returns is what the list leaves of the base. *)
LEMMA SubtractReturns ==
  ASSUME TypeOK, MergedInv, SubtractInv,
         pc = "subtract", next \notin DOMAIN merged,
         NEW r, r = WithTail(remaining, cursor, base)
  PROVE  /\ r \in Seq(Interval) /\ Separated(r)
         /\ \A t \in Nat : Covers(r, t) <=> In(t, base) /\ ~ Covers(list, t)
         /\ \A k \in DOMAIN r : base.start <= r[k].start /\ r[k].end <= base.end
<1>1. /\ remaining \in Seq(Interval) /\ cursor \in Nat /\ base \in Interval
      /\ merged \in Seq(Interval) /\ next \in Nat \ {0}
  BY DEF TypeOK, Stretches
<1>2. /\ base.start \in Nat /\ base.end \in Nat /\ base.start < base.end
  BY <1>1 DEF Interval
<1>3. next > Len(merged)
  BY <1>1
<1>4. /\ base.start <= cursor /\ cursor <= base.end
      /\ Separated(remaining)
      /\ \A k \in DOMAIN remaining : remaining[k].end < cursor
  BY DEF SubtractInv
<1>5. /\ r \in Seq(Interval) /\ Separated(r)
      /\ \A t \in Nat : Covers(r, t) <=> Covers(remaining, t) \/ (cursor <= t /\ t < base.end)
  BY <1>1, <1>4, WithTailLeaves
<1>6. ASSUME NEW t \in Nat
      PROVE  Covers(r, t) <=> In(t, base) /\ ~ Covers(list, t)
  <2>1. CoversBefore(merged, next, t) <=> Covers(list, t)
    BY <1>1, <1>3, BeforeTheNext DEF MergedInv
  <2>2. /\ Covers(remaining, t) <=> /\ base.start <= t /\ t < cursor
                                    /\ ~ Covers(list, t)
        /\ cursor <= t /\ t < base.end => ~ Covers(list, t)
    BY <2>1 DEF SubtractInv
  <2>3. In(t, base) <=> base.start <= t /\ t < base.end
    BY DEF In
  <2> QED
    BY <1>1, <1>2, <1>4, <1>5, <2>2, <2>3
<1>7. ASSUME NEW k \in DOMAIN r
      PROVE  base.start <= r[k].start /\ r[k].end <= base.end
  <2>1. r[k].start \in Nat /\ r[k].end \in Nat /\ r[k].start < r[k].end
    BY <1>5 DEF Interval
  <2>2. In(r[k].start, r[k]) /\ In(r[k].end - 1, r[k])
    BY <2>1 DEF In
  <2>3. r[k].end - 1 \in Nat
    BY <2>1
  <2>4. Covers(r, r[k].start) /\ Covers(r, r[k].end - 1)
    BY <2>2 DEF Covers
  <2>5. In(r[k].start, base) /\ In(r[k].end - 1, base)
    BY <1>6, <2>1, <2>3, <2>4
  <2> QED
    BY <1>2, <2>1, <2>5 DEF In
<1> QED
  BY <1>5, <1>6, <1>7

(* An iteration of the loop of union(). *)
LEMMA UnionNextStep ==
  ASSUME TypeOK, TypeOK', LoopInv, UnionNext
  PROVE  LoopInv'
<1>1. /\ pc = "union" /\ pc' = "union" /\ next \in DOMAIN list /\ next' = next + 1
      /\ merged' = UnionStep(merged, list[next])
      /\ UNCHANGED <<input, call, list, base, remaining, cursor, segments, segment, run>>
  BY DEF UnionNext, subtractVars, timeVars
<1>2. CallInv' /\ ListInv' /\ MergedInv' /\ SubtractInv' /\ BaseInv' /\ SegmentsInv' /\ RunInv'
  BY <1>1 DEF LoopInv, CallInv, ListInv, MergedInv, SubtractInv, BaseInv, SegmentsInv, RunInv,
              Down, Closed, AsOf
<1>3. UnionInv'
  <2>1. /\ list \in Seq(Interval) /\ merged \in Seq(Interval) /\ next \in Nat \ {0}
        /\ list[next] \in Interval /\ next <= Len(list)
    BY <1>1 DEF TypeOK, Stretches
  <2>2. /\ StartsAscend(list) /\ Separated(merged)
        /\ merged # <<>> => next > 1 /\ merged[Len(merged)].start <= list[next - 1].start
        /\ \A t \in Nat : Covers(merged, t) <=> CoversBefore(list, next, t)
        /\ call \in SubtractCalls => remaining = <<>> /\ cursor = base.start
    BY <1>1 DEF LoopInv, UnionInv
  <2>3. merged # <<>> => merged[Len(merged)].start <= list[next].start
    <3>1. SUFFICES ASSUME merged # <<>>
                   PROVE  merged[Len(merged)].start <= list[next].start
      OBVIOUS
    <3>2. next - 1 \in DOMAIN list /\ next - 1 < next
      BY <2>1, <2>2, <3>1
    <3>3. list[next - 1].start <= list[next].start
      BY <1>1, <2>2, <3>2 DEF StartsAscend
    <3>4. /\ list[next - 1].start \in Nat /\ list[next].start \in Nat
          /\ merged[Len(merged)].start \in Nat
      BY <2>1, <3>1, <3>2 DEF Interval
    <3> QED
      BY <2>2, <3>1, <3>3, <3>4
  <2>4. /\ merged' # <<>> /\ Separated(merged')
        /\ merged'[Len(merged')].start <= list[next].start
        /\ \A t \in Nat : Covers(merged', t) <=> Covers(merged, t) \/ In(t, list[next])
    BY <1>1, <2>1, <2>2, <2>3, UnionStepAdds
  <2>5. \A t \in Nat : Covers(merged', t) <=> CoversBefore(list, next + 1, t)
    BY <1>1, <2>1, <2>2, <2>4, BeforeTheNext
  <2>6. next' > 1 /\ next' - 1 = next /\ next' <= Len(list') + 1
    BY <1>1, <2>1
  <2> QED
    BY <1>1, <2>2, <2>4, <2>5, <2>6 DEF UnionInv
<1> QED
  BY <1>2, <1>3 DEF LoopInv

(* The end of the loop of union(). *)
LEMMA UnionReturnsStep ==
  ASSUME TypeOK, TypeOK', LoopInv, UnionReturns
  PROVE  LoopInv'
<1>1. /\ pc = "union" /\ next \notin DOMAIN list /\ next' = 1
      /\ pc' = IF call \in SubtractCalls THEN "subtract" ELSE "sum"
      /\ UNCHANGED <<input, call, list, merged, base, remaining, cursor, segments, segment, run>>
  BY DEF UnionReturns, unionVars, subtractVars, timeVars
<1>2. ListInv' /\ BaseInv' /\ SegmentsInv' /\ RunInv'
  BY <1>1 DEF LoopInv, ListInv, BaseInv, SegmentsInv, RunInv, Down, Closed, AsOf
<1>3. CallInv' /\ UnionInv'
  BY <1>1 DEF LoopInv, CallInv, UnionInv, SubtractCalls, DurationCalls
<1>4. /\ list \in Seq(Interval) /\ merged \in Seq(Interval) /\ next > Len(list) /\ next \in Nat
      /\ base.start \in Nat /\ base.end \in Nat /\ base.start < base.end
  BY <1>1 DEF TypeOK, Stretches, Interval
<1>5. /\ Separated(merged)
      /\ \A t \in Nat : Covers(merged, t) <=> Covers(list, t)
      /\ call \in SubtractCalls => remaining = <<>> /\ cursor = base.start
  BY <1>1, <1>4, BeforeTheNext DEF LoopInv, UnionInv
<1>6. MergedInv'
  BY <1>1, <1>5 DEF MergedInv
<1>7. SubtractInv'
  <2>1. SUFFICES ASSUME pc' = "subtract" PROVE SubtractInv'
    BY DEF SubtractInv
  <2>2. remaining' = <<>> /\ cursor' = base.start /\ base' = base /\ next' = 1 /\ merged' = merged
    BY <1>1, <1>5, <2>1
  <2>3. Separated(remaining') /\ \A t : ~ Covers(remaining', t)
    BY <2>2 DEF Separated, Covers
  <2>4. \A t : ~ CoversBefore(merged', next', t)
    BY <1>4, <2>2, BeforeTheNext
  <2> QED
    BY <1>4, <2>2, <2>3, <2>4 DEF SubtractInv
<1> QED
  BY <1>2, <1>3, <1>6, <1>7 DEF LoopInv

(* An iteration of the loop of subtract(). *)
LEMMA SubtractNextStep ==
  ASSUME TypeOK, TypeOK', LoopInv, SubtractNext
  PROVE  LoopInv'
<1> DEFINE b == merged[next]
           c == Clip(b, base)
<1>1. /\ pc = "subtract" /\ pc' = "subtract" /\ next \in DOMAIN merged /\ next' = next + 1
      /\ c = None => UNCHANGED <<remaining, cursor>>
      /\ c # None => /\ remaining' = SubtractStep(remaining, cursor, c)
                     /\ cursor' = Larger(cursor, c.end)
      /\ UNCHANGED <<input, call, list, merged, base, segments, segment, run>>
  BY DEF SubtractNext, unionVars, timeVars
<1>2. CallInv' /\ ListInv' /\ UnionInv' /\ MergedInv' /\ BaseInv' /\ SegmentsInv' /\ RunInv'
  BY <1>1 DEF LoopInv, CallInv, ListInv, UnionInv, MergedInv, BaseInv, SegmentsInv, RunInv,
              Down, Closed, AsOf
<1>3. SubtractInv'
  <2>1. /\ remaining \in Seq(Interval) /\ cursor \in Nat /\ base \in Interval
        /\ merged \in Seq(Interval) /\ next \in Nat \ {0} /\ b \in Interval
    BY <1>1 DEF TypeOK, Stretches
  <2>2. /\ base.start \in Nat /\ base.end \in Nat /\ base.start < base.end
        /\ b.start \in Nat /\ b.end \in Nat /\ b.start < b.end
    BY <2>1 DEF Interval
  <2>3. /\ c # None => /\ c \in Interval
                       /\ c.start \in {b.start, base.start}
                       /\ c.start >= b.start /\ c.start >= base.start
                       /\ c.end \in {b.end, base.end} /\ c.end <= b.end /\ c.end <= base.end
        /\ \A t \in Nat : In(t, b) /\ In(t, base) <=> c # None /\ In(t, c)
    BY <2>1, ClipIsIntersection
  <2>4. /\ base.start <= cursor /\ cursor <= base.end
        /\ Separated(remaining)
        /\ \A k \in DOMAIN remaining : remaining[k].end < cursor
        /\ \/ cursor = base.start
           \/ \E k \in DOMAIN merged : k < next /\ cursor <= merged[k].end
        /\ \A t \in Nat :
             /\ Covers(remaining, t) <=> /\ base.start <= t /\ t < cursor
                                         /\ ~ CoversBefore(merged, next, t)
             /\ cursor <= t /\ t < base.end => ~ CoversBefore(merged, next, t)
    BY <1>1 DEF LoopInv, SubtractInv
  <2>5. \A t : CoversBefore(merged, next + 1, t) <=> CoversBefore(merged, next, t) \/ In(t, b)
    BY <1>1, <2>1, BeforeTheNext
  <2> HIDE DEF c
  <2>6. CASE c = None
    <3>1. \A t \in Nat : base.start <= t /\ t < base.end => ~ In(t, b)
      BY <2>3, <2>6 DEF In
    <3>2. \A t \in Nat :
            /\ Covers(remaining, t) <=> /\ base.start <= t /\ t < cursor
                                        /\ ~ CoversBefore(merged, next + 1, t)
            /\ cursor <= t /\ t < base.end => ~ CoversBefore(merged, next + 1, t)
      BY <2>1, <2>2, <2>4, <2>5, <3>1
    <3>3. \/ cursor = base.start
          \/ \E k \in DOMAIN merged : k < next + 1 /\ cursor <= merged[k].end
      BY <2>1, <2>4
    <3> QED
      BY <1>1, <2>4, <2>6, <3>2, <3>3 DEF SubtractInv
  <2>7. CASE c # None
    <3>1. /\ c.start \in Nat /\ c.end \in Nat /\ c.start < c.end
          /\ c.start >= base.start /\ c.end <= base.end
          /\ c.start >= b.start /\ c.end <= b.end
      BY <2>3, <2>7 DEF Interval
    <3>2. cursor <= c.start
      <4>1. CASE cursor = base.start
        BY <3>1, <4>1
      <4>2. CASE cursor # base.start
        <5>1. PICK k \in DOMAIN merged : k < next /\ cursor <= merged[k].end
          BY <2>4, <4>2
        <5>2. merged[k].end < b.start /\ merged[k].end \in Nat
          BY <1>1, <2>1, <5>1 DEF LoopInv, MergedInv, Separated, Interval
        <5> QED
          BY <2>1, <2>2, <3>1, <5>1, <5>2
      <4> QED
        BY <4>1, <4>2
    <3>3. remaining' = SubtractStep(remaining, cursor, c) /\ cursor' = c.end
      <4>1. cursor' = Larger(cursor, c.end) /\ cursor < c.end
        BY <1>1, <2>1, <2>7, <3>1, <3>2
      <4> QED
        BY <1>1, <2>1, <2>7, <3>1, <4>1 DEF Larger
    <3>4. /\ Separated(remaining')
          /\ \A k \in DOMAIN remaining' : remaining'[k].end < c.end
          /\ \A t \in Nat : Covers(remaining', t)
                              <=> Covers(remaining, t) \/ (cursor <= t /\ t < c.start)
      BY <2>1, <2>3, <2>4, <2>7, <3>2, <3>3, SubtractStepLeaves
    <3>5. ASSUME NEW t \in Nat
          PROVE  /\ Covers(remaining', t) <=> /\ base.start <= t /\ t < c.end
                                              /\ ~ CoversBefore(merged, next + 1, t)
                 /\ c.end <= t /\ t < base.end => ~ CoversBefore(merged, next + 1, t)
      <4>1. base.start <= t /\ t < base.end => (In(t, b) <=> c.start <= t /\ t < c.end)
        BY <2>3, <2>7 DEF In
      <4> QED
        BY <2>1, <2>2, <2>4, <2>5, <3>1, <3>2, <3>4, <4>1
    <3>6. next < next + 1 /\ c.end <= merged[next].end
      BY <2>1, <3>1
    <3> QED
      BY <1>1, <2>2, <3>1, <3>3, <3>4, <3>5, <3>6 DEF SubtractInv
  <2> QED
    BY <2>6, <2>7
<1> QED
  BY <1>2, <1>3 DEF LoopInv

(* subtract(window, planned downtimes) returns: what is left of the window *)
(* is the planned production time.                                         *)
LEMMA PlannedReturnsStep ==
  ASSUME TypeOK, TypeOK', LoopInv, PlannedReturns
  PROVE  LoopInv'
<1>1. /\ pc = "subtract" /\ next \notin DOMAIN merged /\ call = "planned"
      /\ segments' = WithTail(remaining, cursor, base)
      /\ CallUnion("planned_seconds", segments')
      /\ UNCHANGED <<input, segment, run>>
  BY DEF PlannedReturns
<1>2. /\ segments' \in Seq(Interval) /\ Separated(segments')
      /\ \A t \in Nat : Covers(segments', t) <=> In(t, base) /\ ~ Covers(list, t)
  BY <1>1, SubtractReturns DEF LoopInv
<1>3. /\ pc' = "union" /\ call' = "planned_seconds" /\ next' = 1 /\ merged' = <<>>
      /\ list' \in Seq(Interval) /\ StartsAscend(list')
  BY <1>1, <1>2, CallUnionTypes DEF DurationCalls
<1>4. UnionInv' /\ MergedInv' /\ SubtractInv'
  BY <1>3, UnionBegins DEF SubtractCalls
<1>5. CallInv' /\ ListInv' /\ BaseInv'
  BY <1>3 DEF CallInv, ListInv, BaseInv, DurationCalls
<1>6. SegmentsInv'
  <2>1. \A t : Down(input.planned, t)' <=> Down(input.planned, t)
    BY <1>1 DEF Down, Closed, AsOf
  <2>2. /\ base = input.window
        /\ \A t \in Nat : Covers(list, t) <=> Down(input.planned, t)
    BY <1>1 DEF LoopInv, BaseInv, ListInv
  <2>3. call' \notin {None, "planned"}
    BY <1>3, NoneIsNoCall DEF DurationCalls
  <2> QED
    BY <1>1, <1>2, <2>1, <2>2, <2>3 DEF SegmentsInv
<1>7. RunInv'
  BY <1>1, <1>3 DEF LoopInv, RunInv
<1> QED
  BY <1>4, <1>5, <1>6, <1>7 DEF LoopInv

(* The next round of _run_time_segments, or its end, after k - 1 rounds.   *)
LEMMA SegmentStep ==
  ASSUME TypeOK, LoopInv, NEW k \in Nat \ {0},
         UNCHANGED <<input, segments>>,
         call \in {"planned_seconds", "unplanned"},
         run' \in Seq(Interval), Separated(run'),
         SubtractFromSegment(k, run'),
         \A j \in DOMAIN run' :
           \E l \in DOMAIN segments : l < k /\ run'[j].end <= segments[l].end,
         \A t \in Nat : Covers(run', t) <=> /\ CoversBefore(segments, k, t)
                                            /\ ~ Down(input.unplanned, t)
  PROVE  LoopInv'
<1>1. /\ pc' = "union" /\ next' = 1 /\ merged' = <<>> /\ segment' = k
      /\ list' \in Seq(Interval) /\ StartsAscend(list')
      /\ call' \in {"unplanned", "run_seconds"}
      /\ call' = "unplanned" =>
           /\ k <= Len(segments)
           /\ base' = segments[k] /\ remaining' = <<>> /\ cursor' = base'.start
           /\ \A t \in Nat : Covers(list', t) <=> Down(input.unplanned, t)
      /\ call' = "run_seconds" => k > Len(segments)
  BY SegmentStepTypes
<1>2. UnionInv' /\ MergedInv' /\ SubtractInv'
  BY <1>1, UnionBegins DEF SubtractCalls
<1>3. segments \in Seq(Interval)
  BY DEF TypeOK, Stretches
<1>4. CallInv'
  BY <1>1 DEF CallInv, SubtractCalls, DurationCalls
<1>5. ListInv'
  BY <1>1 DEF ListInv, Down, Closed, AsOf
<1>6. BaseInv'
  BY <1>1, <1>3 DEF BaseInv
<1>0. call' \notin {None, "planned", "planned_seconds"}
  BY <1>1, NoneIsNoCall DEF SubtractCalls, DurationCalls
<1>7. SegmentsInv'
  <2>1. \A t : Down(input.planned, t)' <=> Down(input.planned, t)
    BY DEF Down, Closed, AsOf
  <2>2. \A t \in Nat : Covers(segments, t) <=> In(t, input.window) /\ ~ Down(input.planned, t)
    BY DEF LoopInv, SegmentsInv
  <2>3. Separated(segments)
    BY DEF LoopInv, SegmentsInv
  <2> QED
    BY <1>0, <2>1, <2>2, <2>3 DEF SegmentsInv
<1>8. RunInv'
  <2>1. call' = "run_seconds" => \A t : CoversBefore(segments, k, t) <=> Covers(segments, t)
    BY <1>1, <1>3, BeforeTheNext
  <2>2. \A t : Down(input.unplanned, t)' <=> Down(input.unplanned, t)
    BY DEF Down, Closed, AsOf
  <2> QED
    BY <1>0, <1>1, <2>1, <2>2 DEF RunInv
<1> QED
  BY <1>2, <1>4, <1>5, <1>6, <1>7, <1>8 DEF LoopInv

LEMMA PlannedMeasuredStep ==
  ASSUME TypeOK, TypeOK', LoopInv, PlannedMeasured
  PROVE  LoopInv'
<1>1. /\ call = "planned_seconds" /\ SubtractFromSegment(1, run)
      /\ UNCHANGED <<input, segments, run>>
  BY DEF PlannedMeasured
<1>2. run = <<>> /\ segments \in Seq(Interval)
  BY <1>1 DEF LoopInv, RunInv, TypeOK, Stretches
<1>3. /\ run' \in Seq(Interval) /\ Separated(run')
      /\ \A t : ~ Covers(run', t) /\ ~ CoversBefore(segments, 1, t)
      /\ DOMAIN run' = {}
  BY <1>1, <1>2, BeforeTheNext DEF Separated, Covers
<1> QED
  BY <1>1, <1>3, SegmentStep

(* One more segment has been dealt with. *)
LEMMA UnplannedReturnsStep ==
  ASSUME TypeOK, TypeOK', LoopInv, UnplannedReturns
  PROVE  LoopInv'
<1> DEFINE r == WithTail(remaining, cursor, base)
<1>1. /\ pc = "subtract" /\ next \notin DOMAIN merged /\ call = "unplanned"
      /\ run' = run \o r
      /\ SubtractFromSegment(segment + 1, run')
      /\ UNCHANGED <<input, segments>>
  BY DEF UnplannedReturns
<1>2. /\ run \in Seq(Interval) /\ segments \in Seq(Interval) /\ segment \in Nat
      /\ segment \in DOMAIN segments /\ base = segments[segment]
  BY <1>1 DEF LoopInv, BaseInv, TypeOK, Stretches
<1>3. /\ r \in Seq(Interval) /\ Separated(r)
      /\ \A t \in Nat : Covers(r, t) <=> In(t, base) /\ ~ Down(input.unplanned, t)
      /\ \A k \in DOMAIN r : base.start <= r[k].start /\ r[k].end <= base.end
  BY <1>1, SubtractReturns DEF LoopInv, ListInv
<1> HIDE DEF r
<1>4. /\ Separated(run)
      /\ \A k \in DOMAIN run :
           \E j \in DOMAIN segments : j < segment /\ run[k].end <= segments[j].end
      /\ \A t \in Nat : Covers(run, t) <=> /\ CoversBefore(segments, segment, t)
                                           /\ ~ Down(input.unplanned, t)
  BY <1>1 DEF LoopInv, RunInv
<1>5. \A j \in DOMAIN segments : segments[j].start \in Nat /\ segments[j].end \in Nat
  BY <1>2 DEF Interval
<1>6. \A k \in DOMAIN run, l \in DOMAIN r : run[k].end < r[l].start
  <2>1. SUFFICES ASSUME NEW k \in DOMAIN run, NEW l \in DOMAIN r
                 PROVE  run[k].end < r[l].start
    OBVIOUS
  <2>2. PICK j \in DOMAIN segments : j < segment /\ run[k].end <= segments[j].end
    BY <1>4
  <2>3. segments[j].end < base.start
    BY <1>2, <2>2 DEF LoopInv, SegmentsInv, Separated
  <2>4. run[k].end \in Nat /\ r[l].start \in Nat /\ base.start \in Nat
    BY <1>2, <1>3, <1>5 DEF Interval
  <2> QED
    BY <1>3, <1>5, <2>2, <2>3, <2>4
<1>7. /\ run' \in Seq(Interval) /\ Separated(run')
      /\ \A t : Covers(run', t) <=> Covers(run, t) \/ Covers(r, t)
  BY <1>1, <1>2, <1>3, <1>4, <1>6, ConcatStretches
<1>8. \A t \in Nat : Covers(run', t) <=> /\ CoversBefore(segments, segment + 1, t)
                                         /\ ~ Down(input.unplanned, t)
  BY <1>2, <1>3, <1>4, <1>7, BeforeTheNext
<1>9. \A j \in DOMAIN run' :
        \E l \in DOMAIN segments : l < segment + 1 /\ run'[j].end <= segments[l].end
  <2>1. SUFFICES ASSUME NEW j \in DOMAIN run'
                 PROVE  \E l \in DOMAIN segments :
                          l < segment + 1 /\ run'[j].end <= segments[l].end
    OBVIOUS
  <2>2. \/ j \in DOMAIN run /\ run'[j] = run[j]
        \/ j - Len(run) \in DOMAIN r /\ run'[j] = r[j - Len(run)]
    <3>1. /\ Len(run') = Len(run) + Len(r)
          /\ \A i \in 1..(Len(run) + Len(r)) :
               run'[i] = IF i <= Len(run) THEN run[i] ELSE r[i - Len(run)]
      BY <1>1, <1>2, <1>3, ConcatProperties
    <3>2. j \in 1..(Len(run) + Len(r)) /\ Len(run) \in Nat /\ Len(r) \in Nat
      BY <1>2, <1>3, <1>7, <2>1, <3>1
    <3> QED
      BY <1>2, <1>3, <3>1, <3>2
  <2>3. CASE j \in DOMAIN run /\ run'[j] = run[j]
    BY <1>2, <1>4, <2>3
  <2>4. CASE j - Len(run) \in DOMAIN r /\ run'[j] = r[j - Len(run)]
    BY <1>2, <1>3, <2>4
  <2> QED
    BY <2>2, <2>3, <2>4
<1>10. segment + 1 \in Nat \ {0} /\ call \in {"planned_seconds", "unplanned"}
  BY <1>1, <1>2
<1> DEFINE k == segment + 1
<1> HIDE DEF k
<1>11. /\ k \in Nat \ {0}
       /\ SubtractFromSegment(k, run')
       /\ \A j \in DOMAIN run' :
            \E l \in DOMAIN segments : l < k /\ run'[j].end <= segments[l].end
       /\ \A t \in Nat : Covers(run', t) <=> /\ CoversBefore(segments, k, t)
                                             /\ ~ Down(input.unplanned, t)
  BY <1>1, <1>8, <1>9, <1>10 DEF k
<1> QED
  BY <1>1, <1>7, <1>10, <1>11, SegmentStep

LEMMA LoopInvIsInductive ==
  ASSUME TypeOK, TypeOK', LoopInv, [Next]_vars
  PROVE  LoopInv'
<1> USE DEF LoopInv
<1>1. CASE Reject
  BY <1>1 DEF Reject, unionVars, subtractVars, timeVars, Down, Closed, AsOf,
              CallInv, ListInv, UnionInv, MergedInv, SubtractInv, BaseInv, SegmentsInv, RunInv
<1>2. CASE Begin
  <2>1. /\ CallSubtract("planned", input.window, ResolveSpans(input.planned))
        /\ UNCHANGED <<input, segments, segment, run>>
        /\ call = None
    BY <1>2 DEF Begin, timeVars, CallInv
  <2>2. input \in Input /\ input.window \in Interval /\ input.planned \in Seq(Span)
    BY InputTypes DEF TypeOK
  <2>3. /\ pc' = "union" /\ call' = "planned" /\ next' = 1 /\ merged' = <<>>
        /\ list' \in Seq(Interval) /\ StartsAscend(list')
        /\ \A t \in Nat : Covers(list', t) <=> Down(input.planned, t)
        /\ base' = input.window /\ remaining' = <<>> /\ cursor' = input.window.start
    BY <2>1, <2>2, CallSubtractTypes DEF SubtractCalls
  <2>4. UnionInv' /\ MergedInv' /\ SubtractInv'
    BY <2>3, UnionBegins
  <2>5. CallInv' /\ BaseInv'
    BY <2>1, <2>3 DEF CallInv, BaseInv, SubtractCalls
  <2>6. ListInv'
    BY <2>1, <2>3 DEF ListInv, Down, Closed, AsOf
  <2>7. segments = <<>> /\ run = <<>>
    BY <2>1, NoneIsNoCall DEF SegmentsInv, RunInv
  <2>8. SegmentsInv' /\ RunInv'
    BY <2>1, <2>3, <2>7 DEF SegmentsInv, RunInv, Separated
  <2> QED
    BY <2>4, <2>5, <2>6, <2>8
<1>3. CASE SumNext
  BY <1>3 DEF SumNext, unionVars, subtractVars, timeVars, Down, Closed, AsOf,
              CallInv, ListInv, UnionInv, MergedInv, SubtractInv, BaseInv, SegmentsInv, RunInv
<1>4. CASE RunMeasured
  BY <1>4 DEF RunMeasured, unionVars, subtractVars, timeVars, Down, Closed, AsOf,
              CallInv, ListInv, UnionInv, MergedInv, SubtractInv, BaseInv, SegmentsInv, RunInv
<1>5. CASE UNCHANGED vars
  BY <1>5 DEF vars, unionVars, subtractVars, timeVars, Down, Closed, AsOf,
              CallInv, ListInv, UnionInv, MergedInv, SubtractInv, BaseInv, SegmentsInv, RunInv
<1> QED
  BY <1>1, <1>2, <1>3, <1>4, <1>5, UnionNextStep, UnionReturnsStep, SubtractNextStep,
     PlannedReturnsStep, PlannedMeasuredStep, UnplannedReturnsStep
     DEF Next

(* The instants of a covered list, and those at which spans are down. *)
LEMMA LoopInvAccountsForTime ==
  ASSUME TypeOK, LoopInv
  PROVE  TimeIsAccountedFor /\ NothingIsCountedTwice
<1>1. /\ segments \in Seq(Interval) /\ run \in Seq(Interval) /\ input \in Input
      /\ input.window \in Interval
  BY InputTypes DEF TypeOK, Stretches
<1>2. \A t : t \in Instants(input.window) <=> t \in Nat /\ In(t, input.window)
  BY <1>1 DEF Instants, In, Interval
<1>3. \A spans, t : t \in Stopped(spans) <=> t \in Instants(input.window) /\ Down(spans, t)
  BY DEF Stopped, Down, Closed
<1>4. NothingIsCountedTwice
  BY DEF LoopInv, SegmentsInv, RunInv, NothingIsCountedTwice
<1>5. ASSUME call \in {"planned_seconds", "unplanned", "run_seconds"}
      PROVE  Covered(segments) = Instants(input.window) \ Stopped(input.planned)
  <2>1. \A t \in Nat : Covers(segments, t) <=> In(t, input.window) /\ ~ Down(input.planned, t)
    BY <1>5 DEF LoopInv, SegmentsInv
  <2>2. \A t : t \in Covered(segments) <=> t \in Nat /\ Covers(segments, t)
    BY <1>1, CoveredIsCovers
  <2> QED
    BY <1>2, <1>3, <2>1, <2>2
<1>6. ASSUME pc = "done"
      PROVE  Covered(run) = Covered(segments) \ Stopped(input.unplanned)
  <2>1. call = "run_seconds"
    BY <1>6 DEF LoopInv, CallInv
  <2>2. \A t \in Nat : Covers(run, t) <=> Covers(segments, t) /\ ~ Down(input.unplanned, t)
    BY <2>1 DEF LoopInv, RunInv
  <2>3. \A t : t \in Covered(run) <=> t \in Nat /\ Covers(run, t)
    BY <1>1, CoveredIsCovers
  <2>4. \A t : t \in Covered(segments) <=> t \in Nat /\ Covers(segments, t)
    BY <1>1, CoveredIsCovers
  <2>5. Covered(segments) \subseteq Instants(input.window)
    BY <1>5, <2>1
  <2> QED
    BY <1>3, <2>2, <2>3, <2>4, <2>5
<1> QED
  BY <1>4, <1>5, <1>6 DEF TimeIsAccountedFor

LEMMA LoopInvInitially == Init => LoopInv
<1> SUFFICES ASSUME Init PROVE LoopInv
  OBVIOUS
<1>1. pc = "start" /\ call = None /\ segments = <<>> /\ run = <<>>
  BY DEF Init
<1>2. Separated(segments) /\ Separated(run)
  BY <1>1 DEF Separated
<1> QED
  BY <1>1, <1>2, NoneIsNoCall
     DEF SubtractCalls, DurationCalls, LoopInv, CallInv, ListInv, UnionInv, MergedInv, SubtractInv,
         BaseInv, SegmentsInv, RunInv

(* For every window and all downtimes, however they overlap, touch or      *)
(* stick out: the planned production time and the run time are exactly     *)
(* what the downtimes leave (calculate_oee), in stretches that share no    *)
(* instant.                                                                *)
THEOREM TimeIsPartitioned == Spec => [](TimeIsAccountedFor /\ NothingIsCountedTwice)
<1>1. Init => LoopInv
  BY LoopInvInitially
<1>2. TypeOK /\ TypeOK' /\ LoopInv /\ [Next]_vars => LoopInv'
  BY LoopInvIsInductive
<1>3. TypeOK /\ LoopInv => TimeIsAccountedFor /\ NothingIsCountedTwice
  BY LoopInvAccountsForTime
<1>4. Spec => []TypeOK
  BY TypeCorrect
<1> QED
  BY <1>1, <1>2, <1>3, <1>4, PTL DEF Spec

(* For every window and all downtimes: no instant is subtracted twice from *)
(* the planned production time or counted twice in the run time            *)
(* (merge_intervals, subtract_intervals).                                  *)
THEOREM NothingCountedTwice == Spec => []NothingIsCountedTwice
BY TimeIsPartitioned, PTL

--------------------------------------------------------------------------------
(* Whole seconds.                                                          *)

LEMMA ProductsAscend ==
  ASSUME NEW a \in Nat, NEW b \in Nat, NEW c \in Nat, a <= b
  PROVE  a * c <= b * c
<1>1. PICK d \in Nat : b = a + d
  <2>1. b - a \in Nat /\ b = a + (b - a)
    OBVIOUS
  <2> QED
    BY <2>1
<1>2. b * c = a * c + d * c
  BY <1>1
<1>3. a * c \in Nat /\ d * c \in Nat
  OBVIOUS
<1> QED
  BY <1>2, <1>3

(* A duration loses less than a second. *)
LEMMA WholeSeconds ==
  ASSUME NEW d \in Nat
  PROVE  /\ d \div TicksPerSecond \in Nat
         /\ (d \div TicksPerSecond) * TicksPerSecond <= d
         /\ d <= (d \div TicksPerSecond) * TicksPerSecond + (TicksPerSecond - 1)
<1>1. TicksPerSecond \in Nat /\ TicksPerSecond > 0
  BY TimeIsDiscrete
<1> DEFINE q == d \div TicksPerSecond
           r == d % TicksPerSecond
<1>2. q \in Nat /\ r \in 0..(TicksPerSecond - 1) /\ d = TicksPerSecond * q + r
  BY <1>1
<1>3. TicksPerSecond * q = q * TicksPerSecond
  BY <1>1, <1>2
<1> HIDE DEF q, r
<1> QED
  BY <1>1, <1>2, <1>3 DEF q

(* What may be counted is counted. *)
LEMMA EverySecondCounts ==
  ASSUME NEW x \in Nat, NEW y \in Nat, NEW d \in Nat,
         x * TicksPerSecond <= y * TicksPerSecond + d
  PROVE  x <= y + d \div TicksPerSecond
<1>1. TicksPerSecond \in Nat /\ TicksPerSecond > 0
  BY TimeIsDiscrete
<1> DEFINE q == d \div TicksPerSecond
<1>2. q \in Nat /\ d <= q * TicksPerSecond + (TicksPerSecond - 1)
  BY WholeSeconds
<1> HIDE DEF q
<1>3. SUFFICES ASSUME y + q + 1 <= x PROVE FALSE
  BY <1>2 DEF q
<1>4. (y + q + 1) * TicksPerSecond <= x * TicksPerSecond
  BY <1>1, <1>2, <1>3, ProductsAscend
<1>5. (y + q + 1) * TicksPerSecond = y * TicksPerSecond + q * TicksPerSecond + TicksPerSecond
  BY <1>1, <1>2
<1> DEFINE xt == x * TicksPerSecond
           yt == y * TicksPerSecond
           qt == q * TicksPerSecond
<1>6. xt \in Nat /\ yt \in Nat /\ qt \in Nat
  BY <1>1, <1>2
<1>7. yt + qt + TicksPerSecond <= xt /\ xt <= yt + d /\ d <= qt + (TicksPerSecond - 1)
  BY <1>2, <1>4, <1>5
<1> HIDE DEF xt, yt, qt
<1> QED
  BY <1>1, <1>6, <1>7

(* A sorted list without duplicates is the only way to sort it. *)
LEMMA AlreadySorted ==
  ASSUME NEW l \in Seq(Interval), Separated(l),
         NEW s \in SortingsOf(l)
  PROVE  s = l
<1> DEFINE n == Len(l)
<1>1. n \in Nat /\ DOMAIN l = 1..n
  OBVIOUS
<1>2. Cardinality(1..n) = n
  <2> HIDE DEF n
  <2>1. Cardinality(1..n) = IF 1 > n THEN 0 ELSE n - 1 + 1
    BY <1>1, FS_Interval
  <2> QED
    BY <1>1, <2>1
<1>3. PICK p \in Bijection(1..n, 1..n) :
        /\ s = [k \in 1..n |-> l[p[k]]]
        /\ \A k, m \in DOMAIN s : k < m => ~ Before(s[m], s[k])
  BY <1>1, <1>2 DEF SortingsOf
<1>4. /\ p \in [1..n -> 1..n]
      /\ \A k, m \in 1..n : p[k] = p[m] => k = m
      /\ \A d \in 1..n : \E k \in 1..n : p[k] = d
  BY <1>3 DEF Bijection, Surjection, Injection, IsInjective
<1>10. DOMAIN s = 1..n /\ \A k \in 1..n : s[k] = l[p[k]] /\ p[k] \in 1..n
  BY <1>3, <1>4
<1> HIDE DEF n
<1>5. ASSUME NEW k \in 1..n, NEW m \in 1..n, k < m
      PROVE  p[k] < p[m]
  <2>1. /\ s[k] = l[p[k]] /\ s[m] = l[p[m]] /\ ~ Before(s[m], s[k])
        /\ p[k] \in 1..n /\ p[m] \in 1..n /\ p[k] # p[m]
    BY <1>1, <1>3, <1>4, <1>5, <1>10
  <2>2. SUFFICES ASSUME p[m] < p[k] PROVE FALSE
    BY <2>1
  <2>3. l[p[m]].end < l[p[k]].start
    BY <1>1, <2>1, <2>2 DEF Separated
  <2>4. /\ l[p[m]].start \in Nat /\ l[p[m]].end \in Nat /\ l[p[m]].start < l[p[m]].end
        /\ l[p[k]].start \in Nat
    <3>1. l[p[m]] \in Interval /\ l[p[k]] \in Interval
      BY <1>1, <2>1
    <3> QED
      BY <3>1 DEF Interval
  <2>5. l[p[m]].start < l[p[k]].start
    <3> DEFINE a == l[p[m]].start
               b == l[p[m]].end
               c == l[p[k]].start
    <3>1. a \in Nat /\ b \in Nat /\ c \in Nat /\ a < b /\ b < c
      BY <2>3, <2>4
    <3> HIDE DEF a, b, c
    <3>2. a < c
      BY <3>1
    <3> QED
      BY <3>2 DEF a, c
  <2> QED
    BY <2>1, <2>5 DEF Before
<1> DEFINE R == OpToRel(<, Nat)
           Moved == {k \in 1..n : p[k] # k}
<1>6. IsWellFoundedOn(R, Nat)
  BY NatLessThanWellFounded DEF OpToRel
<1>7. \A x, y \in Nat : <<x, y>> \in R <=> x < y
  BY DEF OpToRel
<1> HIDE DEF R
<1>8. Moved = {}
  <2>1. SUFFICES ASSUME Moved # {} PROVE FALSE
    OBVIOUS
  <2>2. Moved \subseteq Nat
    BY <1>1
  <2> HIDE DEF Moved
  <2>3. PICK k \in Moved : \A y \in Moved : <<y, k>> \notin R
    BY <1>6, <2>1, <2>2, WFMin, Zenon
  <2>4. k \in 1..n /\ p[k] # k /\ \A y \in 1..n : y < k => p[y] = y
    BY <1>7, <2>2, <2>3 DEF Moved
  <2>5. p[k] > k
    <3>1. p[k] \in 1..n /\ k \in 1..n /\ p[k] # k
      BY <1>10, <2>4
    <3>2. ~ (p[k] < k)
      BY <1>4, <2>4, <3>1
    <3> QED
      BY <1>1, <3>1, <3>2
  <2>6. PICK m \in 1..n : p[m] = k
    BY <1>4, <2>4
  <2>7. m > k
    BY <2>4, <2>6
  <2> QED
    BY <1>4, <1>5, <2>4, <2>5, <2>6, <2>7
<1>9. \A k \in 1..n : s[k] = l[k]
  BY <1>8, <1>10
<1> QED
  BY <1>1, <1>3, <1>9

(* What separated segments cover without a gap lies in one of them. *)
LEMMA StretchInOneSegment ==
  ASSUME NEW s \in Seq(Interval), Separated(s), NEW r \in Interval,
         \A t \in Nat : In(t, r) => Covers(s, t)
  PROVE  \E k \in DOMAIN s : s[k].start <= r.start /\ r.end <= s[k].end
<1>1. r.start \in Nat /\ r.end \in Nat /\ r.start < r.end
  BY DEF Interval
<1>2. \A k \in DOMAIN s : s[k].start \in Nat /\ s[k].end \in Nat /\ s[k].start < s[k].end
  BY DEF Interval
<1>3. PICK k \in DOMAIN s : In(r.start, s[k])
  <2>1. In(r.start, r)
    BY <1>1 DEF In
  <2> QED
    BY <1>1, <2>1 DEF Covers
<1>4. ASSUME s[k].end < r.end PROVE FALSE
  <2>1. In(s[k].end, r)
    BY <1>1, <1>2, <1>3, <1>4 DEF In
  <2>2. PICK l \in DOMAIN s : In(s[k].end, s[l])
    BY <1>2, <2>1 DEF Covers
  <2>3. l # k
    BY <1>2, <2>2 DEF In
  <2>4. k \in Nat /\ l \in Nat
    OBVIOUS
  <2>5. CASE l < k
    <3>1. s[l].end < s[k].start
      BY <2>5 DEF Separated
    <3> QED
      BY <1>2, <2>2, <3>1 DEF In
  <2>6. CASE k < l
    <3>1. s[k].end < s[l].start
      BY <2>6 DEF Separated
    <3> QED
      BY <1>2, <2>2, <3>1 DEF In
  <2> QED
    BY <2>3, <2>4, <2>5, <2>6
<1> QED
  BY <1>1, <1>2, <1>3, <1>4 DEF In

--------------------------------------------------------------------------------
CoveredBefore(s, n) == {t \in Nat : CoversBefore(s, n, t)}

(* The intervals before position n of s, measured one by one, last d       *)
(* seconds, and each of them has lost less than a second.                  *)
Measured(s, n, d) ==
  LET ticks == Cardinality(CoveredBefore(s, n))
  IN  /\ IsFiniteSet(CoveredBefore(s, n))
      /\ d * TicksPerSecond <= ticks
      /\ ticks <= d * TicksPerSecond + (n - 1) * (TicksPerSecond - 1)

(* P[k] is the duration of the first k intervals. *)
PrefixSums(s, n, P) ==
  /\ P \in [0..n -> Nat] /\ P[0] = 0
  /\ \A k \in 1..n : P[k] = P[k - 1] + Seconds(s[k])
  /\ \A j, k \in 0..n : j <= k => P[j] <= P[k]

LEMMA NothingMeasured == \A s \in Seq(Interval) : Measured(s, 1, 0) /\ PrefixSums(s, 0, [k \in 0..0 |-> 0])
<1> SUFFICES ASSUME NEW s \in Seq(Interval)
             PROVE  Measured(s, 1, 0) /\ PrefixSums(s, 0, [k \in 0..0 |-> 0])
  OBVIOUS
<1>1. CoveredBefore(s, 1) = {}
  BY BeforeTheNext DEF CoveredBefore
<1>2. IsFiniteSet({}) /\ Cardinality({}) = 0
  BY FS_EmptySet
<1>3. TicksPerSecond \in Nat /\ TicksPerSecond > 0
  BY TimeIsDiscrete
<1>4. 0 * TicksPerSecond = 0 /\ (1 - 1) * (TicksPerSecond - 1) = 0
  BY <1>3
<1>5. Measured(s, 1, 0)
  <2>1. 0 * TicksPerSecond <= 0 /\ 0 <= 0 * TicksPerSecond + (1 - 1) * (TicksPerSecond - 1)
    BY <1>4
  <2> QED
    BY <1>1, <1>2, <2>1, Zenon DEF Measured
<1>6. PrefixSums(s, 0, [k \in 0..0 |-> 0])
  BY DEF PrefixSums
<1> QED
  BY <1>5, <1>6

LEMMA SecondsOfAnInterval ==
  ASSUME NEW i \in Interval
  PROVE  /\ Seconds(i) \in Nat /\ i.end - i.start \in Nat
         /\ Seconds(i) * TicksPerSecond <= i.end - i.start
         /\ i.end - i.start <= Seconds(i) * TicksPerSecond + (TicksPerSecond - 1)
<1>1. i.end - i.start \in Nat
  BY DEF Interval
<1> QED
  BY <1>1, WholeSeconds DEF Seconds

(* Separated intervals share no instant, so that each adds its own.        *)
LEMMA MeasureOneMore ==
  ASSUME NEW s \in Seq(Interval), Separated(s), NEW n \in DOMAIN s,
         NEW d \in Nat, Measured(s, n, d)
  PROVE  Measured(s, n + 1, d + Seconds(s[n]))
<1> DEFINE S == CoveredBefore(s, n)
           T == s[n].start .. (s[n].end - 1)
           c == Cardinality(S)
           x == Seconds(s[n])
           len == s[n].end - s[n].start
<1>1. /\ n \in Nat \ {0} /\ s[n] \in Interval
      /\ s[n].start \in Nat /\ s[n].end \in Nat /\ s[n].start < s[n].end
  BY DEF Interval
<1>2. CoveredBefore(s, n + 1) = S \union T
  <2>1. \A t : t \in T <=> t \in Nat /\ In(t, s[n])
    BY <1>1 DEF In
  <2>2. \A t : CoversBefore(s, n + 1, t) <=> CoversBefore(s, n, t) \/ In(t, s[n])
    BY <1>1, BeforeTheNext
  <2> QED
    BY <2>1, <2>2 DEF CoveredBefore
<1>3. S \intersect T = {}
  <2>1. SUFFICES ASSUME NEW t \in S, t \in T PROVE FALSE
    OBVIOUS
  <2>2. PICK k \in DOMAIN s : k < n /\ In(t, s[k])
    BY <2>1 DEF CoveredBefore, CoversBefore
  <2>3. s[k].end < s[n].start
    BY <2>2 DEF Separated
  <2>4. s[k].end \in Nat
    BY DEF Interval
  <2> QED
    BY <1>1, <2>1, <2>2, <2>3, <2>4 DEF In
<1>4. IsFiniteSet(T) /\ Cardinality(T) = len
  <2>1. s[n].start \in Int /\ s[n].end - 1 \in Int
    BY <1>1
  <2>2. /\ IsFiniteSet(T)
        /\ Cardinality(T) = IF s[n].start > s[n].end - 1 THEN 0 ELSE (s[n].end - 1) - s[n].start + 1
    BY <2>1, FS_Interval
  <2> QED
    BY <1>1, <2>2
<1>5. IsFiniteSet(S) /\ c \in Nat
  BY FS_CardinalityType DEF Measured
<1>6. IsFiniteSet(CoveredBefore(s, n + 1)) /\ Cardinality(CoveredBefore(s, n + 1)) = c + len
  <2> HIDE DEF S, T, c, len
  <2>1. IsFiniteSet(S \union T)
    BY <1>4, <1>5, FS_Union
  <2>2. Cardinality(S \union T) = Cardinality(S) + Cardinality(T) - Cardinality(S \intersect T)
    BY <1>4, <1>5, FS_Union
  <2>3. Cardinality(S \intersect T) = 0
    BY <1>3, FS_EmptySet
  <2>4. Cardinality(T) = len /\ Cardinality(S) = c
    BY <1>4 DEF c
  <2>5. len \in Nat
    BY <1>1 DEF len
  <2>6. Cardinality(S \union T) = c + len
    BY <1>5, <2>2, <2>3, <2>4, <2>5
  <2> QED
    BY <1>2, <2>1, <2>6
<1>7. /\ x \in Nat /\ len \in Nat
      /\ x * TicksPerSecond <= len /\ len <= x * TicksPerSecond + (TicksPerSecond - 1)
  BY <1>1, SecondsOfAnInterval
<1>8. d * TicksPerSecond <= c /\ c <= d * TicksPerSecond + (n - 1) * (TicksPerSecond - 1)
  BY DEF Measured
<1>9. TicksPerSecond \in Nat /\ TicksPerSecond > 0
  BY TimeIsDiscrete
<1> HIDE DEF S, T, c, x, len
<1>10. /\ (d + x) * TicksPerSecond = d * TicksPerSecond + x * TicksPerSecond
       /\ d * TicksPerSecond \in Nat /\ x * TicksPerSecond \in Nat
  BY <1>7, <1>9
<1>11. /\ ((n + 1) - 1) * (TicksPerSecond - 1) = (n - 1) * (TicksPerSecond - 1) + (TicksPerSecond - 1)
       /\ (n - 1) * (TicksPerSecond - 1) \in Nat
  <2> DEFINE m == n - 1
             u == TicksPerSecond - 1
  <2>1. m \in Nat /\ u \in Nat /\ (n + 1) - 1 = m + 1
    BY <1>1, <1>9
  <2> HIDE DEF m, u
  <2>2. (m + 1) * u = m * u + u /\ m * u \in Nat
    BY <2>1
  <2>3. ((n + 1) - 1) * u = (n - 1) * u + u /\ (n - 1) * u \in Nat
    BY <2>1, <2>2 DEF m
  <2> QED
    BY <2>3 DEF u
<1> DEFINE dt == d * TicksPerSecond
           xt == x * TicksPerSecond
           nt == (n - 1) * (TicksPerSecond - 1)
           st == (d + x) * TicksPerSecond
           mt == ((n + 1) - 1) * (TicksPerSecond - 1)
<1>12. /\ st = dt + xt /\ dt \in Nat /\ xt \in Nat /\ mt = nt + (TicksPerSecond - 1) /\ nt \in Nat
       /\ dt <= c /\ c <= dt + nt /\ xt <= len /\ len <= xt + (TicksPerSecond - 1)
  BY <1>7, <1>8, <1>10, <1>11
<1>13. st <= c + len /\ c + len <= st + mt
  <2> HIDE DEF dt, xt, nt, st, mt
  <2> QED
    BY <1>5, <1>7, <1>9, <1>12
<1> QED
  BY <1>6, <1>13 DEF Measured, x

LEMMA PrefixOneMore ==
  ASSUME NEW s \in Seq(Interval), NEW n \in DOMAIN s,
         NEW P, PrefixSums(s, n - 1, P),
         NEW Q, Q = [k \in 0..n |-> IF k = n THEN P[n - 1] + Seconds(s[n]) ELSE P[k]]
  PROVE  PrefixSums(s, n, Q) /\ Q[n] = P[n - 1] + Seconds(s[n])
<1>1. n \in Nat \ {0} /\ n - 1 \in Nat /\ Seconds(s[n]) \in Nat
  <2>1. s[n] \in Interval
    OBVIOUS
  <2>2. Seconds(s[n]) \in Nat
    BY <2>1, SecondsOfAnInterval
  <2> QED
    BY <2>2
<1>2. /\ P \in [0..(n - 1) -> Nat] /\ P[0] = 0
      /\ \A k \in 1..(n - 1) : P[k] = P[k - 1] + Seconds(s[k])
      /\ \A j, k \in 0..(n - 1) : j <= k => P[j] <= P[k]
  BY DEF PrefixSums
<1>3. ASSUME NEW k \in 0..n, k # n PROVE k \in 0..(n - 1) /\ P[k] \in Nat
  <2>1. k \in 0..(n - 1)
    BY <1>1, <1>3
  <2> QED
    BY <1>2, <2>1
<1>4. P[n - 1] \in Nat /\ n \in 0..n /\ 0 \in 0..n /\ 0 # n
  BY <1>1, <1>2
<1>5. Q \in [0..n -> Nat]
  BY <1>1, <1>3, <1>4
<1>6. Q[0] = 0 /\ Q[n] = P[n - 1] + Seconds(s[n]) /\ \A k \in 0..n : k # n => Q[k] = P[k]
  BY <1>2, <1>4
<1>7. ASSUME NEW k \in 1..n PROVE Q[k] = Q[k - 1] + Seconds(s[k])
  <2>1. k \in 0..n /\ k - 1 \in 0..n /\ k - 1 # n
    BY <1>1
  <2>2. CASE k = n
    BY <1>6, <2>1, <2>2
  <2>3. CASE k # n
    <3>1. k \in 1..(n - 1)
      BY <1>1, <2>3
    <3> QED
      BY <1>2, <1>6, <2>1, <2>3, <3>1
  <2> QED
    BY <2>2, <2>3
<1>8. ASSUME NEW j \in 0..n, NEW k \in 0..n, j <= k PROVE Q[j] <= Q[k]
  <2>1. CASE k = n
    <3>1. CASE j = n
      BY <1>5, <2>1, <3>1
    <3>2. CASE j # n
      <4>1. Q[j] = P[j] /\ P[j] <= P[n - 1] /\ P[j] \in Nat
        BY <1>1, <1>2, <1>3, <1>6, <3>2
      <4> QED
        BY <1>1, <1>4, <1>6, <2>1, <4>1
    <3> QED
      BY <3>1, <3>2
  <2>2. CASE k # n
    BY <1>1, <1>2, <1>3, <1>6, <1>8, <2>2
  <2> QED
    BY <2>1, <2>2
<1> QED
  BY <1>5, <1>6, <1>7, <1>8 DEF PrefixSums

--------------------------------------------------------------------------------
(* A duration is that of stretches that are sorted and separated already.  *)
NothingToMerge ==
  /\ call = "planned_seconds" => list = segments
  /\ call = "run_seconds" => list = run
  /\ pc = "union" /\ call \in DurationCalls =>
       Len(merged) = next - 1 /\ \A k \in DOMAIN merged : merged[k] = list[k]
  /\ pc = "sum" => merged = list

(* The stretches before next have been added up. *)
SumInv ==
  pc = "sum" => /\ next <= Len(list) + 1
                /\ Measured(list, next, sum)
                /\ next = 1 => sum = 0

SegmentSums(n, d) == \E P : PrefixSums(segments, n, P) /\ d = P[n]

(* The planned production time: while it is added up, and then.            *)
PlannedSumInv ==
  /\ pc = "sum" /\ call = "planned_seconds" =>
       /\ SegmentSums(next - 1, sum)
       /\ next > 1 =>
            sum * TicksPerSecond <= segments[next - 1].end - input.window.start
  /\ call \in {"unplanned", "run_seconds"} =>
       /\ Measured(segments, Len(segments) + 1, planned_s)
       /\ planned_s <= Seconds(input.window)
       /\ SegmentSums(Len(segments), planned_s)

(* The sum of the run time is at most that of the segments before the one  *)
(* in which the last stretch lies, and the time from that segment's start  *)
(* to the stretch's end.                                                   *)
Reaches(P, k, d) ==
  /\ segments[k].start <= run[next - 1].start /\ run[next - 1].end <= segments[k].end
  /\ d * TicksPerSecond
       <= P[k - 1] * TicksPerSecond + (run[next - 1].end - segments[k].start)

RunSumInv ==
  /\ pc = "sum" /\ call = "run_seconds" /\ next > 1 =>
       \E P : /\ PrefixSums(segments, Len(segments), P) /\ planned_s = P[Len(segments)]
              /\ \E k \in DOMAIN segments : Reaches(P, k, sum)
  /\ pc = "done" => run_s <= planned_s /\ Measured(run, Len(run) + 1, run_s)

SecondsInv == NothingToMerge /\ SumInv /\ PlannedSumInv /\ RunSumInv

(* The end of a list of intervals in which a loop has reached its end. *)
LEMMA LoopIsAtItsEnd ==
  ASSUME NEW s \in Seq(Interval), NEW n \in Nat \ {0}, n \notin DOMAIN s, n <= Len(s) + 1
  PROVE  n = Len(s) + 1 /\ n - 1 = Len(s)
OBVIOUS

LEMMA SecondsUnionNext ==
  ASSUME TypeOK, LoopInv, SecondsInv, UnionNext
  PROVE  SecondsInv'
<1>1. /\ pc = "union" /\ pc' = "union" /\ next \in DOMAIN list /\ next' = next + 1
      /\ merged' = UnionStep(merged, list[next])
      /\ UNCHANGED <<input, call, list, segments, segment, run, planned_s, run_s>>
  BY DEF UnionNext, subtractVars, timeVars, resultVars
<1>2. SumInv' /\ PlannedSumInv' /\ RunSumInv'
  BY <1>1 DEF SecondsInv, SumInv, PlannedSumInv, RunSumInv, SegmentSums
<1>3. ASSUME call \in DurationCalls
      PROVE  Len(merged') = next' - 1 /\ \A k \in DOMAIN merged' : merged'[k] = list'[k]
  <2> DEFINE n == Len(merged)
             c == list[next]
  <2>1. n = next - 1 /\ \A k \in DOMAIN merged : merged[k] = list[k]
    BY <1>1, <1>3 DEF SecondsInv, NothingToMerge
  <2>2. list \in Seq(Interval) /\ merged \in Seq(Interval) /\ next \in Nat \ {0}
    BY DEF TypeOK, Stretches
  <2>3. Separated(list)
    <3>1. list \in {segments, run}
      BY <1>3 DEF SecondsInv, NothingToMerge, DurationCalls
    <3> QED
      BY <3>1 DEF LoopInv, SegmentsInv, RunInv
  <2>4. n > 0 => ~ (c.start <= merged[n].end)
    <3>1. SUFFICES ASSUME n > 0 PROVE ~ (c.start <= merged[n].end)
      OBVIOUS
    <3>2. n \in DOMAIN merged /\ n \in DOMAIN list /\ n < next
      BY <1>1, <2>1, <2>2, <3>1
    <3>3. list[n].end < c.start
      BY <1>1, <2>3, <3>2 DEF Separated
    <3>4. list[n].end \in Nat /\ c.start \in Nat
      BY <1>1, <2>2, <3>2 DEF Interval
    <3> QED
      BY <2>1, <3>2, <3>3, <3>4
  <2>5. merged' = Append(merged, c)
    BY <1>1, <2>4 DEF UnionStep
  <2> QED
    BY <1>1, <2>1, <2>2, <2>5
<1>4. NothingToMerge'
  BY <1>1, <1>3 DEF SecondsInv, NothingToMerge
<1> QED
  BY <1>2, <1>4 DEF SecondsInv

LEMMA SecondsUnionReturns ==
  ASSUME TypeOK, LoopInv, SecondsInv, UnionReturns
  PROVE  SecondsInv'
<1>1. /\ pc = "union" /\ next \notin DOMAIN list /\ next' = 1 /\ sum' = 0
      /\ pc' = IF call \in SubtractCalls THEN "subtract" ELSE "sum"
      /\ UNCHANGED <<input, call, list, merged, segments, segment, run, planned_s, run_s>>
  BY DEF UnionReturns, unionVars, subtractVars, timeVars, resultVars
<1>2. /\ list \in Seq(Interval) /\ segments \in Seq(Interval) /\ merged \in Seq(Interval)
      /\ next \in Nat \ {0}
  BY DEF TypeOK, Stretches
<1>3. CASE pc' # "sum"
  BY <1>1, <1>3 DEF SecondsInv, NothingToMerge, SumInv, PlannedSumInv, RunSumInv, SegmentSums
<1>4. CASE pc' = "sum"
  <2>1. call \in DurationCalls
    BY <1>1, <1>4 DEF LoopInv, CallInv
  <2>2. next - 1 = Len(list)
    <3>1. next <= Len(list) + 1
      BY <1>1 DEF LoopInv, UnionInv
    <3> QED
      BY <1>1, <1>2, <3>1, LoopIsAtItsEnd
  <2>3. Len(merged) = Len(list) /\ \A k \in DOMAIN merged : merged[k] = list[k]
    BY <1>1, <2>1, <2>2 DEF SecondsInv, NothingToMerge
  <2>4. merged = list
    BY <1>2, <2>3
  <2>5. NothingToMerge'
    BY <1>1, <1>4, <2>4 DEF SecondsInv, NothingToMerge
  <2>6. Measured(list, 1, 0) /\ PrefixSums(segments, 0, [k \in 0..0 |-> 0])
    BY <1>2, NothingMeasured
  <2>7. SumInv'
    BY <1>1, <1>2, <2>6 DEF SumInv
  <2>8. SegmentSums(0, 0)
    BY <2>6 DEF SegmentSums
  <2>9. PlannedSumInv'
    BY <1>1, <1>4, <2>8 DEF SecondsInv, PlannedSumInv, SegmentSums
  <2> QED
    BY <1>1, <1>4, <2>5, <2>7, <2>9 DEF SecondsInv, RunSumInv
<1> QED
  BY <1>3, <1>4

LEMMA SecondsSubtractNext ==
  ASSUME TypeOK, LoopInv, SecondsInv, SubtractNext
  PROVE  SecondsInv'
<1>1. /\ pc = "subtract" /\ pc' = "subtract"
      /\ UNCHANGED <<input, call, list, merged, segments, segment, run, planned_s, run_s>>
  BY DEF SubtractNext, unionVars, timeVars, resultVars
<1> QED
  BY <1>1 DEF SecondsInv, NothingToMerge, SumInv, PlannedSumInv, RunSumInv, SegmentSums

LEMMA SecondsPlannedReturns ==
  ASSUME TypeOK', LoopInv', PlannedReturns
  PROVE  SecondsInv'
<1>1. /\ pc' = "union" /\ call' = "planned_seconds" /\ next' = 1 /\ merged' = <<>>
      /\ list' \in SortingsOf(segments')
  BY DEF PlannedReturns, CallUnion
<1>2. segments' \in Seq(Interval) /\ Separated(segments')
  BY DEF TypeOK, Stretches, LoopInv, SegmentsInv
<1>3. list' = segments'
  BY <1>1, <1>2, AlreadySorted
<1>4. NothingToMerge'
  BY <1>1, <1>3 DEF NothingToMerge
<1> QED
  BY <1>1, <1>4 DEF SecondsInv, SumInv, PlannedSumInv, RunSumInv

(* The planned production time is known; the next round, or the run time. *)
LEMMA SecondsNextSegment ==
  ASSUME TypeOK', LoopInv', NEW k,
         SubtractFromSegment(k, run'),
         Measured(segments', Len(segments') + 1, planned_s'),
         planned_s' <= Seconds(input'.window),
         SegmentSums(Len(segments), planned_s)',
         UNCHANGED segments
  PROVE  SecondsInv'
<1>1. /\ pc' = "union" /\ next' = 1 /\ merged' = <<>> /\ call' \in {"unplanned", "run_seconds"}
      /\ call' = "run_seconds" => list' \in SortingsOf(run')
  BY DEF SubtractFromSegment, CallSubtract, CallUnion
<1>2. run' \in Seq(Interval) /\ Separated(run')
  BY DEF TypeOK, Stretches, LoopInv, RunInv
<1>3. call' = "run_seconds" => list' = run'
  BY <1>1, <1>2, AlreadySorted
<1>4. NothingToMerge'
  BY <1>1, <1>3 DEF NothingToMerge
<1>5. SumInv' /\ RunSumInv'
  BY <1>1 DEF SumInv, RunSumInv
<1>6. PlannedSumInv'
  BY <1>1 DEF PlannedSumInv
<1> QED
  BY <1>4, <1>5, <1>6 DEF SecondsInv

(* The stretches up to one in segment k last no longer than segments 1..k. *)
LEMMA SegmentBounds ==
  ASSUME NEW s \in Seq(Interval), NEW P, PrefixSums(s, Len(s), P),
         NEW k \in DOMAIN s, NEW a \in Interval,
         s[k].start <= a.start, a.end <= s[k].end,
         NEW d \in Nat,
         d * TicksPerSecond <= P[k - 1] * TicksPerSecond + (a.end - s[k].start)
  PROVE  /\ P[k - 1] \in Nat /\ P[k] \in Nat /\ d <= P[k]
         /\ \A l \in DOMAIN s : k < l => P[l - 1] \in Nat /\ d <= P[l - 1]
         /\ P[Len(s)] \in Nat /\ d <= P[Len(s)]
<1> DEFINE n == Len(s)
           x == P[k - 1]
           len == s[k].end - s[k].start
           q == len \div TicksPerSecond
<1>1. k \in 1..n /\ n \in Nat /\ DOMAIN s = 1..n
  OBVIOUS
<1>2. /\ P \in [0..n -> Nat]
      /\ \A j \in 1..n : P[j] = P[j - 1] + Seconds(s[j])
      /\ \A i, j \in 0..n : i <= j => P[i] <= P[j]
  BY DEF PrefixSums
<1> HIDE DEF n
<1>3. /\ s[k] \in Interval
      /\ s[k].start \in Nat /\ s[k].end \in Nat /\ s[k].start < s[k].end
      /\ a.start \in Nat /\ a.end \in Nat /\ a.start < a.end
  BY DEF Interval
<1>4. x \in Nat /\ P[k] \in Nat /\ P[k] = x + q
  <2>1. k - 1 \in 0..n /\ k \in 0..n
    BY <1>1
  <2> QED
    BY <1>1, <1>2, <2>1 DEF Seconds
<1>5. len \in Nat /\ q \in Nat
  BY <1>3, SecondsOfAnInterval DEF Seconds
<1>6. d * TicksPerSecond <= x * TicksPerSecond + len
  <2> DEFINE dt == d * TicksPerSecond
             xt == x * TicksPerSecond
             ks == s[k].start  ke == s[k].end  ae == a.end
  <2>0. dt \in Nat /\ xt \in Nat
    <3> HIDE DEF x
    <3> QED
      BY <1>4, TimeIsDiscrete
  <2>1. dt \in Nat /\ xt \in Nat /\ ks \in Nat /\ ke \in Nat /\ ae \in Nat
    BY <1>3, <2>0
  <2>2. dt <= xt + (ae - ks) /\ ae <= ke
    OBVIOUS
  <2>3. dt <= xt + (ke - ks)
    <3> HIDE DEF dt, xt, ks, ke, ae
    <3> QED
      BY ONLY <2>1, <2>2
  <2> QED
    BY <2>3
<1>7. d <= P[k]
  <2> HIDE DEF x, len
  <2>1. d <= x + len \div TicksPerSecond
    BY <1>4, <1>5, <1>6, EverySecondCounts
  <2> QED
    BY <1>4, <2>1
<1>8. ASSUME NEW j \in 0..n, k <= j PROVE P[j] \in Nat /\ d <= P[j]
  <2>1. k \in 0..n
    BY <1>1
  <2>2. P[k] <= P[j] /\ P[j] \in Nat
    BY <1>2, <1>8, <2>1
  <2> QED
    BY <1>4, <1>7, <2>2
<1>9. \A l \in DOMAIN s : k < l => l - 1 \in 0..n /\ k <= l - 1
  BY <1>1
<1>10. n \in 0..n /\ k <= n
  BY <1>1
<1> QED
  BY <1>4, <1>7, <1>8, <1>9, <1>10 DEF n

LEMMA OneMoreStretch ==
  ASSUME NEW s \in Seq(Interval), Separated(s),
         NEW P, PrefixSums(s, Len(s), P),
         NEW k \in DOMAIN s, NEW a \in Interval,
         s[k].start <= a.start, a.end <= s[k].end,
         NEW l \in DOMAIN s, NEW b \in Interval,
         s[l].start <= b.start, b.end <= s[l].end,
         a.end < b.start,
         NEW d \in Nat,
         d * TicksPerSecond <= P[k - 1] * TicksPerSecond + (a.end - s[k].start)
  PROVE  (d + Seconds(b)) * TicksPerSecond
           <= P[l - 1] * TicksPerSecond + (b.end - s[l].start)
<1> DEFINE a0 == a.start  a1 == a.end
           b0 == b.start  b1 == b.end
           k0 == s[k].start  k1 == s[k].end
           l0 == s[l].start  l1 == s[l].end
           x == Seconds(b)
           T == TicksPerSecond
           dt == d * T
           xt == x * T
           st == (d + x) * T
           pk == P[k - 1] * T
           pl == P[l - 1] * T
<1>1. /\ a0 \in Nat /\ a1 \in Nat /\ a0 < a1 /\ b0 \in Nat /\ b1 \in Nat /\ b0 < b1
      /\ k0 \in Nat /\ k1 \in Nat /\ l0 \in Nat /\ l1 \in Nat
  BY DEF Interval
<1>2. /\ k0 <= a0 /\ a1 <= k1 /\ l0 <= b0 /\ b1 <= l1 /\ a1 < b0
      /\ dt <= pk + (a1 - k0)
  OBVIOUS
<1>3. k \in Nat /\ l \in Nat
  OBVIOUS
<1>4. l < k => l1 < k0
  BY DEF Separated
<1>5. /\ P[k - 1] \in Nat
      /\ k < l => P[l - 1] \in Nat /\ d <= P[l - 1]
  BY SegmentBounds
<1>6. x \in Nat /\ xt <= b1 - b0 /\ T \in Nat
  BY SecondsOfAnInterval, TimeIsDiscrete
<1>7. k < l => dt <= pl /\ pl \in Nat
  <2> DEFINE y == P[l - 1]
  <2>1. SUFFICES ASSUME k < l PROVE dt <= y * T /\ y * T \in Nat
    OBVIOUS
  <2>2. y \in Nat /\ d <= y
    BY <1>5, <2>1
  <2> HIDE DEF T, y
  <2>3. d * T <= y * T
    BY <1>6, <2>2, ProductsAscend
  <2>4. y * T \in Nat
    BY <1>6, <2>2
  <2> QED
    BY <2>3, <2>4
<1>8. k = l => pl = pk
  OBVIOUS
<1>9. dt \in Nat /\ pk \in Nat
  <2> HIDE DEF T
  <2> QED
    BY <1>5, <1>6
<1>10. st = dt + xt /\ xt \in Nat
  <2> HIDE DEF T, x
  <2> QED
    BY <1>6
<1>11. st <= pl + (b1 - l0)
  <2> HIDE DEF a0, a1, b0, b1, k0, k1, l0, l1, x, T, dt, xt, st, pk, pl
  <2>1. k = l \/ k < l
    <3>1. ~ (l1 < k0)
      <4>1. k0 < a1
        BY ONLY <1>1, <1>2, <1>9
      <4>2. b0 < l1
        BY ONLY <1>1, <1>2, <1>9
      <4> QED
        BY ONLY <1>1, <1>2, <1>9, <4>1, <4>2
    <3> QED
      BY ONLY <1>3, <1>4, <3>1
  <2>2. CASE k = l
    <3>1. k0 = l0
      BY <2>2 DEF k0, l0
    <3> QED
      BY ONLY <1>1, <1>2, <1>6, <1>8, <1>9, <1>10, <2>2, <3>1
  <2>3. CASE k < l
    BY ONLY <1>1, <1>2, <1>6, <1>7, <1>9, <1>10, <2>3
  <2> QED
    BY <2>1, <2>2, <2>3
<1> QED
  BY <1>11

LEMMA SegmentsInWindow ==
  ASSUME TypeOK, LoopInv, call \in {"planned_seconds", "unplanned", "run_seconds"}
  PROVE  \A k \in DOMAIN segments : /\ input.window.start <= segments[k].start
                                    /\ segments[k].end <= input.window.end
<1>1. segments \in Seq(Interval) /\ input.window \in Interval
  BY InputTypes DEF TypeOK, Stretches
<1> SUFFICES ASSUME NEW k \in DOMAIN segments
             PROVE  /\ input.window.start <= segments[k].start
                    /\ segments[k].end <= input.window.end
  OBVIOUS
<1>2. /\ segments[k].start \in Nat /\ segments[k].end \in Nat
      /\ segments[k].start < segments[k].end /\ segments[k].end - 1 \in Nat
      /\ input.window.end \in Nat
  BY <1>1 DEF Interval
<1>3. In(segments[k].start, segments[k]) /\ In(segments[k].end - 1, segments[k])
  BY <1>2 DEF In
<1>4. Covers(segments, segments[k].start) /\ Covers(segments, segments[k].end - 1)
  BY <1>3 DEF Covers
<1>5. In(segments[k].start, input.window) /\ In(segments[k].end - 1, input.window)
  BY <1>2, <1>4 DEF LoopInv, SegmentsInv
<1> QED
  BY <1>2, <1>5 DEF In

(* One more stretch of the planned production time. *)
LEMMA SecondsPlannedSum ==
  ASSUME TypeOK, LoopInv, SecondsInv, SumNext, call = "planned_seconds"
  PROVE  SecondsInv'
<1> DEFINE r == segments[next]
           x == Seconds(r)
           T == TicksPerSecond
<1>1. /\ pc = "sum" /\ pc' = "sum" /\ next \in DOMAIN merged /\ next' = next + 1
      /\ sum' = sum + Seconds(merged[next])
      /\ UNCHANGED <<input, call, list, merged, segments, segment, run, planned_s, run_s>>
  BY DEF SumNext, unionVars, subtractVars, timeVars, resultVars
<1>2. list = segments /\ merged = segments
  BY <1>1 DEF SecondsInv, NothingToMerge
<1>3. /\ segments \in Seq(Interval) /\ next \in DOMAIN segments /\ next \in Nat \ {0} /\ sum \in Nat
      /\ Separated(segments) /\ input.window \in Interval
  BY <1>1, <1>2, InputTypes DEF TypeOK, Stretches, LoopInv, SegmentsInv
<1>4. NothingToMerge'
  BY <1>1 DEF SecondsInv, NothingToMerge, DurationCalls
<1>5. SumInv'
  <2>1. Measured(list, next, sum)
    BY <1>1 DEF SecondsInv, SumInv
  <2>2. Measured(list, next + 1, sum + Seconds(list[next]))
    BY <1>2, <1>3, <2>1, MeasureOneMore
  <2>3. next + 1 <= Len(list) + 1 /\ next + 1 # 1
    BY <1>2, <1>3
  <2> QED
    BY <1>1, <1>2, <2>2, <2>3 DEF SumInv
<1>6. SegmentSums(next, sum')
  <2>1. PICK P : PrefixSums(segments, next - 1, P) /\ sum = P[next - 1]
    BY <1>1 DEF SecondsInv, PlannedSumInv, SegmentSums
  <2> DEFINE Q == [k \in 0..next |-> IF k = next THEN P[next - 1] + Seconds(segments[next]) ELSE P[k]]
  <2>2. PrefixSums(segments, next, Q) /\ Q[next] = P[next - 1] + Seconds(segments[next])
    <3> HIDE DEF Q
    <3> QED
      BY <1>3, <2>1, PrefixOneMore DEF Q
  <2> HIDE DEF Q
  <2> QED
    BY <1>1, <1>2, <2>1, <2>2 DEF SegmentSums
<1>7. sum' * T <= r.end - input.window.start
  <2> DEFINE rs == r.start  re == r.end  ws == input.window.start
             st == sum * T  xt == x * T
  <2>1. /\ rs \in Nat /\ re \in Nat /\ rs < re /\ ws \in Nat /\ ws <= rs
    <3>1. r \in Interval
      BY <1>3
    <3> QED
      BY <1>3, <3>1, SegmentsInWindow DEF Interval
  <2>2. x \in Nat /\ xt \in Nat /\ xt <= re - rs /\ T \in Nat
    <3>1. r \in Interval
      BY <1>3
    <3>2. x \in Nat /\ T \in Nat /\ xt <= re - rs
      BY <3>1, SecondsOfAnInterval, TimeIsDiscrete
    <3> HIDE DEF x, T
    <3> QED
      BY <3>2
  <2>3. st \in Nat /\ st <= rs - ws
    <3>1. CASE next = 1
      <4>1. sum = 0
        BY <1>1, <3>1 DEF SecondsInv, SumInv
      <4>2. 0 * T = 0
        BY TimeIsDiscrete
      <4> HIDE DEF T, rs, ws
      <4> QED
        BY <2>1, <4>1, <4>2
    <3>2. CASE next # 1
      <4> DEFINE pe == segments[next - 1].end
      <4>1. st <= pe - ws
        BY <1>1, <1>3, <3>2 DEF SecondsInv, PlannedSumInv
      <4>2. next - 1 \in DOMAIN segments /\ next - 1 < next
        BY <1>3, <3>2
      <4>3. pe < rs
        BY <1>3, <4>2 DEF Separated
      <4>4. pe \in Nat
        BY <1>3, <4>2 DEF Interval
      <4>5. st \in Nat
        <5> HIDE DEF T
        <5> QED
          BY <1>3, <2>2
      <4> HIDE DEF pe, rs, ws, st
      <4> QED
        BY ONLY <2>1, <4>1, <4>3, <4>4, <4>5
    <3> QED
      BY <3>1, <3>2
  <2>4. sum' * T = st + xt
    <3>1. sum' = sum + x
      BY <1>1, <1>2
    <3> HIDE DEF x, T
    <3> QED
      BY <1>3, <2>2, <3>1
  <2>5. st + xt <= re - ws
    <3> HIDE DEF st, xt, re, rs, ws
    <3> QED
      BY ONLY <2>1, <2>2, <2>3
  <2> QED
    BY <2>4, <2>5
<1>8. PlannedSumInv'
  <2>1. next' - 1 = next
    BY <1>1, <1>3
  <2> HIDE DEF r
  <2>2. SegmentSums(next - 1, sum)'
    BY <1>1, <1>6, <2>1 DEF SegmentSums
  <2>3. sum' * TicksPerSecond <= segments'[next' - 1].end - input'.window.start
    BY <1>1, <1>7, <2>1 DEF r
  <2> QED
    BY <1>1, <2>2, <2>3 DEF PlannedSumInv
<1>9. RunSumInv'
  BY <1>1 DEF RunSumInv
<1> QED
  BY <1>4, <1>5, <1>8, <1>9 DEF SecondsInv

(* One more stretch of the run time. *)
LEMMA SecondsRunSum ==
  ASSUME TypeOK, LoopInv, SecondsInv, SumNext, call = "run_seconds"
  PROVE  SecondsInv'
<1> DEFINE b == run[next]
           T == TicksPerSecond
           n == Len(segments)
<1>1. /\ pc = "sum" /\ pc' = "sum" /\ next \in DOMAIN merged /\ next' = next + 1
      /\ sum' = sum + Seconds(merged[next])
      /\ UNCHANGED <<input, call, list, merged, segments, segment, run, planned_s, run_s>>
  BY DEF SumNext, unionVars, subtractVars, timeVars, resultVars
<1>2. list = run /\ merged = run
  BY <1>1 DEF SecondsInv, NothingToMerge
<1>3. /\ segments \in Seq(Interval) /\ run \in Seq(Interval)
      /\ next \in DOMAIN run /\ next \in Nat \ {0} /\ sum \in Nat
      /\ Separated(segments) /\ Separated(run) /\ b \in Interval
  BY <1>1, <1>2 DEF TypeOK, Stretches, LoopInv, SegmentsInv, RunInv
<1>4. NothingToMerge'
  BY <1>1 DEF SecondsInv, NothingToMerge, DurationCalls
<1>5. SumInv'
  <2>1. Measured(list, next, sum)
    BY <1>1 DEF SecondsInv, SumInv
  <2>2. Measured(list, next + 1, sum + Seconds(list[next]))
    BY <1>2, <1>3, <2>1, MeasureOneMore
  <2>3. next + 1 <= Len(list) + 1 /\ next + 1 # 1
    BY <1>2, <1>3
  <2> QED
    BY <1>1, <1>2, <2>2, <2>3 DEF SumInv
<1>6. PlannedSumInv'
  BY <1>1 DEF SecondsInv, PlannedSumInv, SegmentSums
<1>7. ASSUME NEW j \in DOMAIN run
      PROVE  \E k \in DOMAIN segments : segments[k].start <= run[j].start /\ run[j].end <= segments[k].end
  <2>1. \A t \in Nat : In(t, run[j]) => Covers(segments, t)
    <3>1. \A t \in Nat : In(t, run[j]) => Covers(run, t)
      BY DEF Covers
    <3>2. \A t \in Nat : Covers(run, t) => Covers(segments, t)
      BY DEF LoopInv, RunInv
    <3> QED
      BY <3>1, <3>2
  <2>2. run[j] \in Interval
    BY <1>3
  <2> QED
    BY <1>3, <2>1, <2>2, StretchInOneSegment
<1>8. PICK l \in DOMAIN segments : segments[l].start <= b.start /\ b.end <= segments[l].end
  BY <1>3, <1>7
<1>9. \E P : /\ PrefixSums(segments, n, P) /\ planned_s = P[n]
             /\ (sum + Seconds(b)) * T <= P[l - 1] * T + (b.end - segments[l].start)
  <2>1. CASE next = 1
    <3>1. PICK P : PrefixSums(segments, n, P) /\ planned_s = P[n]
      BY <1>1 DEF SecondsInv, PlannedSumInv, SegmentSums
    <3>2. sum = 0
      BY <1>1, <2>1 DEF SecondsInv, SumInv
    <3> DEFINE x == Seconds(b)  xt == x * T  pt == P[l - 1] * T
               bs == b.start  be == b.end  ls == segments[l].start
    <3>3. x \in Nat /\ xt <= be - bs /\ T \in Nat
      BY <1>3, SecondsOfAnInterval, TimeIsDiscrete
    <3>4. P[l - 1] \in Nat
      <4>1. l - 1 \in 0..n
        BY <1>3
      <4> QED
        BY <3>1, <4>1 DEF PrefixSums
    <3>5. bs \in Nat /\ be \in Nat /\ ls \in Nat /\ ls <= bs /\ bs < be
      BY <1>3, <1>8 DEF Interval
    <3>6. xt \in Nat
      <4> HIDE DEF T, x
      <4> QED
        BY <3>3
    <3>7. pt \in Nat
      <4> HIDE DEF T
      <4> QED
        BY <3>3, <3>4
    <3>8. xt <= pt + (be - ls)
      <4> HIDE DEF xt, pt, bs, be, ls
      <4> QED
        BY ONLY <3>3, <3>5, <3>6, <3>7
    <3>9. sum + x = x
      <4> HIDE DEF x
      <4> QED
        BY <3>2, <3>3
    <3> QED
      BY <3>1, <3>8, <3>9
  <2>2. CASE next # 1
    <3>1. PICK P : /\ PrefixSums(segments, n, P) /\ planned_s = P[n]
                   /\ \E k \in DOMAIN segments : Reaches(P, k, sum)
      BY <1>1, <1>3, <2>2 DEF SecondsInv, RunSumInv
    <3>2. PICK k \in DOMAIN segments : Reaches(P, k, sum)
      BY <3>1
    <3> DEFINE a == run[next - 1]
    <3>3. next - 1 \in DOMAIN run /\ next - 1 < next
      BY <1>3, <2>2
    <3>4. a \in Interval /\ a.end < b.start
      BY <1>3, <3>3 DEF Separated
    <3>5. /\ segments[k].start <= a.start /\ a.end <= segments[k].end
          /\ sum * T <= P[k - 1] * T + (a.end - segments[k].start)
      BY <3>2 DEF Reaches
    <3> HIDE DEF a, b
    <3>6. (sum + Seconds(b)) * T <= P[l - 1] * T + (b.end - segments[l].start)
      BY <1>3, <1>8, <3>1, <3>2, <3>4, <3>5, OneMoreStretch
    <3> QED
      BY <3>1, <3>6
  <2> QED
    BY <2>1, <2>2
<1>10. RunSumInv'
  <2>1. PICK P : /\ PrefixSums(segments, n, P) /\ planned_s = P[n]
                 /\ (sum + Seconds(b)) * T <= P[l - 1] * T + (b.end - segments[l].start)
    BY <1>9
  <2>2. next' - 1 = next /\ sum' = sum + Seconds(b)
    BY <1>1, <1>2, <1>3
  <2>3. Reaches(P, l, sum)'
    BY <1>1, <1>8, <2>1, <2>2 DEF Reaches
  <2> QED
    BY <1>1, <2>1, <2>3 DEF RunSumInv
<1> QED
  BY <1>4, <1>5, <1>6, <1>10 DEF SecondsInv

(* The end of the loop of duration_seconds for the planned time. *)
LEMMA SecondsPlannedMeasured ==
  ASSUME TypeOK, TypeOK', LoopInv, LoopInv', SecondsInv, PlannedMeasured
  PROVE  SecondsInv'
<1> DEFINE n == Len(segments)
           d == input.window.end - input.window.start
<1>1. /\ pc = "sum" /\ next \notin DOMAIN merged /\ call = "planned_seconds"
      /\ planned_s' = sum /\ SubtractFromSegment(1, run)
      /\ UNCHANGED <<input, segments, run>>
  BY DEF PlannedMeasured
<1>2. /\ list = segments /\ merged = segments /\ segments \in Seq(Interval)
      /\ next \in Nat \ {0} /\ sum \in Nat /\ input.window \in Interval
  BY <1>1, InputTypes DEF SecondsInv, NothingToMerge, TypeOK, Stretches
<1>3. next = n + 1 /\ next - 1 = n
  <2>1. next <= Len(segments) + 1
    BY <1>1, <1>2 DEF SecondsInv, SumInv
  <2> QED
    BY <1>1, <1>2, <2>1, LoopIsAtItsEnd
<1>4. Measured(segments, n + 1, sum) /\ SegmentSums(n, sum)
  BY <1>1, <1>2, <1>3 DEF SecondsInv, SumInv, PlannedSumInv
<1>5. sum <= Seconds(input.window)
  <2>1. d \in Nat /\ input.window.start \in Nat /\ input.window.end \in Nat
    BY <1>2 DEF Interval
  <2>2. CASE next = 1
    <3>1. sum = 0 /\ Seconds(input.window) \in Nat
      BY <1>1, <1>2, <2>2, SecondsOfAnInterval DEF SecondsInv, SumInv
    <3> QED
      BY <3>1
  <2>3. CASE next # 1
    <3> DEFINE last == segments[next - 1].end
               ws == input.window.start  we == input.window.end
               st == sum * TicksPerSecond
    <3>1. st <= last - ws
      BY <1>1, <1>2, <2>3 DEF SecondsInv, PlannedSumInv
    <3>2. last \in Nat /\ last <= we
      <4>1. next - 1 \in DOMAIN segments
        BY <1>2, <1>3, <2>3
      <4> QED
        BY <1>1, <1>2, <4>1, SegmentsInWindow DEF Interval
    <3>3. ws \in Nat /\ we \in Nat
      BY <2>1
    <3>4. st \in Nat /\ 0 * TicksPerSecond = 0
      BY <1>2, TimeIsDiscrete
    <3>5. st <= we - ws
      <4> HIDE DEF st, last, ws, we
      <4> QED
        BY ONLY <3>1, <3>2, <3>3, <3>4
    <3>6. st <= 0 * TicksPerSecond + d
      <4> HIDE DEF st
      <4> QED
        BY <2>1, <3>4, <3>5
    <3> HIDE DEF d
    <3>7. sum <= 0 + d \div TicksPerSecond
      BY <1>2, <2>1, <3>6, EverySecondCounts
    <3>8. d \div TicksPerSecond \in Nat
      BY <2>1, WholeSeconds
    <3> QED
      BY <1>2, <3>7, <3>8 DEF Seconds, d
  <2> QED
    BY <2>2, <2>3
<1>6. /\ SubtractFromSegment(1, run') /\ Measured(segments', Len(segments') + 1, planned_s')
      /\ planned_s' <= Seconds(input'.window)
  BY <1>1, <1>4, <1>5
<1>7. SegmentSums(Len(segments), planned_s)'
  BY <1>1, <1>4 DEF SegmentSums
<1> QED
  BY <1>1, <1>6, <1>7, SecondsNextSegment

LEMMA SecondsUnplannedReturns ==
  ASSUME TypeOK, TypeOK', LoopInv, LoopInv', SecondsInv, UnplannedReturns
  PROVE  SecondsInv'
<1>1. /\ call = "unplanned" /\ SubtractFromSegment(segment + 1, run')
      /\ UNCHANGED <<input, segments, planned_s>>
  BY DEF UnplannedReturns, resultVars
<1>2. /\ Measured(segments, Len(segments) + 1, planned_s)
      /\ planned_s <= Seconds(input.window)
      /\ SegmentSums(Len(segments), planned_s)
  BY <1>1 DEF SecondsInv, PlannedSumInv
<1>3. SegmentSums(Len(segments), planned_s)'
  BY <1>1, <1>2 DEF SegmentSums
<1> QED
  BY <1>1, <1>2, <1>3, SecondsNextSegment

(* The end of the loop of duration_seconds for the run time. *)
LEMMA SecondsRunMeasured ==
  ASSUME TypeOK, LoopInv, SecondsInv, RunMeasured
  PROVE  SecondsInv'
<1>1. /\ pc = "sum" /\ pc' = "done" /\ next \notin DOMAIN merged /\ call = "run_seconds"
      /\ run_s' = sum
      /\ UNCHANGED <<input, call, list, merged, next, segments, segment, run, planned_s>>
  BY DEF RunMeasured, unionVars, subtractVars, timeVars
<1>2. /\ list = run /\ merged = run /\ run \in Seq(Interval) /\ segments \in Seq(Interval)
      /\ next \in Nat \ {0} /\ sum \in Nat /\ planned_s \in Nat
  BY <1>1 DEF SecondsInv, NothingToMerge, TypeOK, Stretches
<1>3. next = Len(run) + 1 /\ next - 1 = Len(run)
  <2>1. next <= Len(run) + 1
    BY <1>1, <1>2 DEF SecondsInv, SumInv
  <2> QED
    BY <1>1, <1>2, <2>1, LoopIsAtItsEnd
<1>4. Measured(run, Len(run) + 1, sum)
  BY <1>1, <1>2, <1>3 DEF SecondsInv, SumInv
<1>5. sum <= planned_s
  <2>1. CASE next = 1
    <3>1. sum = 0
      BY <1>1, <2>1 DEF SecondsInv, SumInv
    <3> QED
      BY <1>2, <3>1
  <2>2. CASE next # 1
    <3>1. PICK P : /\ PrefixSums(segments, Len(segments), P) /\ planned_s = P[Len(segments)]
                   /\ \E k \in DOMAIN segments : Reaches(P, k, sum)
      BY <1>1, <1>2, <2>2 DEF SecondsInv, RunSumInv
    <3>2. PICK k \in DOMAIN segments : Reaches(P, k, sum)
      BY <3>1
    <3> DEFINE a == run[next - 1]
    <3>3. a \in Interval
      BY <1>2, <1>3, <2>2
    <3>4. /\ segments[k].start <= a.start /\ a.end <= segments[k].end
          /\ sum * TicksPerSecond <= P[k - 1] * TicksPerSecond + (a.end - segments[k].start)
      BY <3>2 DEF Reaches
    <3> HIDE DEF a
    <3> QED
      BY <1>2, <3>1, <3>2, <3>3, <3>4, SegmentBounds
  <2> QED
    BY <2>1, <2>2
<1>6. NothingToMerge' /\ SumInv'
  BY <1>1 DEF SecondsInv, NothingToMerge, SumInv
<1>7. PlannedSumInv'
  BY <1>1 DEF SecondsInv, PlannedSumInv, SegmentSums
<1>8. RunSumInv'
  BY <1>1, <1>4, <1>5 DEF RunSumInv
<1> QED
  BY <1>6, <1>7, <1>8 DEF SecondsInv

LEMMA SecondsInvIsInductive ==
  ASSUME TypeOK, TypeOK', LoopInv, LoopInv', SecondsInv, [Next]_vars
  PROVE  SecondsInv'
<1>1. CASE Reject
  <2>1. /\ pc' = "rejected" /\ call = None
        /\ UNCHANGED <<input, call, list, merged, next, sum, segments, run, planned_s, run_s>>
    BY <1>1 DEF Reject, LoopInv, CallInv, unionVars, subtractVars, timeVars, resultVars
  <2> QED
    BY <2>1, NoneIsNoCall
       DEF SecondsInv, NothingToMerge, SumInv, PlannedSumInv, RunSumInv, DurationCalls, SubtractCalls
<1>2. CASE Begin
  <2>1. pc' = "union" /\ call' = "planned"
    BY <1>2 DEF Begin, CallSubtract, CallUnion
  <2> QED
    BY <2>1 DEF SecondsInv, NothingToMerge, SumInv, PlannedSumInv, RunSumInv, DurationCalls
<1>3. CASE SumNext
  <2>1. call \in DurationCalls
    BY <1>3 DEF SumNext, LoopInv, CallInv
  <2> QED
    BY <1>3, <2>1, SecondsPlannedSum, SecondsRunSum DEF DurationCalls
<1>4. CASE UNCHANGED vars
  BY <1>4 DEF vars, unionVars, subtractVars, timeVars, resultVars,
              SecondsInv, NothingToMerge, SumInv, PlannedSumInv, RunSumInv, SegmentSums, Reaches
<1> QED
  BY <1>1, <1>2, <1>3, <1>4, SecondsUnionNext, SecondsUnionReturns, SecondsSubtractNext,
     SecondsPlannedReturns, SecondsPlannedMeasured, SecondsUnplannedReturns, SecondsRunMeasured
     DEF Next

(* All instants of a list lie before its end. *)
LEMMA MeasuredInAll ==
  ASSUME NEW s \in Seq(Interval), NEW d \in Nat, Measured(s, Len(s) + 1, d)
  PROVE  LET lost == Cardinality(Covered(s)) - d * TicksPerSecond
         IN  0 <= lost /\ lost <= Len(s) * (TicksPerSecond - 1)
<1>1. Covered(s) = CoveredBefore(s, Len(s) + 1)
  <2>1. \A t : t \in Covered(s) <=> t \in Nat /\ Covers(s, t)
    BY CoveredIsCovers
  <2>2. \A t : CoversBefore(s, Len(s) + 1, t) <=> Covers(s, t)
    BY BeforeTheNext
  <2> QED
    BY <2>1, <2>2 DEF CoveredBefore
<1> DEFINE c == Cardinality(CoveredBefore(s, Len(s) + 1))
           dt == d * TicksPerSecond
           lt == Len(s) * (TicksPerSecond - 1)
<1>2. c \in Nat
  BY FS_CardinalityType DEF Measured
<1>3. dt \in Nat /\ lt \in Nat
  <2>1. Len(s) \in Nat /\ TicksPerSecond \in Nat /\ TicksPerSecond - 1 \in Nat
    BY TimeIsDiscrete
  <2> QED
    BY <2>1
<1>4. dt <= c /\ c <= dt + lt
  <2>1. (Len(s) + 1) - 1 = Len(s)
    OBVIOUS
  <2> QED
    BY <2>1 DEF Measured
<1>5. 0 <= c - dt /\ c - dt <= lt
  <2> HIDE DEF c, dt, lt
  <2> QED
    BY ONLY <1>2, <1>3, <1>4
<1> QED
  BY <1>1, <1>5

LEMMA SecondsInvInitially == Init => SecondsInv
<1> SUFFICES ASSUME Init PROVE SecondsInv
  OBVIOUS
<1>1. pc = "start" /\ call = None
  BY DEF Init
<1> QED
  BY <1>1, NoneIsNoCall DEF SecondsInv, NothingToMerge, SumInv, PlannedSumInv, RunSumInv,
                            SubtractCalls, DurationCalls

(* Run time never exceeds planned time, nor planned time the window, and   *)
(* each stretch loses less than a second, although every stretch is cut to *)
(* whole seconds by itself (duration_seconds).                             *)
THEOREM DurationsNest == Spec => []DurationsAreNested
<1>1. Init => LoopInv /\ SecondsInv
  BY LoopInvInitially, SecondsInvInitially
<1>2. TypeOK /\ TypeOK' /\ LoopInv /\ SecondsInv /\ [Next]_vars => LoopInv' /\ SecondsInv'
  BY LoopInvIsInductive, SecondsInvIsInductive
<1>3. TypeOK /\ LoopInv /\ SecondsInv => DurationsAreNested
  <2> SUFFICES ASSUME TypeOK, LoopInv, SecondsInv, pc = "done" PROVE DurationsAreNested
    BY DEF DurationsAreNested
  <2>1. /\ segments \in Seq(Interval) /\ run \in Seq(Interval) /\ planned_s \in Nat /\ run_s \in Nat
        /\ call = "run_seconds"
    BY DEF TypeOK, Stretches, LoopInv, CallInv
  <2>2. /\ run_s <= planned_s /\ planned_s <= Seconds(input.window)
        /\ Measured(segments, Len(segments) + 1, planned_s) /\ Measured(run, Len(run) + 1, run_s)
    BY <2>1 DEF SecondsInv, PlannedSumInv, RunSumInv
  <2> DEFINE Lost(s, d) == LET lost == Cardinality(Covered(s)) - d * TicksPerSecond
                           IN  0 <= lost /\ lost <= Len(s) * (TicksPerSecond - 1)
  <2>3. Lost(segments, planned_s) /\ Lost(run, run_s)
    BY <2>1, <2>2, MeasuredInAll
  <2>4. \A d \in {<<segments, planned_s>>, <<run, run_s>>} : Lost(d[1], d[2])
    <3> HIDE DEF Lost
    <3> QED
      BY <2>3
  <2> QED
    BY <2>2, <2>4 DEF DurationsAreNested
<1>4. Spec => []TypeOK
  BY TypeCorrect
<1> QED
  BY <1>1, <1>2, <1>3, <1>4, PTL DEF Spec

--------------------------------------------------------------------------------
(* Before the result there is no warning but that of an open event.        *)
WarningsInv ==
  /\ pc # "done" => \A k \in DOMAIN warnings : warnings[k] = OpenEventClipped
  /\ pc = "done" => /\ result = Components(planned_s, run_s)
                    /\ Listed(ZeroPlannedTime) <=> planned_s = 0
                    /\ Listed(ZeroRunTime) <=> run_s = 0
                    /\ Listed(PerformanceOver100) <=> run_s > 0 /\ input.ideal > run_s
                    /\ Listed(ZeroTotalCount) <=> input.total = 0

ListedIn(s, warning) == \E k \in DOMAIN s : s[k] = warning

LEMMA OneMoreWarning ==
  ASSUME NEW s \in Seq(Warnings), NEW w \in Warnings, NEW c \in BOOLEAN
  PROVE  \A v \in Warnings : ListedIn(s \o WarningIf(c, w), v) <=> ListedIn(s, v) \/ (c /\ v = w)
<1> DEFINE r == s \o WarningIf(c, w)
<1>1. SUFFICES \A v \in Warnings : ListedIn(r, v) <=> ListedIn(s, v) \/ (c /\ v = w)
  BY Zenon
<1>2. CASE c
  <2>1. r = s \o <<w>>
    BY <1>2 DEF WarningIf
  <2>2. /\ DOMAIN r = 1..(Len(s) + 1) /\ r[Len(s) + 1] = w
        /\ DOMAIN s = 1..Len(s) /\ Len(s) \in Nat
        /\ \A k \in 1..Len(s) : r[k] = s[k]
    BY <2>1
  <2> HIDE DEF r
  <2>3. \A k \in 1..(Len(s) + 1) : k \in 1..Len(s) \/ k = Len(s) + 1
    BY <2>2
  <2>4. \A k \in 1..Len(s) : k \in 1..(Len(s) + 1)
    BY <2>2
  <2>5. Len(s) + 1 \in 1..(Len(s) + 1)
    BY <2>2
  <2> QED
    BY <1>2, <2>2, <2>3, <2>4, <2>5 DEF ListedIn
<1>3. CASE ~ c
  <2>1. r = s
    BY <1>3 DEF WarningIf
  <2> QED
    BY <1>3, <2>1
<1> QED
  BY <1>2, <1>3

LEMMA WarningsInvIsInductive ==
  ASSUME TypeOK, LoopInv, WarningsInv, [Next]_vars
  PROVE  WarningsInv'
<1>1. CASE RunMeasured
  <2> DEFINE c1 == planned_s = 0
             c2 == sum = 0
             c3 == sum > 0 /\ input.ideal > sum
             c4 == input.total = 0
             w1 == warnings \o WarningIf(c1, ZeroPlannedTime)
             w2 == w1 \o WarningIf(c2, ZeroRunTime)
             w3 == w2 \o WarningIf(c3, PerformanceOver100)
             w4 == w3 \o WarningIf(c4, ZeroTotalCount)
  <2>1. /\ pc = "sum" /\ pc' = "done" /\ warnings' = w4
        /\ run_s' = sum /\ planned_s' = planned_s /\ input' = input
        /\ result' = Components(planned_s, sum)
    BY <1>1 DEF RunMeasured
  <2>2. /\ ZeroPlannedTime \in Warnings /\ ZeroRunTime \in Warnings
        /\ PerformanceOver100 \in Warnings /\ ZeroTotalCount \in Warnings
    BY DEF Warnings
  <2>3. warnings \in Seq(Warnings)
    BY DEF TypeOK
  <2>0. c1 \in BOOLEAN /\ c2 \in BOOLEAN /\ c3 \in BOOLEAN /\ c4 \in BOOLEAN
    OBVIOUS
  <2> HIDE DEF c1, c2, c3, c4
  <2>4. w1 \in Seq(Warnings)
    BY <2>0, <2>2, <2>3, WarningsStayTyped, Zenon
  <2>14. \A v \in Warnings : ListedIn(w1, v) <=> ListedIn(warnings, v) \/ (c1 /\ v = ZeroPlannedTime)
    BY <2>0, <2>2, <2>3, OneMoreWarning, Zenon
  <2> HIDE DEF w1
  <2>5. w2 \in Seq(Warnings)
    BY <2>0, <2>2, <2>4, WarningsStayTyped, Zenon
  <2>15. \A v \in Warnings : ListedIn(w2, v) <=> ListedIn(w1, v) \/ (c2 /\ v = ZeroRunTime)
    BY <2>0, <2>2, <2>4, OneMoreWarning, Zenon
  <2> HIDE DEF w2
  <2>6. w3 \in Seq(Warnings)
    BY <2>0, <2>2, <2>5, WarningsStayTyped, Zenon
  <2>16. \A v \in Warnings : ListedIn(w3, v) <=> ListedIn(w2, v) \/ (c3 /\ v = PerformanceOver100)
    BY <2>0, <2>2, <2>5, OneMoreWarning, Zenon
  <2> HIDE DEF w3
  <2>17. \A v \in Warnings : ListedIn(w4, v) <=> ListedIn(w3, v) \/ (c4 /\ v = ZeroTotalCount)
    BY <2>0, <2>2, <2>6, OneMoreWarning, Zenon
  <2> HIDE DEF w4
  <2>8. \A v \in {ZeroPlannedTime, ZeroRunTime, PerformanceOver100, ZeroTotalCount} :
          ~ ListedIn(warnings, v)
    <3>1. \A k \in DOMAIN warnings : warnings[k] = OpenEventClipped
      BY <2>1 DEF WarningsInv
    <3> QED
      BY <3>1 DEF ListedIn, OpenEventClipped, ZeroPlannedTime, ZeroRunTime, PerformanceOver100,
                  ZeroTotalCount
  <2>9. /\ ListedIn(w4, ZeroPlannedTime) <=> planned_s = 0
        /\ ListedIn(w4, ZeroRunTime) <=> sum = 0
        /\ ListedIn(w4, PerformanceOver100) <=> sum > 0 /\ input.ideal > sum
        /\ ListedIn(w4, ZeroTotalCount) <=> input.total = 0
    <3>1. /\ ZeroPlannedTime \notin {ZeroRunTime, PerformanceOver100, ZeroTotalCount}
          /\ ZeroRunTime \notin {ZeroPlannedTime, PerformanceOver100, ZeroTotalCount}
          /\ PerformanceOver100 \notin {ZeroRunTime, ZeroPlannedTime, ZeroTotalCount}
          /\ ZeroTotalCount \notin {ZeroRunTime, PerformanceOver100, ZeroPlannedTime}
      BY DEF ZeroPlannedTime, ZeroRunTime, PerformanceOver100, ZeroTotalCount
    <3> QED
      BY <2>2, <2>8, <2>14, <2>15, <2>16, <2>17, <3>1 DEF c1, c2, c3, c4
  <2>10. \A v : Listed(v)' <=> ListedIn(w4, v)
    BY <2>1 DEF Listed, ListedIn
  <2>11. Components(planned_s, run_s)' = Components(planned_s, sum)
    BY <2>1 DEF Components
  <2> QED
    BY <2>1, <2>9, <2>10, <2>11 DEF WarningsInv
<1>2. CASE Begin
  <2>1. pc' = "union" /\ warnings' \in {<<>>, <<OpenEventClipped>>}
    BY <1>2 DEF Begin, CallSubtract, CallUnion
  <2> QED
    BY <2>1 DEF WarningsInv
<1>3. ASSUME pc # "done", pc' # "done", UNCHANGED warnings PROVE WarningsInv'
  BY <1>3 DEF WarningsInv
<1>4. CASE Reject \/ UnionNext \/ UnionReturns \/ SubtractNext \/ SumNext \/ PlannedReturns
           \/ PlannedMeasured \/ UnplannedReturns
  BY <1>3, <1>4 DEF Reject, UnionNext, UnionReturns, SubtractNext, SumNext, PlannedReturns,
                    PlannedMeasured, UnplannedReturns, SubtractFromSegment, CallSubtract, CallUnion,
                    resultVars
<1>5. CASE UNCHANGED vars
  BY <1>5 DEF vars, resultVars, WarningsInv, Listed, Components
<1> QED
  BY <1>1, <1>2, <1>4, <1>5 DEF Next

(* The raw OEE is over 100% only if the performance is. *)
LEMMA NoMoreThanPerfect ==
  ASSUME NEW running \in Nat, NEW planned \in Nat, running <= planned,
         NEW ideal \in Nat, ideal <= running,
         NEW good \in Nat, NEW total \in Nat, good <= total
  PROVE  (running * ideal) * good <= (planned * running) * total
<1> DEFINE x == running * ideal
           y == planned * running
<1>1. x \in Nat /\ y \in Nat
  OBVIOUS
<1>2. x <= y
  <2>1. running * ideal <= planned * ideal
    BY ProductsAscend
  <2>2. ideal * planned <= running * planned
    BY ProductsAscend
  <2>3. ideal * planned = planned * ideal /\ running * planned = planned * running
    OBVIOUS
  <2>4. running * ideal \in Nat /\ planned * ideal \in Nat /\ planned * running \in Nat
    OBVIOUS
  <2> DEFINE u == planned * ideal
  <2>5. x <= u /\ u <= y /\ u \in Nat
    BY <2>1, <2>2, <2>3, <2>4
  <2> HIDE DEF x, y, u
  <2> QED
    BY <1>1, <2>5
<1> HIDE DEF x, y
<1>3. x * good <= y * good
  BY <1>1, <1>2, ProductsAscend
<1>4. good * y <= total * y
  BY <1>1, ProductsAscend
<1>5. good * y = y * good /\ total * y = y * total
  BY <1>1
<1>6. x * good \in Nat /\ y * good \in Nat /\ y * total \in Nat
  BY <1>1
<1> DEFINE a == x * good
           b == y * good
           c == y * total
<1>7. a <= c
  <2>1. a <= b /\ b <= c
    BY <1>3, <1>4, <1>5
  <2>2. a \in Nat /\ b \in Nat /\ c \in Nat
    BY <1>6
  <2> HIDE DEF a, b, c
  <2> QED
    BY <2>1, <2>2
<1> QED
  BY <1>7 DEF x, y

LEMMA WarningsExplain ==
  ASSUME TypeInv, LoopInv, SecondsInv, WarningsInv, pc = "done"
  PROVE  WarningsExplainTheResult
<1> DEFINE p == planned_s
           r == run_s
           i == input.ideal
           g == input.good
           t == input.total
           av == Ratio(r, p)
           pf == Ratio(i, r)
           ql == Ratio(g, t)
<1>1. /\ p \in Nat /\ r \in Nat /\ i \in Nat /\ g \in Nat /\ t \in Nat /\ g <= t
  BY DEF TypeInv, TypeOK, ArgumentsAreValid, CountsAreValid, Input
<1>2. r <= p
  BY DEF SecondsInv, RunSumInv
<1>3. /\ Listed(ZeroPlannedTime) <=> p = 0
      /\ Listed(ZeroRunTime) <=> r = 0
      /\ Listed(PerformanceOver100) <=> r > 0 /\ i > r
      /\ Listed(ZeroTotalCount) <=> t = 0
  BY DEF WarningsInv
<1>4. /\ result.availability = av /\ result.performance_raw = pf /\ result.quality = ql
      /\ result.performance_capped = IF r > 0 /\ i > r THEN <<1, 1>> ELSE pf
      /\ result.oee = IF None \in {av, pf, ql} THEN None ELSE Product(Product(av, pf), ql)
  BY DEF WarningsInv, Components
<1>5. \A m, n \in Nat : /\ n = 0 => Ratio(m, n) = None
                        /\ n # 0 => Ratio(m, n) = <<m, n>> /\ Ratio(m, n) # None
  BY NoneIsNoRatio DEF Ratio
<1>6. p = 0 => r = 0
  BY <1>1, <1>2
<1>7. /\ av = None <=> p = 0
      /\ pf = None <=> r = 0
      /\ ql = None <=> t = 0
  BY <1>1, <1>5
<1> DEFINE num == (r * i) * g
           den == (p * r) * t
<1>8. ASSUME r # 0, t # 0
      PROVE  result.oee = <<num, den>> /\ result.oee # None
  <2>1. p # 0
    BY <1>6, <1>8
  <2>2. av = <<r, p>> /\ pf = <<i, r>> /\ ql = <<g, t>>
    BY <1>1, <1>5, <1>8, <2>1
  <2>3. None \notin {av, pf, ql}
    BY <1>7, <1>8, <2>1
  <2>4. result.oee = Product(Product(av, pf), ql)
    <3> HIDE DEF av, pf, ql
    <3> QED
      BY <1>4, <2>3
  <2>5. Product(Product(av, pf), ql) = <<num, den>>
    <3> HIDE DEF av, pf, ql
    <3> QED
      BY <2>2 DEF Product
  <2>6. num \in Nat /\ den \in Nat
    BY <1>1
  <2> HIDE DEF num, den
  <2> QED
    BY <2>4, <2>5, <2>6, NoneIsNoRatio
<1>9. result.oee = None <=> r = 0 \/ t = 0
  <2>1. ASSUME r = 0 \/ t = 0 PROVE result.oee = None
    BY <1>4, <1>7, <2>1
  <2> QED
    BY <1>8, <2>1
<1>10. result.oee # None /\ result.oee[1] > result.oee[2] => r > 0 /\ i > r
  <2> SUFFICES ASSUME result.oee # None, ~ (r > 0 /\ i > r)
               PROVE  ~ (result.oee[1] > result.oee[2])
    OBVIOUS
  <2>1. r # 0 /\ t # 0
    BY <1>9
  <2>2. i <= r
    BY <1>1, <2>1
  <2>3. num <= den /\ num \in Nat /\ den \in Nat
    <3>1. num <= den
      <4> HIDE DEF p, r, i, g, t
      <4> QED
        BY <1>1, <1>2, <2>2, NoMoreThanPerfect
    <3>2. num \in Nat /\ den \in Nat
      BY <1>1
    <3> QED
      BY <3>1, <3>2
  <2>4. result.oee[1] = num /\ result.oee[2] = den
    <3> HIDE DEF num, den
    <3> QED
      BY <1>8, <2>1
  <2> HIDE DEF num, den
  <2> QED
    BY <2>3, <2>4
<1>11. result.performance_capped # result.performance_raw => r > 0 /\ i > r
  BY <1>4
<1> HIDE DEF p, r, i, t, av, pf, ql
<1> QED
  BY <1>3, <1>4, <1>6, <1>7, <1>9, <1>10, <1>11 DEF WarningsExplainTheResult

(* Each warning of calculate_oee stands for a missing component or a       *)
(* performance over 100%; without planned time there is no run time.       *)
THEOREM NoResultIsUnexplained == Spec => []WarningsExplainTheResult
<1>1. Init => LoopInv /\ SecondsInv /\ WarningsInv
  <2>1. Init => WarningsInv
    BY DEF Init, WarningsInv
  <2> QED
    BY <2>1, LoopInvInitially, SecondsInvInitially
<1>2. /\ TypeInv /\ TypeInv' /\ LoopInv /\ SecondsInv /\ WarningsInv /\ [Next]_vars
      => LoopInv' /\ SecondsInv' /\ WarningsInv'
  BY LoopInvIsInductive, SecondsInvIsInductive, WarningsInvIsInductive DEF TypeInv
<1>3. TypeInv /\ LoopInv /\ SecondsInv /\ WarningsInv => WarningsExplainTheResult
  <2>1. pc # "done" => WarningsExplainTheResult
    BY DEF WarningsExplainTheResult
  <2> QED
    BY <2>1, WarningsExplain
<1>4. Spec => []TypeInv
  BY TypeInvHolds
<1> QED
  BY <1>1, <1>2, <1>3, <1>4, PTL DEF Spec
=============================================================================
