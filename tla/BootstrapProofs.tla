---------------------------- MODULE BootstrapProofs ----------------------------
(***************************************************************************)
(* Proofs about Bootstrap, for any scripts, keys, catalogues and drafts.   *)
(***************************************************************************)
EXTENDS Bootstrap, FiniteSetTheorems, TLAPS

(* The line of the seed, which it looks for before all else.               *)
SeedLine == SeedTopology[1]

Statements ==
  [do : {"get", "insert", "create", "ensure", "resolve", "commit"}, key : Keys \union {None}]

Inserting == {"get", "insert", "create"}

(* A list of statements in which whatever may insert names a key and has a *)
(* commit behind it.                                                       *)
WellFormed(q) ==
  /\ q \in Seq(Statements)
  /\ \A i \in DOMAIN q : q[i].do \in Inserting =>
       /\ q[i].key \in Keys
       /\ \E j \in DOMAIN q : i < j /\ q[j].do = "commit"

Commits(q) == \E i \in DOMAIN q : q[i].do = "commit"

(* Where the seed looks for its shift, and what is left of the seed from a *)
(* place on.                                                               *)
ShiftPlace == Len(SeedTopology) + Len(Catalog) + 1
Length     == Len(SeedTopology) + Len(Catalog) + 1 + Len(SeedRows) + 1

Rest(q, n) ==
  /\ Len(q) = Length - n + 1
  /\ \A i \in 1..Len(q) : q[i] = SeedScript[n - 1 + i]

-----------------------------------------------------------------------------
(* The invariant. *)

Typed ==
  /\ rows \in [Keys -> Nat] /\ own \in [Scripts -> SUBSET Keys]
  /\ todo \in [Scripts -> Seq(Statements)]
  /\ DOMAIN job = Scripts

(* A transaction is open while its script has a commit to come.            *)
Transactions ==
  \A s \in Scripts : /\ WellFormed(todo[s])
                     /\ own[s] # {} => Commits(todo[s])
                     /\ job[s].pc # "sql" => own[s] = {}

(* What the unique keys do.                                                *)
KeysAreHeld ==
  /\ \A s, t \in Scripts : s # t => own[s] \intersect own[t] \intersect UniqueKeys = {}
  /\ \A s \in Scripts : \A key \in own[s] : rows[key] = 0

(* Whoever has inserted the shift has inserted the line: they are committed *)
(* together.                                                                *)
ShiftComesWithLine ==
  /\ \A s \in Scripts : SeedShift \in own[s] => SeedLine \in own[s]
  /\ rows[SeedShift] > 0 <=> rows[SeedLine] > 0

(* Simulators have to do with neither.                                      *)
KeepsAway(q) ==
  \A i \in DOMAIN q : q[i].do \in Inserting => q[i].key \notin {SeedLine, SeedShift}

SimulatorsKeepAway ==
  \A s \in Scripts : Kind[s] # "seed" =>
    {SeedLine, SeedShift} \intersect own[s] = {} /\ KeepsAway(todo[s])

(* A key that a script finds.                                               *)
Has(s, key) == key \in own[s] \/ rows[key] > 0

(* A seed that has executed the statements before a place.                  *)
Reached(s, n) == /\ n > 1 => Has(s, SeedLine)
                 /\ n > ShiftPlace => Has(s, SeedShift)

SeedIsBetween(s, n) == Rest(todo[s], n) /\ Reached(s, n)

(* A seed that has found nothing at the place and is about to insert.       *)
SeedInserts(s, n) ==
  /\ todo[s] # << >> /\ Rest(Tail(todo[s]), n + 1)
  /\ Head(todo[s]) = [do |-> "insert", key |-> SeedScript[n].key]
  /\ SeedScript[n].do = "get"
  /\ Reached(s, n)
  /\ n = ShiftPlace => SeedLine \in own[s]

SeedsAreInOrder ==
  \A s \in Scripts : Kind[s] = "seed" /\ todo[s] # << >> =>
    \E n \in 1..Length : SeedIsBetween(s, n) \/ SeedInserts(s, n)

IInv == /\ Typed /\ Transactions /\ KeysAreHeld /\ ShiftComesWithLine
        /\ SimulatorsKeepAway /\ SeedsAreInOrder /\ NoDuplicates

-----------------------------------------------------------------------------
(* The scripts. *)

LEMMA RangeOfSeq ==
  ASSUME NEW S, NEW q \in Seq(S)
  PROVE  /\ DOMAIN q = 1..Len(q) /\ Len(q) \in Nat
         /\ \A i \in 1..Len(q) : q[i] \in Range(q)
         /\ \A x \in Range(q) : \E i \in 1..Len(q) : x = q[i]
BY DEF Range

LEMMA Concatenation ==
  ASSUME NEW S, NEW p \in Seq(S), NEW q \in Seq(S)
  PROVE  /\ p \o q \in Seq(S) /\ Len(p \o q) = Len(p) + Len(q)
         /\ Len(p) \in Nat /\ Len(q) \in Nat
         /\ \A i \in 1..(Len(p) + Len(q)) :
              (p \o q)[i] = IF i <= Len(p) THEN p[i] ELSE q[i - Len(p)]
OBVIOUS

LEMMA DoIsASequence ==
  ASSUME NEW S, S \subseteq Keys \union {None}, NEW q \in Seq(S),
         NEW what \in {"get", "insert", "create", "ensure", "resolve", "commit"}
  PROVE  /\ Do(what, q) \in Seq(Statements)
         /\ Len(Do(what, q)) = Len(q)
         /\ \A i \in 1..Len(q) : Do(what, q)[i] = [do |-> what, key |-> q[i]]
<1>1. DOMAIN q = 1..Len(q) /\ Len(q) \in Nat
  OBVIOUS
<1>2. Do(what, q) = [i \in 1..Len(q) |-> [do |-> what, key |-> q[i]]]
  BY <1>1 DEF Do
<1>3. \A i \in 1..Len(q) : q[i] \in Keys \union {None}
  OBVIOUS
<1>4. \A i \in 1..Len(q) : [do |-> what, key |-> q[i]] \in Statements
  BY <1>3 DEF Statements
<1>5. Do(what, q) \in [1..Len(q) -> Statements]
  BY <1>2, <1>4
<1> QED
  BY <1>1, <1>2, <1>5

LEMMA LinesAndShifts ==
  /\ SeedTopology \in Seq(Keys) /\ SeedRows \in Seq(Keys) /\ SimTopology \in Seq(Keys)
  /\ Catalog \in Seq(Keys)
  /\ SeedTopology # << >>
  /\ SeedShift \in Keys /\ SeedLine \in Keys /\ SeedLine # SeedShift
  /\ UniqueKeys = Keys \ {SeedShift}
  /\ Reasons \subseteq Keys \ {SeedLine, SeedShift}
  /\ \A i \in 1..Len(SimTopology) : SimTopology[i] \notin {SeedLine, SeedShift}
  /\ \A i \in 1..Len(SeedTopology) : SeedTopology[i] # SeedShift
  /\ \A i \in 1..Len(SeedRows) : SeedRows[i] # SeedShift
  /\ \A i \in 1..Len(Catalog) : Catalog[i] # SeedShift
<1>1. \A q \in {SeedTopology, SeedRows, SimTopology, Catalog} :
        q \in Seq(Range(q)) /\ SeedShift \notin Range(q)
  BY KeysAreApart
<1>2. \A q \in {SeedTopology, SeedRows, SimTopology, Catalog} :
        /\ Len(q) \in Nat /\ DOMAIN q = 1..Len(q)
        /\ \A i \in 1..Len(q) : q[i] \in Range(q)
  BY <1>1, RangeOfSeq
<1>3. \A q \in {SeedTopology, SeedRows, SimTopology, Catalog} : Range(q) \subseteq Keys
  BY DEF Keys, Reasons
<1>4. \A q \in {SeedTopology, SeedRows, SimTopology, Catalog} : q \in Seq(Keys)
  BY <1>1, <1>3
<1>5. SeedLine \in Range(SeedTopology)
  BY <1>2, KeysAreApart DEF SeedLine
<1>6. SeedLine \notin Range(SimTopology) \union Range(Catalog)
  BY KeysAreApart DEF SeedLine
<1> QED
  BY <1>1, <1>2, <1>3, <1>4, <1>5, <1>6, KeysAreApart DEF Keys, Reasons, UniqueKeys

LEMMA SeedScriptIs ==
  /\ SeedScript \in Seq(Statements) /\ Len(SeedScript) = Length
  /\ Length \in Nat /\ ShiftPlace \in 2..(Length - 1)
  /\ SeedScript[1] = [do |-> "get", key |-> SeedLine]
  /\ SeedScript[ShiftPlace] = [do |-> "get", key |-> SeedShift]
  /\ SeedScript[Length] = [do |-> "commit", key |-> None]
  /\ \A i \in 1..(Length - 1) : /\ SeedScript[i].do \in {"get", "create"}
                                /\ SeedScript[i].key \in Keys
                                /\ SeedScript[i].key = SeedShift => i = ShiftPlace
<1> DEFINE looks == SeedTopology \o Catalog \o <<SeedShift>>
           gets  == Do("get", looks)
           creates == Do("create", SeedRows)
           commit == Do("commit", <<None>>)
<1>1. looks \in Seq(Keys)
  BY LinesAndShifts
<1>2. Len(looks) = ShiftPlace
  BY LinesAndShifts DEF ShiftPlace
<1>3. \A i \in 1..ShiftPlace :
        looks[i] = IF i <= Len(SeedTopology) THEN SeedTopology[i]
                   ELSE IF i < ShiftPlace THEN Catalog[i - Len(SeedTopology)] ELSE SeedShift
  BY LinesAndShifts DEF ShiftPlace
<1>4. Len(SeedTopology) \in Nat \ {0} /\ Len(Catalog) \in Nat /\ Len(SeedRows) \in Nat
  BY LinesAndShifts
<1> HIDE DEF looks
<1>5. looks[1] = SeedLine /\ looks[ShiftPlace] = SeedShift
      /\ \A i \in 1..(ShiftPlace - 1) : looks[i] # SeedShift
  <2>1. 1 \in 1..ShiftPlace /\ 1 <= Len(SeedTopology) /\ ShiftPlace \in Nat
    BY <1>4 DEF ShiftPlace
  <2>2. looks[1] = SeedLine
    BY <1>3, <2>1 DEF SeedLine
  <2>3. /\ ~(ShiftPlace <= Len(SeedTopology)) /\ ShiftPlace \in 1..ShiftPlace
        /\ ~(ShiftPlace < ShiftPlace)
    BY <1>4 DEF ShiftPlace
  <2>4. looks[ShiftPlace] = SeedShift
    BY <1>3, <2>1, <2>3
  <2>5. ASSUME NEW i \in 1..(ShiftPlace - 1) PROVE looks[i] # SeedShift
    <3>1. i \in 1..ShiftPlace /\ i < ShiftPlace /\ i \in Nat
      BY <2>1
    <3>2. CASE i <= Len(SeedTopology)
      BY <1>3, <1>4, <3>1, <3>2, LinesAndShifts
    <3>3. CASE ~(i <= Len(SeedTopology))
      <4>1. i - Len(SeedTopology) \in 1..Len(Catalog)
        BY <1>4, <3>1, <3>3 DEF ShiftPlace
      <4> QED
        BY <1>3, <3>1, <3>3, <4>1, LinesAndShifts
    <3> QED
      BY <3>2, <3>3
  <2> QED
    BY <2>2, <2>4, <2>5
<1>6. /\ gets \in Seq(Statements) /\ Len(gets) = ShiftPlace
      /\ \A i \in 1..ShiftPlace : gets[i] = [do |-> "get", key |-> looks[i]]
  BY <1>1, <1>2, DoIsASequence
<1>7. /\ creates \in Seq(Statements) /\ Len(creates) = Len(SeedRows)
      /\ \A i \in 1..Len(SeedRows) : creates[i] = [do |-> "create", key |-> SeedRows[i]]
  BY LinesAndShifts, DoIsASequence
<1>8. commit \in Seq(Statements) /\ Len(commit) = 1 /\ commit[1] = [do |-> "commit", key |-> None]
  <2>1. <<None>> \in Seq({None}) /\ Len(<<None>>) = 1 /\ <<None>>[1] = None
        /\ {None} \subseteq Keys \union {None}
    OBVIOUS
  <2>2. /\ Do("commit", <<None>>) \in Seq(Statements)
        /\ Len(Do("commit", <<None>>)) = Len(<<None>>)
        /\ \A i \in 1..Len(<<None>>) :
             Do("commit", <<None>>)[i] = [do |-> "commit", key |-> <<None>>[i]]
    BY <2>1, DoIsASequence
  <2> QED
    BY <2>1, <2>2
<1>9. SeedScript = gets \o creates \o commit
  BY DEF SeedScript, looks
<1> HIDE DEF gets, creates, commit
<1> DEFINE front == gets \o creates
<1>a. /\ front \in Seq(Statements) /\ Len(front) = ShiftPlace + Len(SeedRows)
      /\ \A i \in 1..Len(front) :
           front[i] = IF i <= ShiftPlace THEN gets[i] ELSE creates[i - ShiftPlace]
  <2>1. gets \in Seq(Statements) /\ creates \in Seq(Statements)
    BY <1>6, <1>7
  <2> QED
    BY <1>6, <1>7, <2>1, Concatenation DEF front
<1>b. ShiftPlace \in Nat /\ Length = ShiftPlace + Len(SeedRows) + 1
  BY <1>4 DEF Length, ShiftPlace
<1>c. SeedScript = front \o commit
  BY <1>9
<1>d. /\ SeedScript \in Seq(Statements) /\ Len(SeedScript) = Len(front) + Len(commit)
      /\ \A i \in 1..(Len(front) + Len(commit)) :
           SeedScript[i] = IF i <= Len(front) THEN front[i] ELSE commit[i - Len(front)]
  <2>1. front \in Seq(Statements) /\ commit \in Seq(Statements)
    BY <1>8, <1>a
  <2> QED
    BY <1>c, <2>1, Concatenation
<1> HIDE DEF front
<1>10. SeedScript \in Seq(Statements) /\ Len(SeedScript) = Length
  BY <1>4, <1>8, <1>a, <1>b, <1>d
<1>11. \A i \in 1..Length :
         SeedScript[i] = IF i <= ShiftPlace THEN gets[i]
                         ELSE IF i < Length THEN creates[i - ShiftPlace] ELSE commit[1]
  BY <1>4, <1>8, <1>a, <1>b, <1>d
<1>12. Length \in Nat /\ ShiftPlace \in 2..(Length - 1)
  BY <1>4 DEF Length, ShiftPlace
<1>13. \A i \in 1..ShiftPlace : looks[i] \in Keys
  BY <1>1, <1>2
<1>14. \A i \in 1..(Length - 1) : i > ShiftPlace => i - ShiftPlace \in 1..Len(SeedRows)
  BY <1>4 DEF Length, ShiftPlace
<1>15. SeedScript[1] = gets[1] /\ SeedScript[ShiftPlace] = gets[ShiftPlace]
       /\ SeedScript[Length] = commit[1]
  BY <1>11, <1>12
<1>16. ASSUME NEW i \in 1..(Length - 1)
       PROVE  /\ SeedScript[i].do \in {"get", "create"}
              /\ SeedScript[i].key \in Keys
              /\ SeedScript[i].key = SeedShift => i = ShiftPlace
  <2>1. CASE i <= ShiftPlace
    <3>1. SeedScript[i] = [do |-> "get", key |-> looks[i]] /\ looks[i] \in Keys
      BY <1>6, <1>11, <1>12, <1>13, <2>1
    <3>2. i # ShiftPlace => looks[i] # SeedShift
      BY <1>5, <1>12, <2>1
    <3> QED
      BY <3>1, <3>2
  <2>2. CASE i > ShiftPlace
    <3>1. SeedScript[i] = creates[i - ShiftPlace] /\ i - ShiftPlace \in 1..Len(SeedRows)
      BY <1>11, <1>12, <1>14, <2>2
    <3>2. SeedScript[i] = [do |-> "create", key |-> SeedRows[i - ShiftPlace]]
      BY <1>7, <3>1
    <3> QED
      BY <3>1, <3>2, LinesAndShifts
  <2> QED
    BY <1>12, <2>1, <2>2
<1> QED
  BY <1>5, <1>6, <1>8, <1>10, <1>12, <1>15, <1>16

-----------------------------------------------------------------------------
(* Lists of statements. *)

LEMMA HeadAndTail ==
  ASSUME NEW q \in Seq(Statements), q # << >>
  PROVE  /\ Tail(q) \in Seq(Statements) /\ Len(q) \in Nat \ {0}
         /\ Len(Tail(q)) = Len(q) - 1
         /\ DOMAIN q = 1..Len(q) /\ DOMAIN Tail(q) = 1..(Len(q) - 1)
         /\ Head(q) = q[1] /\ Head(q) \in Statements
         /\ \A i \in 1..(Len(q) - 1) : Tail(q)[i] = q[i + 1]
OBVIOUS

LEMMA TailIsWellFormed ==
  ASSUME NEW q, WellFormed(q), q # << >>
  PROVE  /\ WellFormed(Tail(q))
         /\ Head(q).do \in Inserting => Head(q).key \in Keys /\ Commits(Tail(q))
         /\ Head(q).do # "commit" /\ Commits(q) => Commits(Tail(q))
         /\ KeepsAway(q) => KeepsAway(Tail(q))
                           /\ (Head(q).do \in Inserting
                                 => Head(q).key \notin {SeedLine, SeedShift})
<1>1. q \in Seq(Statements)
  BY DEF WellFormed
<1>2. /\ Tail(q) \in Seq(Statements) /\ Len(q) \in Nat \ {0}
      /\ DOMAIN q = 1..Len(q) /\ DOMAIN Tail(q) = 1..(Len(q) - 1)
      /\ Head(q) = q[1]
      /\ \A i \in 1..(Len(q) - 1) : Tail(q)[i] = q[i + 1]
  BY <1>1, HeadAndTail
<1>3. ASSUME NEW j \in DOMAIN q, j > 1
      PROVE  j - 1 \in DOMAIN Tail(q) /\ Tail(q)[j - 1] = q[j]
  BY <1>2, <1>3
<1>4. \A i \in DOMAIN Tail(q) : i \in Nat /\ i + 1 \in DOMAIN q /\ Tail(q)[i] = q[i + 1]
  BY <1>2
<1>5. WellFormed(Tail(q))
  <2>1. ASSUME NEW i \in DOMAIN Tail(q), Tail(q)[i].do \in Inserting
        PROVE  /\ Tail(q)[i].key \in Keys
               /\ \E j \in DOMAIN Tail(q) : i < j /\ Tail(q)[j].do = "commit"
    <3>1. q[i + 1].key \in Keys /\ \E j \in DOMAIN q : i + 1 < j /\ q[j].do = "commit"
      BY <1>4, <2>1 DEF WellFormed
    <3>2. PICK j \in DOMAIN q : i + 1 < j /\ q[j].do = "commit"
      BY <3>1
    <3>3. j > 1 /\ i < j - 1
      BY <1>2, <1>4, <3>2
    <3>4. j - 1 \in DOMAIN Tail(q) /\ Tail(q)[j - 1].do = "commit"
      BY <1>3, <3>2, <3>3
    <3> QED
      BY <1>4, <3>1, <3>3, <3>4
  <2> QED
    BY <1>2, <2>1 DEF WellFormed
<1>6. ASSUME Head(q).do \in Inserting PROVE Head(q).key \in Keys /\ Commits(Tail(q))
  <2>1. 1 \in DOMAIN q /\ q[1].do \in Inserting
    BY <1>2, <1>6
  <2>2. PICK j \in DOMAIN q : 1 < j /\ q[j].do = "commit"
    BY <2>1 DEF WellFormed
  <2>3. q[1].key \in Keys
    BY <2>1 DEF WellFormed
  <2> QED
    BY <1>2, <1>3, <2>2, <2>3 DEF Commits
<1>7. ASSUME Head(q).do # "commit", Commits(q) PROVE Commits(Tail(q))
  <2>1. PICK j \in DOMAIN q : q[j].do = "commit"
    BY <1>7 DEF Commits
  <2>2. j > 1
    BY <1>2, <1>7, <2>1
  <2> QED
    BY <1>3, <2>1, <2>2 DEF Commits
<1>8. ASSUME KeepsAway(q)
      PROVE  /\ KeepsAway(Tail(q))
             /\ Head(q).do \in Inserting => Head(q).key \notin {SeedLine, SeedShift}
  BY <1>2, <1>4, <1>8 DEF KeepsAway
<1> QED
  BY <1>5, <1>6, <1>7, <1>8

(* An INSERT put before what is left.                                       *)
LEMMA InsertFirst ==
  ASSUME NEW r, WellFormed(r), Commits(r), NEW key \in Keys,
         NEW q, q = Do("insert", <<key>>) \o r
  PROVE  /\ WellFormed(q) /\ Commits(q) /\ q # << >>
         /\ Head(q) = [do |-> "insert", key |-> key] /\ Tail(q) = r
         /\ KeepsAway(r) /\ key \notin {SeedLine, SeedShift} => KeepsAway(q)
<1> DEFINE st == [do |-> "insert", key |-> key]
<1>1. Do("insert", <<key>>) = <<st>>
  BY DEF Do
<1>2. st \in Statements /\ r \in Seq(Statements)
  BY DEF Statements, WellFormed
<1>3. st.do = "insert" /\ st.key = key
  OBVIOUS
<1>4. q = <<st>> \o r
  BY <1>1
<1> HIDE DEF st
<1>5. /\ q \in Seq(Statements) /\ q # << >> /\ Head(q) = st /\ Tail(q) = r
      /\ Len(q) = Len(r) + 1 /\ Len(r) \in Nat
      /\ DOMAIN q = 1..(Len(r) + 1) /\ DOMAIN r = 1..Len(r)
      /\ q[1] = st
  <2>1. <<st>> \in Seq(Statements) /\ Len(<<st>>) = 1 /\ <<st>>[1] = st
    BY <1>2
  <2>2. /\ q \in Seq(Statements) /\ Len(q) = 1 + Len(r) /\ Len(r) \in Nat
        /\ \A i \in 1..(1 + Len(r)) : q[i] = IF i <= 1 THEN <<st>>[i] ELSE r[i - 1]
    <3> DEFINE one == <<st>>
    <3>1. one \in Seq(Statements) /\ Len(one) = 1 /\ q = one \o r
      BY <1>4, <2>1
    <3> HIDE DEF one
    <3>2. /\ q \in Seq(Statements) /\ Len(q) = Len(one) + Len(r) /\ Len(r) \in Nat
          /\ \A i \in 1..(Len(one) + Len(r)) :
               q[i] = IF i <= Len(one) THEN one[i] ELSE r[i - Len(one)]
      <4>1. one \in Seq(Statements) /\ r \in Seq(Statements)
        BY <1>2, <3>1
      <4>2. /\ one \o r \in Seq(Statements) /\ Len(one \o r) = Len(one) + Len(r)
            /\ Len(r) \in Nat
            /\ \A i \in 1..(Len(one) + Len(r)) :
                 (one \o r)[i] = IF i <= Len(one) THEN one[i] ELSE r[i - Len(one)]
        BY ONLY <4>1, Concatenation
      <4>3. q = one \o r
        BY <3>1
      <4> QED
        BY ONLY <4>2, <4>3
    <3> QED
      BY <3>1, <3>2 DEF one
  <2>3. q[1] = st /\ q # << >> /\ Head(q) = st
    BY <2>1, <2>2
  <2>4. DOMAIN q = 1..(Len(r) + 1) /\ DOMAIN r = 1..Len(r)
    BY <1>2, <2>2
  <2>5. Tail(q) = r
    <3>1. Tail(q) \in Seq(Statements) /\ Len(Tail(q)) = Len(r)
      BY <2>2, <2>3
    <3>2. \A i \in 1..Len(r) : Tail(q)[i] = r[i]
      <4>1. \A i \in 1..Len(r) : i + 1 \in 1..(1 + Len(r)) /\ ~(i + 1 <= 1) /\ (i + 1) - 1 = i
        BY <2>2
      <4>2. \A i \in 1..Len(r) : Tail(q)[i] = q[i + 1]
        BY <2>2, <2>3
      <4> QED
        BY <2>2, <4>1, <4>2
    <3>3. r \in Seq(Statements) /\ Len(r) \in Nat
      BY <1>2, <2>2
    <3> QED
      BY ONLY <3>1, <3>2, <3>3
  <2>6. Len(q) = Len(r) + 1
    BY <2>2
  <2> QED
    BY <2>2, <2>3, <2>4, <2>5, <2>6
<1>6. \A i \in 1..Len(r) : q[i + 1] = r[i]
  <2>1. \A i \in 1..Len(r) : Tail(q)[i] = q[i + 1]
    BY <1>5
  <2> QED
    BY <1>5, <2>1
<1>7. \A j \in DOMAIN r : j \in Nat /\ j > 0 /\ j + 1 \in DOMAIN q /\ q[j + 1] = r[j]
  <2>1. DOMAIN q = 1..(Len(r) + 1) /\ DOMAIN r = 1..Len(r) /\ Len(r) \in Nat
    BY <1>5
  <2> QED
    BY ONLY <1>6, <2>1
<1>8. \A i \in DOMAIN q : i \in Nat /\ (i = 1 \/ (i - 1 \in DOMAIN r /\ q[i] = r[i - 1]))
  <2>1. \A i \in DOMAIN q : i = 1 \/ (i \in Nat /\ i - 1 \in 1..Len(r) /\ (i - 1) + 1 = i)
    <3>1. DOMAIN q = 1..(Len(r) + 1) /\ Len(r) \in Nat
      BY <1>5
    <3> QED
      BY ONLY <3>1
  <2> QED
    BY <1>5, <1>6, <2>1
<1>9. PICK c \in DOMAIN r : r[c].do = "commit"
  BY DEF Commits
<1>10. Commits(q)
  BY <1>7, <1>9 DEF Commits
<1>11. WellFormed(q)
  <2>1. ASSUME NEW i \in DOMAIN q, q[i].do \in Inserting
        PROVE  q[i].key \in Keys /\ \E j \in DOMAIN q : i < j /\ q[j].do = "commit"
    <3>1. CASE i = 1
      <4>1. q[i].key \in Keys
        BY <1>3, <1>5, <3>1
      <4>2. c + 1 \in DOMAIN q /\ i < c + 1 /\ q[c + 1].do = "commit"
        BY <1>7, <1>9, <3>1
      <4> QED
        BY <4>1, <4>2
    <3>2. CASE i # 1
      <4>1. i - 1 \in DOMAIN r /\ q[i] = r[i - 1] /\ i \in Nat
        BY <1>8, <3>2
      <4>2. /\ r[i - 1].key \in Keys
            /\ \E j \in DOMAIN r : i - 1 < j /\ r[j].do = "commit"
        BY <2>1, <4>1 DEF WellFormed
      <4>3. PICK j \in DOMAIN r : i - 1 < j /\ r[j].do = "commit"
        BY <4>2
      <4>4. j + 1 \in DOMAIN q /\ q[j + 1] = r[j]
        BY <1>7
      <4>5. q[j + 1].do = "commit"
        BY <4>3, <4>4
      <4>6. j \in Nat /\ i < j + 1
        <5>1. j \in Nat /\ i \in Nat /\ i - 1 < j
          BY <1>7, <4>1, <4>3
        <5> QED
          BY ONLY <5>1
      <4> QED
        BY <4>1, <4>2, <4>4, <4>5, <4>6
    <3> QED
      BY <3>1, <3>2
  <2> QED
    BY <1>5, <2>1 DEF WellFormed
<1>12. ASSUME KeepsAway(r), key \notin {SeedLine, SeedShift} PROVE KeepsAway(q)
  BY <1>3, <1>5, <1>8, <1>12 DEF KeepsAway
<1> QED
  BY <1>5, <1>10, <1>11, <1>12 DEF st

(* Statements that all look up or all insert, before a commit.              *)
LEMMA ThenCommit ==
  ASSUME NEW S, S \subseteq Keys, NEW p \in Seq(S), NEW what \in Inserting,
         NEW q, q = Do(what, p) \o Do("commit", <<None>>)
  PROVE  /\ WellFormed(q) /\ Commits(q)
         /\ S \intersect {SeedLine, SeedShift} = {} => KeepsAway(q)
<1>1. S \subseteq Keys \union {None} /\ what \in {"get", "insert", "create"}
  BY DEF Inserting
<1>2. /\ Do(what, p) \in Seq(Statements) /\ Len(Do(what, p)) = Len(p)
      /\ \A i \in 1..Len(p) : Do(what, p)[i] = [do |-> what, key |-> p[i]]
  <2>1. p \in Seq(S) /\ what \in {"get", "insert", "create", "ensure", "resolve", "commit"}
    BY <1>1
  <2> QED
    BY ONLY <1>1, <2>1, DoIsASequence
<1>3. /\ Do("commit", <<None>>) \in Seq(Statements) /\ Len(Do("commit", <<None>>)) = 1
      /\ Do("commit", <<None>>)[1] = [do |-> "commit", key |-> None]
  <2>1. <<None>> \in Seq({None}) /\ Len(<<None>>) = 1 /\ <<None>>[1] = None
        /\ {None} \subseteq Keys \union {None}
    OBVIOUS
  <2>2. /\ Do("commit", <<None>>) \in Seq(Statements)
        /\ Len(Do("commit", <<None>>)) = Len(<<None>>)
        /\ \A i \in 1..Len(<<None>>) :
             Do("commit", <<None>>)[i] = [do |-> "commit", key |-> <<None>>[i]]
    BY <2>1, DoIsASequence
  <2> QED
    BY <2>1, <2>2
<1> DEFINE a == Do(what, p)
           b == Do("commit", <<None>>)
<1>4. q = a \o b /\ a \in Seq(Statements) /\ b \in Seq(Statements)
  BY <1>2, <1>3
<1> HIDE DEF a, b
<1>5. /\ q \in Seq(Statements) /\ Len(q) = Len(a) + Len(b) /\ Len(a) \in Nat
      /\ \A i \in 1..(Len(a) + Len(b)) : q[i] = IF i <= Len(a) THEN a[i] ELSE b[i - Len(a)]
  <2>1. /\ a \o b \in Seq(Statements) /\ Len(a \o b) = Len(a) + Len(b) /\ Len(a) \in Nat
        /\ \A i \in 1..(Len(a) + Len(b)) :
             (a \o b)[i] = IF i <= Len(a) THEN a[i] ELSE b[i - Len(a)]
    <3>1. a \in Seq(Statements) /\ b \in Seq(Statements)
      BY <1>4
    <3> QED
      BY ONLY <3>1, Concatenation
  <2>2. q = a \o b
    BY <1>4
  <2> QED
    BY ONLY <2>1, <2>2
<1>6. /\ Len(a) = Len(p) /\ Len(b) = 1 /\ b[1].do = "commit"
      /\ \A i \in 1..Len(p) : a[i].do = what /\ a[i].key = p[i]
  <2>1. \A i \in 1..Len(p) : a[i] = [do |-> what, key |-> p[i]]
    BY <1>2 DEF a
  <2>2. Len(a) = Len(p) /\ Len(b) = 1 /\ b[1] = [do |-> "commit", key |-> None]
    BY <1>2, <1>3 DEF a, b
  <2>3. ASSUME NEW i \in 1..Len(p) PROVE a[i].do = what /\ a[i].key = p[i]
    <3>1. a[i] = [do |-> what, key |-> p[i]]
      BY <2>1
    <3> QED
      BY <3>1
  <2>4. b[1].do = "commit"
    BY <2>2
  <2> QED
    BY <2>2, <2>3, <2>4
<1>7. DOMAIN q = 1..(Len(p) + 1) /\ Len(p) \in Nat
  <2>1. q \in Seq(Statements) /\ Len(q) = Len(p) + 1 /\ Len(p) \in Nat
    BY ONLY <1>5, <1>6
  <2>2. DOMAIN q = 1..Len(q)
    BY ONLY <2>1
  <2> QED
    BY ONLY <2>1, <2>2
<1>8. q[Len(p) + 1].do = "commit" /\ Len(p) + 1 \in DOMAIN q
  <2>1. Len(p) + 1 \in 1..(Len(a) + Len(b)) /\ ~(Len(p) + 1 <= Len(a))
        /\ (Len(p) + 1) - Len(a) = 1 /\ Len(p) + 1 \in DOMAIN q
    BY ONLY <1>5, <1>6, <1>7
  <2> QED
    BY ONLY <1>5, <1>6, <2>1
<1>9. \A i \in DOMAIN q : i = Len(p) + 1 \/ (i \in 1..Len(p) /\ i < Len(p) + 1 /\ q[i].key = p[i])
  <2>1. \A i \in DOMAIN q : i = Len(p) + 1 \/ (i \in 1..Len(p) /\ i < Len(p) + 1 /\ i <= Len(a))
    BY <1>6, <1>7
  <2>2. \A i \in 1..Len(p) : i \in 1..(Len(a) + Len(b)) /\ i <= Len(a)
    BY <1>6, <1>7
  <2>3. \A i \in 1..Len(p) : q[i] = a[i]
    BY <1>5, <2>2
  <2> QED
    BY <1>6, <2>1, <2>3
<1>10. "commit" \notin Inserting
  BY DEF Inserting
<1>11. \A i \in 1..Len(p) : p[i] \in S
  OBVIOUS
<1>12. WellFormed(q)
  BY <1>5, <1>8, <1>9, <1>10, <1>11 DEF WellFormed
<1> QED
  BY <1>8, <1>9, <1>10, <1>11, <1>12 DEF Commits, KeepsAway

LEMMA SeedScriptIsWellFormed == WellFormed(SeedScript) /\ Commits(SeedScript)
<1>1. /\ SeedScript \in Seq(Statements) /\ DOMAIN SeedScript = 1..Length
      /\ Length \in Nat \ {0} /\ SeedScript[Length].do = "commit"
      /\ \A i \in 1..(Length - 1) : SeedScript[i].key \in Keys
  BY SeedScriptIs
<1>2. \A i \in 1..Length : i = Length \/ (i \in 1..(Length - 1) /\ i < Length)
  BY <1>1
<1>3. "commit" \notin Inserting
  BY DEF Inserting
<1> QED
  BY <1>1, <1>2, <1>3 DEF WellFormed, Commits

(* A last statement that inserts nothing by itself.                         *)
LEMMA ThenNoInsert ==
  ASSUME NEW p, WellFormed(p), KeepsAway(p), NEW what \in {"ensure", "resolve"},
         NEW q, q = p \o Do(what, <<None>>)
  PROVE  WellFormed(q) /\ KeepsAway(q)
<1> DEFINE b == Do(what, <<None>>)
<1>1. b \in Seq(Statements) /\ Len(b) = 1 /\ b[1].do = what
  <2>1. Do(what, <<None>>) = <<[do |-> what, key |-> None]>>
    BY DEF Do
  <2>2. PICK st \in Statements : st = [do |-> what, key |-> None]
    BY DEF Statements
  <2>3. b = <<st>> /\ st.do = what
    BY <2>1, <2>2
  <2> HIDE DEF b
  <2> QED
    BY ONLY <2>2, <2>3
<1>2. q = p \o b /\ p \in Seq(Statements) /\ b \in Seq(Statements)
  BY <1>1 DEF WellFormed
<1> HIDE DEF b
<1>3. /\ q \in Seq(Statements) /\ Len(q) = Len(p) + Len(b) /\ Len(p) \in Nat
      /\ \A i \in 1..(Len(p) + Len(b)) : q[i] = IF i <= Len(p) THEN p[i] ELSE b[i - Len(p)]
  <2>1. /\ p \o b \in Seq(Statements) /\ Len(p \o b) = Len(p) + Len(b) /\ Len(p) \in Nat
        /\ \A i \in 1..(Len(p) + Len(b)) :
             (p \o b)[i] = IF i <= Len(p) THEN p[i] ELSE b[i - Len(p)]
    <3>1. p \in Seq(Statements) /\ b \in Seq(Statements)
      BY <1>2
    <3> QED
      BY ONLY <3>1, Concatenation
  <2>2. q = p \o b
    BY <1>2
  <2> QED
    BY ONLY <2>1, <2>2
<1>4. what \notin Inserting
  BY DEF Inserting
<1>5. DOMAIN q = 1..(Len(p) + 1) /\ DOMAIN p = 1..Len(p)
  <2>1. Len(q) = Len(p) + 1
    BY <1>1, <1>3
  <2>2. DOMAIN q = 1..Len(q) /\ DOMAIN p = 1..Len(p)
    BY <1>2, <1>3
  <2> QED
    BY <2>1, <2>2
<1>6. \A i \in DOMAIN p : i \in DOMAIN q /\ q[i] = p[i]
  BY <1>1, <1>3, <1>5
<1>7. \A i \in DOMAIN q : q[i].do \in Inserting => i \in DOMAIN p
  <2>1. q[Len(p) + 1] = b[1]
    <3>1. /\ Len(p) + 1 \in 1..(Len(p) + Len(b)) /\ ~(Len(p) + 1 <= Len(p))
          /\ (Len(p) + 1) - Len(p) = 1
      BY <1>1, <1>3
    <3> QED
      BY <1>3, <3>1
  <2>2. \A i \in DOMAIN q : i = Len(p) + 1 \/ i \in DOMAIN p
    BY <1>3, <1>5
  <2> QED
    BY <1>1, <1>4, <2>1, <2>2
<1>8. ASSUME NEW i \in DOMAIN q, q[i].do \in Inserting
      PROVE  /\ q[i].key \in Keys /\ q[i].key \notin {SeedLine, SeedShift}
             /\ \E j \in DOMAIN q : i < j /\ q[j].do = "commit"
  <2>1. i \in DOMAIN p /\ q[i] = p[i] /\ p[i].do \in Inserting
    BY <1>6, <1>7, <1>8
  <2>2. PICK j \in DOMAIN p : i < j /\ p[j].do = "commit"
    BY <2>1 DEF WellFormed
  <2> QED
    BY <1>6, <2>1, <2>2 DEF WellFormed, KeepsAway
<1> QED
  BY <1>3, <1>8 DEF WellFormed, KeepsAway

LEMMA ScriptsAreWellFormed ==
  ASSUME NEW s \in Scripts
  PROVE  /\ WellFormed(Script(s))
         /\ IF Kind[s] = "seed" THEN Script(s) = SeedScript ELSE KeepsAway(Script(s))
<1>1. CASE Kind[s] = "seed"
  BY <1>1, SeedScriptIsWellFormed DEF Script
<1>2. CASE Kind[s] # "seed"
  <2> DEFINE S == Keys \ {SeedLine, SeedShift}
  <2>1. SimTopology \in Seq(S)
    <3>1. SimTopology \in Seq(Keys)
          /\ \A i \in 1..Len(SimTopology) : SimTopology[i] \notin {SeedLine, SeedShift}
      BY LinesAndShifts
    <3>2. \A i \in 1..Len(SimTopology) : SimTopology[i] \in S
      BY ONLY <3>1
    <3> QED
      BY ONLY <3>1, <3>2
  <2>2. S \subseteq Keys /\ S \intersect {SeedLine, SeedShift} = {}
    OBVIOUS
  <2> HIDE DEF S
  <2>3. WellFormed(Topology) /\ KeepsAway(Topology)
    <3>1. "get" \in Inserting
      BY DEF Inserting
    <3> QED
      BY <2>1, <2>2, <3>1, ThenCommit DEF Topology
  <2>4. PICK what \in {"ensure", "resolve"} : Script(s) = Topology \o Do(what, <<None>>)
    BY <1>2, BootstrapConstants DEF Script
  <2> QED
    BY <1>2, <2>3, <2>4, ThenNoInsert
<1> QED
  BY <1>1, <1>2

LEMMA RestOfTheSeed ==
  ASSUME NEW q \in Seq(Statements), q # << >>, NEW n \in 1..Length, Rest(q, n)
  PROVE  /\ Head(q) = SeedScript[n] /\ Rest(Tail(q), n + 1)
         /\ Tail(q) # << >> => n + 1 \in 1..Length
         /\ n = Length => Tail(q) = << >>
<1>1. /\ Tail(q) \in Seq(Statements) /\ Len(q) \in Nat \ {0}
      /\ Len(Tail(q)) = Len(q) - 1 /\ Head(q) = q[1]
      /\ \A i \in 1..(Len(q) - 1) : Tail(q)[i] = q[i + 1]
  BY HeadAndTail
<1>2. /\ Len(q) = Length - n + 1 /\ Length \in Nat
      /\ \A i \in 1..Len(q) : q[i] = SeedScript[n - 1 + i]
  BY SeedScriptIs DEF Rest
<1>3. Head(q) = SeedScript[n]
  <2>1. 1 \in 1..Len(q) /\ n - 1 + 1 = n
    BY <1>1
  <2> QED
    BY <1>1, <1>2, <2>1
<1>4. Len(Tail(q)) = Length - (n + 1) + 1
  BY <1>1, <1>2
<1>5. ASSUME NEW i \in 1..Len(Tail(q)) PROVE Tail(q)[i] = SeedScript[(n + 1) - 1 + i]
  <2>1. i \in 1..(Len(q) - 1) /\ i + 1 \in 1..Len(q) /\ n - 1 + (i + 1) = (n + 1) - 1 + i
    BY <1>1
  <2> QED
    BY <1>1, <1>2, <2>1
<1>6. Tail(q) # << >> => Len(Tail(q)) > 0
  BY <1>1
<1>7. Len(Tail(q)) = 0 => Tail(q) = << >>
  <2>1. \A r \in Seq(Statements) : Len(r) = 0 => r = << >>
    OBVIOUS
  <2> QED
    BY <1>1, <2>1
<1> QED
  BY <1>2, <1>3, <1>4, <1>5, <1>6, <1>7 DEF Rest

-----------------------------------------------------------------------------
(* The steps. *)

(* What a script does outside its session, and how it leaves it.            *)
LEMMA OutsideKeepsIInv ==
  ASSUME IInv, NEW s \in Scripts, own[s] = {},
         DOMAIN job' = Scripts, \A t \in Scripts \ {s} : job'[t] = job[t],
         UNCHANGED <<rows, own, todo>>
  PROVE  IInv'
<1>1. Typed' /\ NoDuplicates'
  BY DEF IInv, Typed, NoDuplicates
<1>2. Transactions'
  BY DEF IInv, Transactions
<1>3. KeysAreHeld' /\ ShiftComesWithLine' /\ SimulatorsKeepAway'
  BY DEF IInv, KeysAreHeld, ShiftComesWithLine, SimulatorsKeepAway
<1>4. SeedsAreInOrder'
  BY DEF IInv, SeedsAreInOrder, SeedIsBetween, SeedInserts, Reached, Has
<1> QED
  BY <1>1, <1>2, <1>3, <1>4 DEF IInv

(* A transaction is rolled back, a session begins.                          *)
Restarts(s, q) ==
  /\ own' = [own EXCEPT ![s] = {}]
  /\ todo' = [todo EXCEPT ![s] = q]
  /\ DOMAIN job' = Scripts /\ \A t \in Scripts \ {s} : job'[t] = job[t]
  /\ UNCHANGED rows
  /\ WellFormed(q)
  /\ Kind[s] # "seed" => KeepsAway(q)
  /\ Kind[s] = "seed" => q \in {<< >>, SeedScript}

LEMMA RestartingKeepsIInv ==
  ASSUME IInv, NEW s \in Scripts, NEW q, Restarts(s, q)
  PROVE  IInv'
<1>1. /\ own'[s] = {} /\ \A t \in Scripts \ {s} : own'[t] = own[t]
      /\ todo'[s] = q /\ \A t \in Scripts \ {s} : todo'[t] = todo[t] /\ job'[t] = job[t]
      /\ rows' = rows
  BY DEF Restarts, IInv, Typed
<1>2. Typed' /\ NoDuplicates'
  BY DEF Restarts, IInv, Typed, WellFormed, NoDuplicates
<1>3. Transactions'
  BY <1>1 DEF Restarts, IInv, Transactions
<1>4. KeysAreHeld' /\ ShiftComesWithLine'
  BY <1>1 DEF IInv, KeysAreHeld, ShiftComesWithLine
<1>5. SimulatorsKeepAway'
  BY <1>1 DEF Restarts, IInv, SimulatorsKeepAway
<1>6. ASSUME NEW t \in Scripts, Kind[t] = "seed", todo'[t] # << >>
      PROVE  \E n \in 1..Length : (SeedIsBetween(t, n) \/ SeedInserts(t, n))'
  <2>1. CASE t # s
    BY <1>1, <1>6, <2>1 DEF IInv, SeedsAreInOrder, SeedIsBetween, SeedInserts, Reached, Has
  <2>2. CASE t = s
    <3>1. todo'[s] = SeedScript
      BY <1>1, <1>6, <2>2 DEF Restarts
    <3>2. Rest(SeedScript, 1) /\ 1 \in 1..Length /\ ~(1 > 1) /\ ~(1 > ShiftPlace)
      BY SeedScriptIs DEF Rest
    <3> QED
      BY <2>2, <3>1, <3>2 DEF SeedIsBetween, Reached
  <2> QED
    BY <2>1, <2>2
<1> QED
  BY <1>2, <1>3, <1>4, <1>5, <1>6 DEF IInv, SeedsAreInOrder

(* A statement that is not the commit: what it inserts is free, and the     *)
(* shift only with the line.                                                *)
Executes(s, added, q) ==
  /\ added \subseteq Keys
  /\ own' = [own EXCEPT ![s] = @ \union added]
  /\ todo' = [todo EXCEPT ![s] = q]
  /\ UNCHANGED <<rows, job>>
  /\ job[s].pc = "sql"
  /\ \A key \in added : /\ rows[key] = 0
                        /\ key \in UniqueKeys => \A t \in Scripts \ {s} : key \notin own[t]
                        /\ key = SeedShift => SeedLine \in own[s]
  /\ WellFormed(q)
  /\ added # {} \/ own[s] # {} => Commits(q)
  /\ Kind[s] # "seed" => {SeedLine, SeedShift} \intersect added = {} /\ KeepsAway(q)

LEMMA ExecutingKeepsIInv ==
  ASSUME IInv, NEW s \in Scripts, NEW added, NEW q, Executes(s, added, q),
         Kind[s] = "seed" /\ q # << >> =>
           \E n \in 1..Length : (SeedIsBetween(s, n) \/ SeedInserts(s, n))'
  PROVE  IInv'
<1>1. /\ own'[s] = own[s] \union added /\ \A t \in Scripts \ {s} : own'[t] = own[t]
      /\ todo'[s] = q /\ \A t \in Scripts \ {s} : todo'[t] = todo[t]
      /\ rows' = rows /\ job' = job
  BY DEF Executes, IInv, Typed
<1>2. Typed' /\ NoDuplicates'
  BY <1>1 DEF Executes, IInv, Typed, WellFormed, NoDuplicates
<1>3. Transactions'
  BY <1>1 DEF Executes, IInv, Transactions
<1>8. \A key \in added : /\ rows[key] = 0
                         /\ key \in UniqueKeys => \A t \in Scripts \ {s} : key \notin own[t]
                         /\ key = SeedShift => SeedLine \in own[s]
  BY DEF Executes
<1>9. /\ \A t, u \in Scripts : t # u => own[t] \intersect own[u] \intersect UniqueKeys = {}
      /\ \A t \in Scripts : \A key \in own[t] : rows[key] = 0
  BY DEF IInv, KeysAreHeld
<1>4. KeysAreHeld'
  <2>1. ASSUME NEW t \in Scripts, NEW key \in own'[t] PROVE rows'[key] = 0
    <3>1. CASE t = s
      <4>1. key \in own[s] \/ key \in added
        BY <1>1, <2>1, <3>1
      <4> QED
        BY <1>1, <1>8, <1>9, <4>1
    <3>2. CASE t # s
      BY <1>1, <1>9, <2>1, <3>2
    <3> QED
      BY <3>1, <3>2
  <2>2. ASSUME NEW t \in Scripts \ {s}, NEW key \in UniqueKeys, key \in own'[s], key \in own'[t]
        PROVE  FALSE
    <3>1. key \in own[t] /\ (key \in own[s] \/ key \in added)
      BY <1>1, <2>2
    <3> QED
      BY <1>8, <1>9, <2>2, <3>1
  <2>3. \A t, u \in Scripts \ {s} : t # u => own'[t] \intersect own'[u] \intersect UniqueKeys = {}
    BY <1>1 DEF IInv, KeysAreHeld
  <2> QED
    BY <2>1, <2>2, <2>3 DEF KeysAreHeld
<1>5. ShiftComesWithLine'
  <2>1. /\ \A t \in Scripts : SeedShift \in own[t] => SeedLine \in own[t]
        /\ rows[SeedShift] > 0 <=> rows[SeedLine] > 0
    BY DEF IInv, ShiftComesWithLine
  <2>2. SeedShift \in own'[s] => SeedLine \in own'[s]
    BY <1>1, <1>8, <2>1
  <2>3. \A t \in Scripts \ {s} : SeedShift \in own'[t] => SeedLine \in own'[t]
    BY <1>1, <2>1
  <2> QED
    BY <1>1, <2>1, <2>2, <2>3 DEF ShiftComesWithLine
<1>6. SimulatorsKeepAway'
  BY <1>1 DEF Executes, IInv, SimulatorsKeepAway
<1>7. ASSUME NEW t \in Scripts, Kind[t] = "seed", todo'[t] # << >>
      PROVE  \E n \in 1..Length : (SeedIsBetween(t, n) \/ SeedInserts(t, n))'
  <2>1. CASE t # s
    BY <1>1, <1>7, <2>1 DEF IInv, SeedsAreInOrder, SeedIsBetween, SeedInserts, Reached, Has
  <2>2. CASE t = s
    BY <1>1, <1>7, <2>2
  <2> QED
    BY <2>1, <2>2
<1> QED
  BY <1>2, <1>3, <1>4, <1>5, <1>6, <1>7 DEF IInv, SeedsAreInOrder

LEMMA NothingIsWellFormed == WellFormed(<< >>) /\ KeepsAway(<< >>)
BY DEF WellFormed, KeepsAway

LEMMA CrashKeepsIInv ==
  ASSUME IInv, NEW s \in Scripts, Crash(s)
  PROVE  IInv'
<1>1. DOMAIN job' = Scripts /\ \A t \in Scripts \ {s} : job'[t] = job[t]
  BY DEF Crash, IInv, Typed
<1>2. Restarts(s, << >>)
  BY <1>1, NothingIsWellFormed DEF Crash, Restarts
<1> QED
  BY <1>2, RestartingKeepsIInv

LEMMA LaunchKeepsIInv ==
  ASSUME IInv, NEW s \in Scripts, NEW tier, job[s].pc # "sql", Launch(s, tier)
  PROVE  IInv'
<1>1. DOMAIN job' = Scripts /\ \A t \in Scripts \ {s} : job'[t] = job[t]
  BY DEF Launch, IInv, Typed
<1>2. own' = [own EXCEPT ![s] = {}]
  BY DEF Launch, IInv, Typed, Transactions
<1>3. Kind[s] = "seed" => Script(s) = SeedScript
  BY ScriptsAreWellFormed
<1>4. Kind[s] # "seed" => KeepsAway(Script(s))
  BY ScriptsAreWellFormed
<1>5. WellFormed(Script(s))
  BY ScriptsAreWellFormed
<1>6. todo' = [todo EXCEPT ![s] = Script(s)] /\ UNCHANGED rows
  BY DEF Launch
<1>7. Restarts(s, Script(s))
  BY <1>1, <1>2, <1>3, <1>4, <1>5, <1>6 DEF Restarts
<1> QED
  BY <1>7, RestartingKeepsIInv

(* The list of a script that is about to execute a statement.               *)
LEMMA NextStatement ==
  ASSUME IInv, NEW s \in Scripts, todo[s] # << >>
  PROVE  LET left == Tail(todo[s]) IN
         /\ todo[s] \in Seq(Statements) /\ WellFormed(left) /\ Next1(s) \in Statements
         /\ Next1(s).do \in Inserting => Next1(s).key \in Keys /\ Commits(left)
         /\ Next1(s).do # "commit" /\ own[s] # {} => Commits(left)
         /\ Kind[s] # "seed" =>
              /\ {SeedLine, SeedShift} \intersect own[s] = {}
              /\ KeepsAway(left)
              /\ Next1(s).do \in Inserting => Next1(s).key \notin {SeedLine, SeedShift}
<1>1. /\ todo[s] \in Seq(Statements) /\ WellFormed(todo[s])
      /\ own[s] # {} => Commits(todo[s])
  BY DEF IInv, Typed, Transactions
<1>2. Kind[s] # "seed" => {SeedLine, SeedShift} \intersect own[s] = {} /\ KeepsAway(todo[s])
  BY DEF IInv, SimulatorsKeepAway
<1>3. Next1(s) = Head(todo[s]) /\ Head(todo[s]) \in Statements
  BY <1>1, HeadAndTail DEF Next1
<1> QED
  BY <1>1, <1>2, <1>3, TailIsWellFormed

(* What a seed is about to execute.                                         *)
LEMMA NextOfTheSeed ==
  ASSUME IInv, NEW s \in Scripts, Kind[s] = "seed", todo[s] # << >>
  PROVE  \E n \in 1..Length :
           /\ Reached(s, n)
           /\ Rest(Tail(todo[s]), n + 1)
           /\ Tail(todo[s]) # << >> => n + 1 \in 1..Length
           /\ \/ Next1(s) = SeedScript[n] /\ (n = Length => Tail(todo[s]) = << >>)
              \/ /\ Next1(s) = [do |-> "insert", key |-> SeedScript[n].key]
                 /\ SeedScript[n].do = "get"
                 /\ n = ShiftPlace => SeedLine \in own[s]
<1>1. PICK n \in 1..Length : SeedIsBetween(s, n) \/ SeedInserts(s, n)
  BY DEF IInv, SeedsAreInOrder
<1>2. todo[s] \in Seq(Statements)
  BY DEF IInv, Typed
<1>3. CASE SeedIsBetween(s, n)
  <2>1. Rest(todo[s], n) /\ Reached(s, n)
    BY <1>3 DEF SeedIsBetween
  <2> QED
    BY <1>2, <2>1, RestOfTheSeed DEF Next1
<1>4. CASE SeedInserts(s, n)
  <2>1. n < Length /\ n + 1 \in 1..Length
    <3>1. SeedScript[Length].do = "commit" /\ Length \in Nat
      BY SeedScriptIs
    <3>2. SeedScript[n].do = "get"
      BY <1>4 DEF SeedInserts
    <3> QED
      BY <3>1, <3>2
  <2> QED
    BY <1>4, <2>1 DEF SeedInserts, Next1
<1> QED
  BY <1>1, <1>3, <1>4

LEMMA OthersDoNotHoldIt ==
  ASSUME NEW s \in Scripts, \A t \in Scripts : ~Waits(s, t),
         Ready(s, "insert") \/ Ready(s, "create"),
         Next1(s).key \in UniqueKeys, NEW t \in Scripts \ {s}
  PROVE  Next1(s).key \notin own[t]
BY DEF Waits, Ready

LEMMA SeedMovesOn ==
  ASSUME NEW s \in Scripts, NEW n \in 1..Length,
         Reached(s, n), Rest(Tail(todo[s]), n + 1),
         own[s] \subseteq own'[s], rows' = rows, todo'[s] = Tail(todo[s]),
         SeedScript[n].key \in {SeedLine, SeedShift} => Has(s, SeedScript[n].key)'
  PROVE  SeedIsBetween(s, n + 1)'
<1>1. SeedScript[1].key = SeedLine /\ SeedScript[ShiftPlace].key = SeedShift
      /\ ShiftPlace \in Nat
  BY SeedScriptIs
<1>2. n = 1 => Has(s, SeedLine)'
  BY <1>1
<1>3. n = ShiftPlace => Has(s, SeedShift)'
  BY <1>1
<1>4. n > 1 => Has(s, SeedLine)'
  BY DEF Reached, Has
<1>5. n > ShiftPlace => Has(s, SeedShift)'
  BY DEF Reached, Has
<1>6. Reached(s, n + 1)'
  BY <1>1, <1>2, <1>3, <1>4, <1>5 DEF Reached
<1> QED
  BY <1>6 DEF SeedIsBetween

LEMMA GetKeepsIInv ==
  ASSUME IInv, NEW s \in Scripts, Get(s)
  PROVE  IInv'
<1> DEFINE left == Tail(todo[s])
           key == Next1(s).key
<1>1. /\ job[s].pc = "sql" /\ todo[s] # << >> /\ Next1(s).do = "get" /\ "get" \in Inserting
      /\ UNCHANGED <<rows, own, job>>
  BY DEF Get, Ready, Inserting
<1>2. /\ WellFormed(left) /\ Commits(left) /\ key \in Keys
      /\ Kind[s] # "seed" => /\ {SeedLine, SeedShift} \intersect own[s] = {}
                             /\ KeepsAway(left) /\ key \notin {SeedLine, SeedShift}
  BY <1>1, NextStatement
<1>3. own' = [own EXCEPT ![s] = @ \union {}]
  BY <1>1 DEF IInv, Typed
<1>4. DOMAIN todo = Scripts
  BY DEF IInv, Typed
<1>5. CASE Visible(s, key)
  <2>1. todo' = [todo EXCEPT ![s] = left]
    BY <1>5 DEF Get, Done
  <2>2. Executes(s, {}, left)
    BY <1>1, <1>2, <1>3, <2>1 DEF Executes
  <2>3. ASSUME Kind[s] = "seed", left # << >>
        PROVE  \E n \in 1..Length : (SeedIsBetween(s, n) \/ SeedInserts(s, n))'
    <3>1. PICK n \in 1..Length :
            /\ Reached(s, n) /\ Rest(left, n + 1) /\ n + 1 \in 1..Length
            /\ Next1(s) = SeedScript[n]
      BY <1>1, <2>3, NextOfTheSeed
    <3>2. Has(s, SeedScript[n].key)'
      BY <1>1, <1>5, <3>1 DEF Visible, Has
    <3>3. SeedIsBetween(s, n + 1)'
      BY <1>1, <1>4, <2>1, <3>1, <3>2, SeedMovesOn
    <3> QED
      BY <3>1, <3>3
  <2> QED
    BY <2>2, <2>3, ExecutingKeepsIInv
<1>6. CASE ~Visible(s, key)
  <2> DEFINE q == Do("insert", <<key>>) \o left
  <2>1. todo' = [todo EXCEPT ![s] = q]
    BY <1>6 DEF Get
  <2>2. /\ WellFormed(q) /\ Commits(q) /\ q # << >>
        /\ Head(q) = [do |-> "insert", key |-> key] /\ Tail(q) = left
        /\ KeepsAway(left) /\ key \notin {SeedLine, SeedShift} => KeepsAway(q)
    BY <1>2, InsertFirst
  <2> HIDE DEF q
  <2>3. Executes(s, {}, q)
    BY <1>1, <1>2, <1>3, <2>1, <2>2 DEF Executes
  <2>4. ASSUME Kind[s] = "seed", q # << >>
        PROVE  \E n \in 1..Length : (SeedIsBetween(s, n) \/ SeedInserts(s, n))'
    <3>1. PICK n \in 1..Length :
            /\ Reached(s, n) /\ Rest(left, n + 1) /\ Next1(s) = SeedScript[n]
      BY <1>1, <2>4, NextOfTheSeed
    <3>2. Reached(s, n)'
      BY <1>1, <3>1 DEF Reached, Has
    <3>3. n = ShiftPlace => SeedLine \in own[s]
      <4>1. CASE n = ShiftPlace
        <5>1. key = SeedShift /\ n > 1
          BY <3>1, <4>1, SeedScriptIs
        <5>2. ~(rows[SeedShift] > 0)
          BY <1>6, <5>1 DEF Visible
        <5>3. SeedLine \in own[s] \/ rows[SeedLine] > 0
          BY <3>1, <5>1 DEF Reached, Has
        <5> QED
          BY <5>2, <5>3 DEF IInv, ShiftComesWithLine
      <4> QED
        BY <4>1
    <3>4. todo'[s] = q
      BY <1>4, <2>1
    <3>5. SeedInserts(s, n)'
      BY <1>1, <2>2, <3>1, <3>2, <3>3, <3>4 DEF SeedInserts
    <3> QED
      BY <3>5
  <2> QED
    BY <2>3, <2>4, ExecutingKeepsIInv
<1> QED
  BY <1>5, <1>6

(* An INSERT that goes through.                                             *)
LEMMA InsertingKeepsIInv ==
  ASSUME IInv, NEW s \in Scripts, NEW added,
         job[s].pc = "sql", todo[s] # << >>, Next1(s).do \in {"insert", "create"},
         \A t \in Scripts : ~Waits(s, t),
         Ready(s, "insert") \/ Ready(s, "create"),
         added = {Next1(s).key} \/ (added = {} /\ Next1(s).do = "create"),
         added # {} => rows[Next1(s).key] = 0,
         own' = [own EXCEPT ![s] = @ \union added],
         todo' = [todo EXCEPT ![s] = Tail(@)], UNCHANGED <<rows, job>>
  PROVE  IInv'
<1> DEFINE left == Tail(todo[s])
           key == Next1(s).key
<1>1. Next1(s).do \in Inserting
  BY DEF Inserting
<1>2. /\ WellFormed(left) /\ Commits(left) /\ key \in Keys
      /\ Kind[s] # "seed" => /\ {SeedLine, SeedShift} \intersect own[s] = {}
                             /\ KeepsAway(left) /\ key \notin {SeedLine, SeedShift}
  BY <1>1, NextStatement
<1>3. /\ DOMAIN todo = Scripts /\ DOMAIN own = Scripts
      /\ todo' = [todo EXCEPT ![s] = left] /\ todo'[s] = left
      /\ own'[s] = own[s] \union added
  BY DEF IInv, Typed
<1>4. ASSUME Kind[s] = "seed"
      PROVE  \E n \in 1..Length :
               /\ Reached(s, n) /\ Rest(left, n + 1)
               /\ left # << >> => n + 1 \in 1..Length
               /\ key = SeedScript[n].key
               /\ key = SeedShift => Next1(s).do = "insert" /\ SeedLine \in own[s]
               /\ key = SeedLine => Next1(s).do = "insert" \/ n > 1
  <2>1. PICK n \in 1..Length :
          /\ Reached(s, n) /\ Rest(left, n + 1)
          /\ left # << >> => n + 1 \in 1..Length
          /\ \/ Next1(s) = SeedScript[n]
             \/ /\ Next1(s) = [do |-> "insert", key |-> SeedScript[n].key]
                /\ SeedScript[n].do = "get"
                /\ n = ShiftPlace => SeedLine \in own[s]
    BY <1>4, NextOfTheSeed
  <2>2. CASE Next1(s) = SeedScript[n]
    <3>1. n # Length /\ n # 1 /\ n # ShiftPlace /\ Length \in Nat
      BY <2>2, SeedScriptIs
    <3>2. SeedScript[n].key # SeedShift
      BY <3>1, SeedScriptIs
    <3> QED
      BY <2>1, <2>2, <3>1, <3>2
  <2>3. CASE /\ Next1(s) = [do |-> "insert", key |-> SeedScript[n].key]
             /\ SeedScript[n].do = "get"
             /\ n = ShiftPlace => SeedLine \in own[s]
    <3>1. key = SeedScript[n].key /\ Next1(s).do = "insert"
      BY <2>3
    <3>2. n # Length /\ Length \in Nat
      BY <2>3, SeedScriptIs
    <3>3. key = SeedShift => n = ShiftPlace
      <4>1. n \in 1..(Length - 1)
        BY <3>2
      <4> QED
        BY <3>1, <4>1, SeedScriptIs
    <3> QED
      BY <2>1, <2>3, <3>1, <3>3
  <2> QED
    BY <2>1, <2>2, <2>3
<1>5. key = SeedShift => Next1(s).do = "insert" /\ SeedLine \in own[s]
  BY <1>2, <1>4
<1>6. key \in UniqueKeys => \A t \in Scripts \ {s} : key \notin own[t]
  BY OthersDoNotHoldIt
<1>7. Executes(s, added, left)
  BY <1>2, <1>3, <1>5, <1>6 DEF Executes
<1>8. ASSUME Kind[s] = "seed", left # << >>
      PROVE  \E n \in 1..Length : (SeedIsBetween(s, n) \/ SeedInserts(s, n))'
  <2>1. PICK n \in 1..Length :
          /\ Reached(s, n) /\ Rest(left, n + 1) /\ n + 1 \in 1..Length
          /\ key = SeedScript[n].key
          /\ key = SeedShift => Next1(s).do = "insert"
          /\ key = SeedLine => Next1(s).do = "insert" \/ n > 1
    BY <1>4, <1>8
  <2>2. Next1(s).do = "insert" => key \in own'[s]
    BY <1>3
  <2>3. ASSUME SeedScript[n].key \in {SeedLine, SeedShift}
        PROVE  Has(s, SeedScript[n].key)'
    <3>1. CASE Next1(s).do = "insert"
      BY <2>1, <2>2, <3>1 DEF Has
    <3>2. CASE Next1(s).do # "insert"
      <4>1. n > 1 /\ SeedScript[n].key = SeedLine
        BY <2>1, <2>3, <3>2
      <4> QED
        BY <1>3, <2>1, <4>1 DEF Reached, Has
    <3> QED
      BY <3>1, <3>2
  <2>4. SeedIsBetween(s, n + 1)'
    <3>1. own[s] \subseteq own'[s] /\ rows' = rows /\ todo'[s] = Tail(todo[s])
      BY <1>3
    <3> QED
      BY <2>1, <2>3, <3>1, SeedMovesOn
  <2> QED
    BY <2>1, <2>4
<1> QED
  BY <1>7, <1>8, ExecutingKeepsIInv

LEMMA InsertKeepsIInv ==
  ASSUME IInv, NEW s \in Scripts, Insert(s)
  PROVE  IInv'
<1>1. /\ job[s].pc = "sql" /\ todo[s] # << >> /\ Next1(s).do = "insert"
      /\ Ready(s, "insert") /\ \A t \in Scripts : ~Waits(s, t)
  BY DEF Insert, Ready
<1>2. CASE Crash(s)
  BY <1>2, CrashKeepsIInv
<1>3. CASE /\ ~(Next1(s).key \in UniqueKeys /\ rows[Next1(s).key] > 0)
           /\ own' = [own EXCEPT ![s] = @ \union {Next1(s).key}]
           /\ Done(s) /\ UNCHANGED <<rows, behind, job, posted>>
  <2>1. Next1(s).key \in Keys
    <3>1. "insert" \in Inserting
      BY DEF Inserting
    <3> QED
      BY <1>1, <3>1, NextStatement
  <2>2. rows[Next1(s).key] = 0
    <3>1. CASE Next1(s).key \in UniqueKeys
      BY <1>3, <2>1, <3>1 DEF IInv, Typed
    <3>2. CASE Next1(s).key \notin UniqueKeys
      <4>1. Next1(s).key = SeedShift /\ Kind[s] = "seed"
        <5>1. Next1(s).key = SeedShift
          BY <2>1, <3>2, LinesAndShifts
        <5>2. "insert" \in Inserting
          BY DEF Inserting
        <5> QED
          BY <1>1, <5>1, <5>2, NextStatement
      <4>2. PICK n \in 1..Length :
              \/ Next1(s) = SeedScript[n]
              \/ /\ Next1(s) = [do |-> "insert", key |-> SeedScript[n].key]
                 /\ SeedScript[n].do = "get"
                 /\ n = ShiftPlace => SeedLine \in own[s]
        BY <1>1, <4>1, NextOfTheSeed
      <4>3. Next1(s) # SeedScript[n]
        BY <1>1, SeedScriptIs
      <4>4. n # Length /\ SeedScript[n].key = SeedShift /\ Length \in Nat
        BY <4>1, <4>2, <4>3, SeedScriptIs
      <4>5. SeedLine \in own[s]
        BY <4>2, <4>3, <4>4, SeedScriptIs
      <4>6. rows[SeedLine] = 0
        BY <4>5 DEF IInv, KeysAreHeld
      <4> QED
        BY <2>1, <4>1, <4>6 DEF IInv, ShiftComesWithLine, Typed
    <3> QED
      BY <3>1, <3>2
  <2>3. todo' = [todo EXCEPT ![s] = Tail(@)] /\ UNCHANGED <<rows, job>>
    BY <1>3 DEF Done
  <2> QED
    BY <1>1, <1>3, <2>2, <2>3, InsertingKeepsIInv
<1> QED
  BY <1>2, <1>3 DEF Insert

LEMMA CreateKeepsIInv ==
  ASSUME IInv, NEW s \in Scripts, Create(s)
  PROVE  IInv'
<1> DEFINE key == Next1(s).key
<1>1. /\ job[s].pc = "sql" /\ todo[s] # << >> /\ Next1(s).do = "create"
      /\ Ready(s, "create") /\ \A t \in Scripts : ~Waits(s, t)
      /\ todo' = [todo EXCEPT ![s] = Tail(@)] /\ UNCHANGED <<rows, job>>
  BY DEF Create, Ready, Done
<1>2. key \in Keys
  <2>1. "create" \in Inserting
    BY DEF Inserting
  <2> QED
    BY <1>1, <2>1, NextStatement
<1>3. CASE Visible(s, key)
  <2>1. own' = [own EXCEPT ![s] = @ \union {}]
    BY <1>3 DEF Create
  <2> QED
    BY <1>1, <2>1, InsertingKeepsIInv
<1>4. CASE ~Visible(s, key)
  <2>1. own' = [own EXCEPT ![s] = @ \union {key}]
    BY <1>4 DEF Create
  <2>2. rows[key] = 0
    BY <1>2, <1>4 DEF Visible, IInv, Typed
  <2> QED
    BY <1>1, <2>1, <2>2, InsertingKeepsIInv
<1> QED
  BY <1>3, <1>4

(* Only simulators resolve reasons.                                         *)
LEMMA SeedsDoNotResolve ==
  ASSUME IInv, NEW s \in Scripts, todo[s] # << >>, Next1(s).do \in {"ensure", "resolve"}
  PROVE  Kind[s] # "seed"
<1> SUFFICES ASSUME Kind[s] = "seed" PROVE FALSE
  OBVIOUS
<1>1. PICK n \in 1..Length :
        \/ Next1(s) = SeedScript[n]
        \/ Next1(s) = [do |-> "insert", key |-> SeedScript[n].key]
  BY NextOfTheSeed
<1>2. n \in 1..(Length - 1) \/ n = Length
  BY SeedScriptIs
<1> QED
  BY <1>1, <1>2, SeedScriptIs

LEMMA EnsureKeepsIInv ==
  ASSUME IInv, NEW s \in Scripts, Ensure(s)
  PROVE  IInv'
<1> DEFINE lacking == {code \in Reasons : ~Visible(s, code)}
<1>1. /\ job[s].pc = "sql" /\ todo[s] # << >> /\ Next1(s).do = "ensure"
      /\ UNCHANGED <<rows, own, job>>
  BY DEF Ensure, Ready
<1>2. PICK missing \in [1..Cardinality(lacking) -> lacking] :
        todo' = [todo EXCEPT ![s] = Do("insert", missing) \o Do("commit", <<None>>)]
  BY DEF Ensure
<1>3. IsFiniteSet(Reasons)
  <2>1. Catalog \in Seq(Keys)
    BY LinesAndShifts
  <2>2. IsFiniteSet(1..Len(Catalog))
    BY <2>1, FS_Interval
  <2>3. Catalog \in Surjection(1..Len(Catalog), Reasons)
    BY <2>1 DEF Surjection, Reasons, Range
  <2> QED
    BY <2>2, <2>3, FS_Surjection
<1>4. lacking \subseteq Keys \ {SeedLine, SeedShift} /\ lacking \subseteq Reasons
  BY LinesAndShifts
<1>5. Cardinality(lacking) \in Nat
  BY <1>3, <1>4, FS_Subset, FS_CardinalityType
<1> HIDE DEF lacking
<1>6. missing \in Seq(lacking)
  BY <1>5
<1> DEFINE q == Do("insert", missing) \o Do("commit", <<None>>)
<1>7. WellFormed(q) /\ Commits(q) /\ KeepsAway(q)
  <2>1. "insert" \in Inserting
    BY DEF Inserting
  <2>2. lacking \subseteq Keys /\ lacking \intersect {SeedLine, SeedShift} = {}
    BY <1>4
  <2> QED
    BY <1>6, <2>1, <2>2, ThenCommit
<1> HIDE DEF q
<1>8. todo' = [todo EXCEPT ![s] = q]
  BY <1>2 DEF q
<1>9. own' = [own EXCEPT ![s] = @ \union {}]
  BY <1>1 DEF IInv, Typed
<1>10. Executes(s, {}, q)
  BY <1>1, <1>7, <1>8, <1>9 DEF Executes
<1>11. Kind[s] # "seed"
  BY <1>1, SeedsDoNotResolve
<1> QED
  BY <1>10, <1>11, ExecutingKeepsIInv

LEMMA ResolveKeepsIInv ==
  ASSUME IInv, NEW s \in Scripts, Resolve(s)
  PROVE  IInv'
<1>1. job[s].pc = "sql" /\ todo[s] # << >> /\ Next1(s).do = "resolve"
  BY DEF Resolve, Ready
<1>2. CASE Crash(s)
  BY <1>2, CrashKeepsIInv
<1>3. CASE Done(s) /\ UNCHANGED <<rows, own, behind, job, posted>>
  <2>1. own' = [own EXCEPT ![s] = @ \union {}]
    BY <1>3 DEF IInv, Typed
  <2>2. todo' = [todo EXCEPT ![s] = Tail(todo[s])] /\ UNCHANGED <<rows, job>>
    BY <1>3 DEF Done
  <2>3. Kind[s] # "seed"
    BY <1>1, SeedsDoNotResolve
  <2>4. /\ WellFormed(Tail(todo[s])) /\ KeepsAway(Tail(todo[s]))
        /\ own[s] # {} => Commits(Tail(todo[s]))
    BY <1>1, <2>3, NextStatement
  <2>5. Executes(s, {}, Tail(todo[s]))
    BY <1>1, <2>1, <2>2, <2>4 DEF Executes
  <2> QED
    BY <2>3, <2>5, ExecutingKeepsIInv
<1> QED
  BY <1>2, <1>3 DEF Resolve

LEMMA CommitKeepsIInv ==
  ASSUME IInv, NEW s \in Scripts, Commit(s)
  PROVE  IInv'
<1> DEFINE left == Tail(todo[s])
<1>1. /\ job[s].pc = "sql" /\ todo[s] # << >> /\ Next1(s).do = "commit" /\ job' = job
      /\ rows' = [key \in Keys |-> rows[key] + IF key \in own[s] THEN 1 ELSE 0]
      /\ own' = [own EXCEPT ![s] = {}] /\ todo' = [todo EXCEPT ![s] = left]
  BY DEF Commit, Ready, Done
<1>2. /\ WellFormed(left) /\ todo[s] \in Seq(Statements)
      /\ Kind[s] # "seed" => {SeedLine, SeedShift} \intersect own[s] = {} /\ KeepsAway(left)
  BY <1>1, NextStatement
<1>3. /\ rows \in [Keys -> Nat] /\ own \in [Scripts -> SUBSET Keys]
      /\ todo \in [Scripts -> Seq(Statements)] /\ DOMAIN job = Scripts
  BY DEF IInv, Typed
<1>4. /\ own'[s] = {} /\ \A t \in Scripts \ {s} : own'[t] = own[t]
      /\ todo'[s] = left /\ \A t \in Scripts \ {s} : todo'[t] = todo[t]
  BY <1>1, <1>3
<1>5. \A key \in Keys : rows'[key] = rows[key] + IF key \in own[s] THEN 1 ELSE 0
  BY <1>1
<1>6. \A key \in Keys : /\ rows[key] > 0 => rows'[key] > 0
                        /\ key \in own[s] => rows'[key] > 0
                        /\ key \notin own[s] => rows'[key] = rows[key]
  BY <1>3, <1>5
<1>7. \A t \in Scripts : \A key \in own[t] : rows[key] = 0
  BY DEF IInv, KeysAreHeld
<1>8. Typed'
  <2>1. rows' \in [Keys -> Nat]
    BY <1>1, <1>3
  <2>2. own' \in [Scripts -> SUBSET Keys]
    BY <1>1, <1>3
  <2>3. todo' \in [Scripts -> Seq(Statements)]
    BY <1>1, <1>2, <1>3 DEF WellFormed
  <2> QED
    BY <1>1, <1>3, <2>1, <2>2, <2>3 DEF Typed
<1>9. NoDuplicates'
  <2>1. \A key \in Keys : rows[key] <= 1
    BY DEF IInv, NoDuplicates
  <2>2. ASSUME NEW key \in Keys PROVE rows'[key] <= 1
    <3>1. rows[key] \in Nat /\ rows[key] <= 1
      BY <1>3, <2>1
    <3>2. CASE key \in own[s]
      <4>1. rows[key] = 0
        BY <1>7, <3>2
      <4>2. rows'[key] = rows[key] + 1
        BY <1>5, <3>2
      <4> QED
        BY <4>1, <4>2
    <3>3. CASE key \notin own[s]
      BY <1>6, <3>1, <3>3
    <3> QED
      BY <3>2, <3>3
  <2> QED
    BY <2>2 DEF NoDuplicates
<1>10. Transactions'
  BY <1>1, <1>2, <1>4 DEF IInv, Transactions
<1>11. ASSUME NEW t \in Scripts \ {s}, NEW key \in own[t] PROVE key \notin own[s]
  <2> SUFFICES ASSUME key \in own[s] PROVE FALSE
    OBVIOUS
  <2>1. key \in Keys
    BY <1>3
  <2>2. \A k \in UniqueKeys : ~(k \in own[s] /\ k \in own[t])
    BY DEF IInv, KeysAreHeld
  <2>3. key = SeedShift
    BY <1>11, <2>1, <2>2, LinesAndShifts
  <2>4. SeedLine \in own[s] /\ SeedLine \in own[t]
    BY <1>11, <2>3 DEF IInv, ShiftComesWithLine
  <2> QED
    BY <2>2, <2>4, LinesAndShifts
<1>12. KeysAreHeld'
  <2>1. \A t \in Scripts : \A key \in own'[t] : rows'[key] = 0
    <3>1. ASSUME NEW t \in Scripts \ {s}, NEW key \in own[t] PROVE rows'[key] = 0
      BY <1>3, <1>6, <1>7, <1>11, <3>1
    <3> QED
      BY <1>4, <3>1
  <2>2. \A t, u \in Scripts : t # u => own'[t] \intersect own'[u] \intersect UniqueKeys = {}
    BY <1>4 DEF IInv, KeysAreHeld
  <2> QED
    BY <2>1, <2>2 DEF KeysAreHeld
<1>13. Kind[s] = "seed" => left = << >> /\ Has(s, SeedLine) /\ Has(s, SeedShift)
  <2> SUFFICES ASSUME Kind[s] = "seed"
               PROVE  left = << >> /\ Has(s, SeedLine) /\ Has(s, SeedShift)
    OBVIOUS
  <2>1. PICK n \in 1..Length :
          /\ Reached(s, n)
          /\ \/ Next1(s) = SeedScript[n] /\ (n = Length => left = << >>)
             \/ Next1(s) = [do |-> "insert", key |-> SeedScript[n].key]
    BY <1>1, NextOfTheSeed
  <2>2. n \in 1..(Length - 1) \/ n = Length
    BY SeedScriptIs
  <2>3. n = Length /\ left = << >>
    BY <1>1, <2>1, <2>2, SeedScriptIs
  <2>4. n > 1 /\ n > ShiftPlace
    BY <2>3, SeedScriptIs
  <2> QED
    BY <2>1, <2>3, <2>4 DEF Reached
<1>14. ShiftComesWithLine'
  <2>1. /\ \A t \in Scripts : SeedShift \in own[t] => SeedLine \in own[t]
        /\ rows[SeedShift] > 0 <=> rows[SeedLine] > 0
    BY DEF IInv, ShiftComesWithLine
  <2>2. \A t \in Scripts : SeedShift \in own'[t] => SeedLine \in own'[t]
    BY <1>4, <2>1
  <2>3. SeedLine \in own[s] <=> SeedShift \in own[s]
    <3>1. CASE Kind[s] # "seed"
      BY <1>2, <3>1
    <3>2. CASE Kind[s] = "seed"
      <4>1. ASSUME SeedLine \in own[s] PROVE SeedShift \in own[s]
        <5>1. rows[SeedLine] = 0
          BY <1>7, <4>1
        <5>2. ~(rows[SeedShift] > 0)
          BY <2>1, <5>1
        <5> QED
          BY <1>13, <3>2, <5>2 DEF Has
      <4> QED
        BY <2>1, <4>1
    <3> QED
      BY <3>1, <3>2
  <2>4. rows'[SeedShift] > 0 <=> rows'[SeedLine] > 0
    BY <1>6, <2>1, <2>3, LinesAndShifts
  <2> QED
    BY <2>2, <2>4 DEF ShiftComesWithLine
<1>15. SimulatorsKeepAway'
  BY <1>2, <1>4 DEF IInv, SimulatorsKeepAway
<1>16. ASSUME NEW t \in Scripts, Kind[t] = "seed", todo'[t] # << >>
       PROVE  \E n \in 1..Length : (SeedIsBetween(t, n) \/ SeedInserts(t, n))'
  <2>1. t # s
    BY <1>4, <1>13, <1>16
  <2>2. todo'[t] = todo[t] /\ own'[t] = own[t]
    BY <1>4, <2>1
  <2>3. PICK n \in 1..Length : SeedIsBetween(t, n) \/ SeedInserts(t, n)
    BY <1>16, <2>2 DEF IInv, SeedsAreInOrder
  <2>4. Reached(t, n) => Reached(t, n)'
    BY <1>6, <2>2, LinesAndShifts DEF Reached, Has
  <2>5. SeedIsBetween(t, n) => SeedIsBetween(t, n)'
    BY <2>2, <2>4 DEF SeedIsBetween
  <2>6. SeedInserts(t, n) => SeedInserts(t, n)'
    BY <2>2, <2>4 DEF SeedInserts
  <2> QED
    BY <2>3, <2>5, <2>6
<1> QED
  BY <1>8, <1>9, <1>10, <1>12, <1>14, <1>15, <1>16 DEF IInv, SeedsAreInOrder

-----------------------------------------------------------------------------
LEMMA IInvIsInductive ==
  ASSUME IInv, [Next]_vars PROVE IInv'
<1>1. CASE UNCHANGED vars
  BY <1>1 DEF vars, IInv, Typed, Transactions, KeysAreHeld, ShiftComesWithLine,
              SimulatorsKeepAway, SeedsAreInOrder, SeedIsBetween, SeedInserts, Reached, Has,
              NoDuplicates
<1>2. ASSUME NEW s \in Scripts, Statement(s) PROVE IInv'
  <2>1. CASE Bootstrapped(s)
    <3>1. own[s] = {}
      BY <2>1 DEF Bootstrapped, IInv, Transactions, Commits
    <3>2. DOMAIN job' = Scripts /\ \A t \in Scripts \ {s} : job'[t] = job[t]
      BY <2>1 DEF Bootstrapped, IInv, Typed
    <3> QED
      BY <2>1, <3>1, <3>2, OutsideKeepsIInv DEF Bootstrapped
  <2> QED
    BY <1>2, <2>1, GetKeepsIInv, InsertKeepsIInv, CreateKeepsIInv, EnsureKeepsIInv,
       ResolveKeepsIInv, CommitKeepsIInv DEF Statement
<1>3. ASSUME NEW s \in Scripts, Deadlock(s) \/ Kill(s) PROVE IInv'
  BY <1>3, CrashKeepsIInv DEF Deadlock, Kill
<1>4. ASSUME NEW s \in Scripts, job[s].pc = "posting",
             DOMAIN job' = Scripts, \A t \in Scripts \ {s} : job'[t] = job[t],
             UNCHANGED <<rows, own, todo>>
      PROVE  IInv'
  <2>1. own[s] = {}
    BY <1>4 DEF IInv, Transactions
  <2> QED
    BY <1>4, <2>1, OutsideKeepsIInv
<1>5. ASSUME NEW s \in Scripts, NEW d \in AllDrafts, Post(s, d) \/ PostInTrouble(s, d)
      PROVE  IInv'
  <2>1. job[s].pc = "posting" /\ UNCHANGED <<rows, own, todo>>
    BY <1>5 DEF Post, PostInTrouble, Pending
  <2>2. PICK answer : Answered(s, d, answer)
    BY <1>5 DEF Post, PostInTrouble
  <2>3. DOMAIN job' = Scripts /\ \A t \in Scripts \ {s} : job'[t] = job[t]
    BY <2>2 DEF Answered, IInv, Typed
  <2> QED
    BY <1>4, <2>1, <2>3
<1>6. ASSUME NEW s \in Scripts, EndOfTransport(s) PROVE IInv'
  <2>1. job[s].pc = "posting" /\ UNCHANGED <<rows, own, todo>>
    BY <1>6 DEF EndOfTransport
  <2>2. DOMAIN job' = Scripts /\ \A t \in Scripts \ {s} : job'[t] = job[t]
    <3>1. NextStage(s) \/ Return(s)
      BY <1>6 DEF EndOfTransport
    <3>2. NextStage(s) => \E next : job' = [job EXCEPT ![s] = next]
      BY Zenon DEF NextStage
    <3>3. Return(s) => \E next : job' = [job EXCEPT ![s] = next]
      BY Zenon DEF Return
    <3> QED
      BY <3>1, <3>2, <3>3 DEF IInv, Typed
  <2> QED
    BY <1>4, <2>1, <2>2
<1>7. ASSUME NEW s \in Scripts, Run(s) \/ RunAgain(s) PROVE IInv'
  BY <1>7, LaunchKeepsIInv DEF Run, RunAgain
<1> QED
  BY <1>1, <1>2, <1>3, <1>5, <1>6, <1>7 DEF Next

LEMMA InitiallyIInv == Init => IInv
<1> SUFFICES ASSUME Init PROVE IInv
  OBVIOUS
<1>1. /\ rows = [key \in Keys |-> 0] /\ own = [s \in Scripts |-> {}]
      /\ todo = [s \in Scripts |-> << >>] /\ DOMAIN job = Scripts
  BY DEF Init
<1>2. Typed /\ NoDuplicates /\ KeysAreHeld /\ SeedsAreInOrder
  BY <1>1 DEF Typed, NoDuplicates, KeysAreHeld, SeedsAreInOrder
<1>3. Transactions /\ SimulatorsKeepAway
  BY <1>1, NothingIsWellFormed DEF Transactions, SimulatorsKeepAway
<1>4. ShiftComesWithLine
  BY <1>1, LinesAndShifts DEF ShiftComesWithLine
<1> QED
  BY <1>2, <1>3, <1>4 DEF IInv

(* For any scripts, keys and catalogues, however the scripts interleave,    *)
(* crash and are started again: no natural key has two rows, the shift,     *)
(* which no constraint guards, included (_get_or_create_shift).             *)
THEOREM KeysStaySingle == Spec => []NoDuplicates
<1>1. IInv => NoDuplicates
  BY DEF IInv
<1> QED
  BY <1>1, InitiallyIInv, IInvIsInductive, PTL DEF Spec
-----------------------------------------------------------------------------
(* A pass means that everything is stored. *)

(* The rows a script creates or relies on.                                  *)
Needed(s) ==
  {key \in Keys : \E i \in DOMAIN Script(s) : Script(s)[i].key = key}
    \union (IF Kind[s] = "seed" THEN {} ELSE Reasons)

(* A list of statements that still has to see to a row.                     *)
SeesTo(q, key) ==
  \E i \in DOMAIN q : \/ q[i].do \in Inserting /\ q[i].key = key
                      \/ q[i].do \in {"ensure", "resolve"} /\ key \in Reasons

(* Whoever has its reasons ensured has nothing else left to do.             *)
EnsureIsLast ==
  \A s \in Scripts : \A i \in DOMAIN todo[s] : todo[s][i].do = "ensure" => i = Len(todo[s])

(* Nothing is forgotten on the way, and nothing lost after the commit.      *)
NothingIsSkipped ==
  \A s \in Scripts : \A key \in Needed(s) :
    /\ job[s].pc = "sql" => Has(s, key) \/ SeesTo(todo[s], key)
    /\ job[s].pc \in {"posting", "exited"} => rows[key] > 0

Answers == UNION {[D -> {"pending", "created", "existing", "failed"}] : D \in SUBSET AllDrafts}

Jobs == [pc : {"idle", "unused", "sql", "posting", "exited", "crashed"},
         tier : {"smoke", "acceptance"}, stage : 0..4, windows : Seq(Int),
         answer : Answers, first : Answers, finding : BOOLEAN]

JobsAreTyped ==
  /\ job \in [Scripts -> Jobs] /\ clock \in Nat
  /\ DOMAIN posted = AllDrafts
  /\ \A s \in Scripts : job[s].pc = "sql" => job[s].windows = << >>

(* Drafts stored as they are generated for a window.                        *)
Stored(drafts, window) == \A d \in drafts : posted[d] = {window}

(* A script that posts: which window each stage is about, what its answers  *)
(* are worth, and what the stages before have shown if they found nothing.  *)
InStage(s) ==
  /\ Kind[s] # "seed" /\ job[s].stage \in 1..LastStage(s)
  /\ Len(job[s].windows) = IF job[s].stage <= 2 THEN 1 ELSE 2
  /\ DOMAIN job[s].answer = Drafts(s, job[s].stage)
  /\ \A d \in DOMAIN job[s].answer :
       job[s].answer[d] \in {"created", "existing"} => posted[d] = {Window(s)}
  /\ ~job[s].finding /\ job[s].stage >= 2 => Stored(Drafts(s, 1), job[s].windows[1])
  /\ ~job[s].finding /\ job[s].stage = 4  => Stored(Drafts(s, 3), job[s].windows[2])

StagesAddUp == \A s \in Scripts : job[s].pc = "posting" => InStage(s)

(* The last conjunct of PassMeansStored.                                    *)
Passed(s) ==
  ~job[s].finding =>
    \A i \in DOMAIN job[s].windows : Stored(Drafts(s, 2 * i), job[s].windows[i])

PassesHold == \A s \in Scripts : job[s].pc = "exited" => Passed(s)

JobsInv == JobsAreTyped /\ StagesAddUp /\ PassesHold

PassInv == EnsureIsLast /\ NothingIsSkipped /\ JobsInv

LEMMA DraftsAreDrafts ==
  ASSUME NEW s, NEW n PROVE Drafts(s, n) \subseteq AllDrafts
BY BootstrapConstants DEF Drafts

(* One script moves; what the database has answered stays.                  *)
LEMMA OneJobMoves ==
  ASSUME JobsInv, NEW s \in Scripts, NEW next \in Jobs, job' = [job EXCEPT ![s] = next],
         clock' \in Nat, DOMAIN posted' = AllDrafts,
         \A d \in AllDrafts : posted[d] # {} => posted'[d] = posted[d],
         next.pc = "sql" => next.windows = << >>,
         next.pc = "posting" => InStage(s)', next.pc = "exited" => Passed(s)'
  PROVE  JobsInv'
<1>1. job \in [Scripts -> Jobs]
  BY DEF JobsInv, JobsAreTyped
<1>2. job'[s] = next /\ \A t \in Scripts \ {s} : job'[t] = job[t]
  BY <1>1
<1>3. JobsAreTyped'
  <2>1. job' \in [Scripts -> Jobs]
    BY <1>1
  <2>2. \A t \in Scripts : job'[t].pc = "sql" => job'[t].windows = << >>
    BY <1>2 DEF JobsInv, JobsAreTyped
  <2> QED
    BY <2>1, <2>2 DEF JobsAreTyped
<1>4. ASSUME NEW drafts \in SUBSET AllDrafts, NEW window, Stored(drafts, window)
      PROVE  \A d \in drafts : posted'[d] = {window}
  BY <1>4 DEF Stored
<1>5. ASSUME NEW t \in Scripts \ {s}, job[t].pc = "posting", InStage(t) PROVE InStage(t)'
  <2>1. /\ job'[t] = job[t] /\ LastStage(t)' = LastStage(t) /\ Window(t)' = Window(t)
        /\ \A n : Drafts(t, n)' = Drafts(t, n)
    BY <1>2 DEF LastStage, Window, Drafts
  <2>2. \A d \in DOMAIN job[t].answer : d \in AllDrafts
    BY <1>5, DraftsAreDrafts DEF InStage
  <2>3. \A d \in DOMAIN job[t].answer :
          job[t].answer[d] \in {"created", "existing"} => posted'[d] = {Window(t)}
    BY <1>5, <2>2 DEF InStage
  <2>4. ~job[t].finding /\ job[t].stage >= 2
          => \A d \in Drafts(t, 1) : posted'[d] = {job[t].windows[1]}
    BY <1>4, <1>5, DraftsAreDrafts DEF InStage
  <2>5. ~job[t].finding /\ job[t].stage = 4
          => \A d \in Drafts(t, 3) : posted'[d] = {job[t].windows[2]}
    BY <1>4, <1>5, DraftsAreDrafts DEF InStage
  <2> QED
    BY <1>5, <2>1, <2>3, <2>4, <2>5 DEF InStage, Stored
<1>6. StagesAddUp'
  BY <1>2, <1>5 DEF JobsInv, StagesAddUp
<1>7. ASSUME NEW t \in Scripts \ {s}, Passed(t) PROVE Passed(t)'
  <2>1. job'[t] = job[t]
    BY <1>2
  <2>2. ASSUME ~job[t].finding, NEW i \in DOMAIN job[t].windows
        PROVE  \A d \in Drafts(t, 2 * i) : posted'[d] = {job[t].windows[i]}
    <3>1. Stored(Drafts(t, 2 * i), job[t].windows[i])
      BY <1>7, <2>2 DEF Passed
    <3> QED
      BY <1>4, <3>1, DraftsAreDrafts
  <2> QED
    BY <2>1, <2>2 DEF Passed, Stored
<1>8. PassesHold'
  BY <1>2, <1>7 DEF JobsInv, PassesHold
<1> QED
  BY <1>3, <1>6, <1>8 DEF JobsInv

LEMMA StatementsKeepJobs ==
  ASSUME JobsInv, UNCHANGED <<job, posted, clock>> PROVE JobsInv'
<1>1. JobsAreTyped'
  BY DEF JobsInv, JobsAreTyped
<1>2. ASSUME NEW s \in Scripts, InStage(s) PROVE InStage(s)'
  <2>1. /\ LastStage(s)' = LastStage(s) /\ Window(s)' = Window(s)
        /\ \A n : Drafts(s, n)' = Drafts(s, n)
        /\ \A drafts, window : Stored(drafts, window)' = Stored(drafts, window)
    BY DEF LastStage, Window, Drafts, Stored
  <2> QED
    BY <1>2, <2>1 DEF InStage
<1>3. ASSUME NEW s \in Scripts, Passed(s) PROVE Passed(s)'
  BY <1>3 DEF Passed, Stored, Drafts
<1> QED
  BY <1>1, <1>2, <1>3 DEF JobsInv, StagesAddUp, PassesHold

LEMMA CrashesKeepJobs ==
  ASSUME JobsInv, NEW s \in Scripts, Crash(s), clock' = clock PROVE JobsInv'
<1>1. job[s] \in Jobs /\ DOMAIN posted = AllDrafts /\ clock \in Nat
  BY DEF JobsInv, JobsAreTyped
<1> DEFINE next == [job[s] EXCEPT !.pc = "crashed"]
<1>2. next \in Jobs /\ next.pc = "crashed"
  BY <1>1 DEF Jobs
<1>3. job' = [job EXCEPT ![s] = next] /\ posted' = posted
  BY DEF Crash
<1> HIDE DEF next
<1> QED
  BY <1>1, <1>2, <1>3, OneJobMoves

LEMMA LaunchesKeepJobs ==
  ASSUME JobsInv, NEW s \in Scripts, NEW tier \in Tiers(s), Launch(s, tier) PROVE JobsInv'
<1> DEFINE next == [Idle EXCEPT !.pc = "sql", !.tier = tier]
<1>1. next.pc = "sql" /\ next.windows = << >> /\ next \in Jobs
  <2>1. tier \in {"smoke", "acceptance"}
    BY DEF Tiers
  <2>2. << >> \in Answers
    <3>1. << >> \in [{} -> {"pending", "created", "existing", "failed"}] /\ {} \in SUBSET AllDrafts
      OBVIOUS
    <3> QED
      BY <3>1 DEF Answers
  <2>3. Idle \in Jobs /\ Idle.windows = << >>
    BY <2>2 DEF Jobs, Idle
  <2>4. PICK idle \in Jobs : idle = Idle
    BY <2>3
  <2>5. next = [idle EXCEPT !.pc = "sql", !.tier = tier] /\ idle.windows = << >>
    BY <2>3, <2>4
  <2> HIDE DEF next
  <2> QED
    BY ONLY <2>1, <2>4, <2>5 DEF Jobs
<1>2. job' = [job EXCEPT ![s] = next] /\ UNCHANGED <<posted, clock>>
  BY DEF Launch
<1>3. DOMAIN posted = AllDrafts /\ clock \in Nat
  BY DEF JobsInv, JobsAreTyped
<1> HIDE DEF next
<1> QED
  BY <1>1, <1>2, <1>3, OneJobMoves

LEMMA UnansweredIs ==
  ASSUME NEW s, NEW n
  PROVE  /\ Unanswered(s, n) \in Answers /\ DOMAIN Unanswered(s, n) = Drafts(s, n)
         /\ \A d \in Drafts(s, n) : Unanswered(s, n)[d] = "pending"
<1>1. Unanswered(s, n) \in [Drafts(s, n) -> {"pending", "created", "existing", "failed"}]
  BY DEF Unanswered
<1> QED
  BY <1>1, DraftsAreDrafts DEF Unanswered, Answers

LEMMA BootstrappedKeepsJobs ==
  ASSUME JobsInv, NEW s \in Scripts, Bootstrapped(s) PROVE JobsInv'
<1>1. /\ job[s] \in Jobs /\ DOMAIN posted = AllDrafts /\ clock \in Nat
      /\ job[s].pc = "sql" /\ job[s].windows = << >> /\ posted' = posted
  BY DEF JobsInv, JobsAreTyped, Bootstrapped
<1>2. CASE Kind[s] = "seed"
  <2> DEFINE next == [job[s] EXCEPT !.pc = "exited"]
  <2>1. next \in Jobs /\ next.pc = "exited" /\ next.windows = << >>
    BY <1>1 DEF Jobs
  <2>2. job' = [job EXCEPT ![s] = next] /\ clock' = clock
    BY <1>2 DEF Bootstrapped
  <2> HIDE DEF next
  <2>3. job'[s].windows = << >>
    BY <2>1, <2>2 DEF JobsInv, JobsAreTyped
  <2>4. Passed(s)'
    BY <2>3 DEF Passed
  <2> QED
    BY <1>1, <2>1, <2>2, <2>4, OneJobMoves
<1>3. CASE Kind[s] # "seed"
  <2> DEFINE window == IF Kind[s] = "qa" THEN clock ELSE Start[s]
             next == [job[s] EXCEPT !.pc = "posting", !.stage = 1, !.answer = Unanswered(s, 1),
                                    !.windows = <<window>>]
  <2>1. window \in Int
    BY <1>1, BootstrapConstants
  <2>2. /\ next \in Jobs /\ next.pc = "posting" /\ next.stage = 1
        /\ next.answer = Unanswered(s, 1) /\ next.windows = <<window>>
    <3>1. <<window>> \in Seq(Int) /\ Unanswered(s, 1) \in Answers
      BY <2>1, UnansweredIs
    <3>2. PICK j \in Jobs : j = job[s]
      BY <1>1
    <3>3. PICK answer \in Answers : answer = Unanswered(s, 1)
      BY <3>1
    <3>4. PICK windows \in Seq(Int) : windows = <<window>>
      BY <3>1
    <3>5. next = [j EXCEPT !.pc = "posting", !.stage = 1, !.answer = answer, !.windows = windows]
      BY <3>2, <3>3, <3>4
    <3> HIDE DEF next, window
    <3>6. /\ next \in Jobs /\ next.pc = "posting" /\ next.stage = 1
          /\ next.answer = answer /\ next.windows = windows
      <4>1. PICK stage \in 0..4 : stage = 1
        OBVIOUS
      <4>2. PICK j1 \in Jobs : j1 = [j EXCEPT !.pc = "posting", !.stage = stage]
        BY <3>2, <4>1 DEF Jobs
      <4>3. j1.pc = "posting" /\ j1.stage = 1
        BY ONLY <3>2, <4>1, <4>2 DEF Jobs
      <4>4. next = [j1 EXCEPT !.answer = answer, !.windows = windows]
        BY <3>5, <4>1, <4>2
      <4> QED
        BY ONLY <3>3, <3>4, <4>2, <4>3, <4>4 DEF Jobs
    <3> QED
      BY <3>3, <3>4, <3>6
  <2>3. job' = [job EXCEPT ![s] = next] /\ clock' \in Nat
    <3>1. (IF Kind[s] = "qa" THEN <<clock>> ELSE <<Start[s]>>) = <<window>>
      OBVIOUS
    <3> HIDE DEF window
    <3>2. job' = [job EXCEPT ![s] =
                   [@ EXCEPT !.pc = "posting", !.stage = 1, !.answer = Unanswered(s, 1),
                             !.windows = <<window>>]]
      BY <1>3, <3>1 DEF Bootstrapped
    <3>3. clock' \in Nat
      BY <1>1, <1>3 DEF Bootstrapped
    <3> QED
      BY <3>2, <3>3
  <2> HIDE DEF next, window
  <2>4. job'[s] = next
    BY <2>3 DEF JobsInv, JobsAreTyped
  <2>5. LastStage(s)' \in 1..4
    BY <1>3, <2>2, <2>4, BootstrapConstants DEF LastStage, Jobs
  <2>6. InStage(s)'
    <3>1. job'[s].stage = 1 /\ Len(job'[s].windows) = 1
      BY <2>2, <2>4
    <3>2. /\ DOMAIN job'[s].answer = Drafts(s, 1)
          /\ \A d \in DOMAIN job'[s].answer : job'[s].answer[d] = "pending"
      BY <2>2, <2>4, UnansweredIs
    <3>3. Drafts(s, job[s].stage)' = Drafts(s, job'[s].stage)
      BY DEF Drafts
    <3>4. 1 \in 1..LastStage(s)'
      BY <2>5
    <3> QED
      BY <1>3, <3>1, <3>2, <3>3, <3>4 DEF InStage
  <2> QED
    BY <1>1, <2>2, <2>3, <2>6, OneJobMoves
<1> QED
  BY <1>2, <1>3

LEMMA AnswersKeepJobs ==
  ASSUME JobsInv, NEW s \in Scripts, NEW d, Pending(s, d),
         NEW answer \in {"created", "existing", "failed"}, Answered(s, d, answer),
         Store(d, Window(s)) \/ UNCHANGED posted,
         answer # "failed" => posted'[d] = {Window(s)}, clock' = clock
  PROVE  JobsInv'
<1> DEFINE answers == [job[s].answer EXCEPT ![d] = answer]
           next    == [job[s] EXCEPT !.answer = answers]
<1>1. /\ job \in [Scripts -> Jobs] /\ job[s] \in Jobs /\ DOMAIN posted = AllDrafts /\ clock \in Nat
      /\ job[s].pc = "posting" /\ d \in DOMAIN job[s].answer /\ InStage(s)
  BY DEF JobsInv, JobsAreTyped, StagesAddUp, Pending
<1>2. d \in AllDrafts
  BY <1>1, DraftsAreDrafts DEF InStage
<1>3. answers \in Answers
  <2>1. job[s].answer \in Answers
    BY <1>1 DEF Jobs
  <2>2. PICK D \in SUBSET AllDrafts :
          job[s].answer \in [D -> {"pending", "created", "existing", "failed"}]
    BY <2>1 DEF Answers
  <2>3. answers \in [D -> {"pending", "created", "existing", "failed"}]
    BY <2>2
  <2> QED
    BY <2>3 DEF Answers
<1>4. /\ DOMAIN answers = DOMAIN job[s].answer /\ answers[d] = answer
      /\ \A e \in DOMAIN answers \ {d} : answers[e] = job[s].answer[e]
  BY <1>1
<1>5. job' = [job EXCEPT ![s] = next]
  BY DEF Answered
<1> HIDE DEF answers
<1>6. next \in Jobs /\ next.pc = "posting" /\ next.answer = answers
      /\ next.stage = job[s].stage /\ next.windows = job[s].windows
      /\ next.finding = job[s].finding /\ next.tier = job[s].tier
  BY <1>1, <1>3 DEF Jobs
<1> HIDE DEF next
<1>7. job'[s] = next
  BY <1>1, <1>5
<1>8. DOMAIN posted' = AllDrafts /\ \A e \in AllDrafts : posted[e] # {} => posted'[e] = posted[e]
  BY <1>1 DEF Store
<1>9. InStage(s)'
  <2>1. /\ LastStage(s)' = LastStage(s) /\ Window(s)' = Window(s)
        /\ Drafts(s, job[s].stage)' = Drafts(s, job[s].stage)
        /\ Drafts(s, 1)' = Drafts(s, 1) /\ Drafts(s, 3)' = Drafts(s, 3)
    BY <1>6, <1>7 DEF LastStage, Window, Drafts
  <2>2. ASSUME NEW e \in DOMAIN answers, answers[e] \in {"created", "existing"}
        PROVE  posted'[e] = {Window(s)}
    <3>1. CASE e = d
      BY <1>4, <2>2, <3>1
    <3>2. CASE e # d
      <4>1. e \in AllDrafts /\ posted[e] = {Window(s)}
        BY <1>1, <1>4, <2>2, <3>2, DraftsAreDrafts DEF InStage
      <4> QED
        BY <1>8, <4>1
    <3> QED
      BY <3>1, <3>2
  <2>3. ASSUME NEW drafts \in SUBSET AllDrafts, NEW window, Stored(drafts, window)
        PROVE  Stored(drafts, window)'
    BY <1>8, <2>3 DEF Stored
  <2>4. ~job[s].finding /\ job[s].stage >= 2 => Stored(Drafts(s, 1), job[s].windows[1])'
    BY <1>1, <1>6, <1>7, <2>1, <2>3, DraftsAreDrafts DEF InStage
  <2>5. ~job[s].finding /\ job[s].stage = 4 => Stored(Drafts(s, 3), job[s].windows[2])'
    BY <1>1, <1>6, <1>7, <2>1, <2>3, DraftsAreDrafts DEF InStage
  <2> QED
    BY <1>1, <1>4, <1>6, <1>7, <2>1, <2>2, <2>4, <2>5 DEF InStage
<1> QED
  BY <1>1, <1>5, <1>6, <1>8, <1>9, OneJobMoves

LEMMA PostsKeepJobs ==
  ASSUME JobsInv, NEW s \in Scripts, NEW d, Post(s, d) \/ PostInTrouble(s, d)
  PROVE  JobsInv'
<1>1. Pending(s, d) /\ clock' = clock
  BY DEF Post, PostInTrouble
<1>2. d \in AllDrafts /\ DOMAIN posted = AllDrafts
  BY <1>1, DraftsAreDrafts DEF Pending, JobsInv, JobsAreTyped, StagesAddUp, InStage
<1>3. /\ Answer(d, Window(s)) \in {"created", "existing", "failed"}
      /\ Store(d, Window(s)) /\ Answer(d, Window(s)) # "failed" => posted'[d] = {Window(s)}
  BY <1>2 DEF Answer, Store
<1>4. CASE Post(s, d)
  BY <1>1, <1>3, <1>4, AnswersKeepJobs DEF Post
<1>5. ASSUME Store(d, Window(s)),
             Answered(s, d, IF Answer(d, Window(s)) = "failed" THEN "failed" ELSE "existing")
      PROVE  JobsInv'
  <2>1. CASE Answer(d, Window(s)) = "failed"
    BY <1>1, <1>5, <2>1, AnswersKeepJobs
  <2>2. CASE Answer(d, Window(s)) # "failed"
    BY <1>1, <1>3, <1>5, <2>2, AnswersKeepJobs
  <2> QED
    BY <2>1, <2>2
<1>6. ASSUME Store(d, Window(s)) \/ UNCHANGED posted, Answered(s, d, "failed") PROVE JobsInv'
  BY <1>1, <1>6, AnswersKeepJobs
<1> QED
  BY <1>4, <1>5, <1>6 DEF PostInTrouble

(* When every call of a stage is answered and it finds nothing, then what   *)
(* it sent for the first time is stored for its window.                     *)
LEMMA StageEnds ==
  ASSUME JobsInv, NEW s \in Scripts, EndOfTransport(s)
  PROVE  /\ job[s].pc = "posting" /\ InStage(s) /\ job[s] \in Jobs
         /\ job[s].stage \in {1, 2, 3, 4}
         /\ StageFinding(s) \in BOOLEAN
         /\ job[s].stage \in {1, 3} /\ ~StageFinding(s)
              => Stored(Drafts(s, job[s].stage), Window(s))
<1>1. /\ job[s].pc = "posting" /\ InStage(s) /\ job[s] \in Jobs
      /\ \A d \in DOMAIN job[s].answer : job[s].answer[d] # "pending"
  BY DEF JobsInv, JobsAreTyped, StagesAddUp, EndOfTransport, Pending
<1>2. job[s].stage \in {1, 2, 3, 4}
  <2>1. job[s].stage \in 0..4 /\ job[s].stage \in 1..LastStage(s)
    BY <1>1 DEF Jobs, InStage
  <2>2. LastStage(s) \in Int
    BY <1>1, BootstrapConstants DEF LastStage, InStage, Jobs
  <2> QED
    BY <2>1, <2>2
<1>3. ASSUME job[s].stage \in {1, 3}, ~StageFinding(s), NEW d \in Drafts(s, job[s].stage)
      PROVE  posted[d] = {Window(s)}
  <2>1. d \in DOMAIN job[s].answer
    BY <1>1 DEF InStage
  <2>2. job[s].answer[d] # "failed"
    BY <1>3, <2>1 DEF StageFinding
  <2>3. job[s].answer \in Answers
    BY <1>1 DEF Jobs
  <2>4. job[s].answer[d] \in {"pending", "created", "existing", "failed"}
    BY <2>1, <2>3 DEF Answers
  <2> QED
    BY <1>1, <2>1, <2>2, <2>4 DEF InStage
<1>4. StageFinding(s) \in BOOLEAN
  BY DEF StageFinding, IdempotentRepeat
<1> QED
  BY <1>1, <1>2, <1>3, <1>4 DEF Stored

LEMMA NextStageKeepsJobs ==
  ASSUME JobsInv, NEW s \in Scripts, EndOfTransport(s), job[s].stage < LastStage(s), NextStage(s)
  PROVE  JobsInv'
<1> DEFINE stage == job[s].stage + 1
           finding == job[s].finding \/ StageFinding(s)
           windows == IF stage = 3 THEN Append(job[s].windows, clock) ELSE job[s].windows
           next == [job[s] EXCEPT !.stage = stage, !.answer = Unanswered(s, stage),
                                  !.first = job[s].answer, !.finding = finding,
                                  !.windows = windows]
<1>1. /\ job[s].pc = "posting" /\ InStage(s) /\ job[s] \in Jobs /\ StageFinding(s) \in BOOLEAN
      /\ job[s].stage \in {1, 2, 3, 4}
      /\ job[s].stage \in {1, 3} /\ ~StageFinding(s)
           => Stored(Drafts(s, job[s].stage), Window(s))
  BY StageEnds
<1>2. /\ job \in [Scripts -> Jobs] /\ clock \in Nat /\ DOMAIN posted = AllDrafts
      /\ posted' = posted
  BY DEF JobsInv, JobsAreTyped, EndOfTransport
<1>3. stage \in {2, 3, 4} /\ stage \in 1..LastStage(s)
  <2>1. LastStage(s) \in 1..4
    BY <1>1, BootstrapConstants DEF LastStage, InStage, Jobs
  <2> QED
    BY <1>1, <2>1
<1>4. /\ job[s].windows \in Seq(Int) /\ windows \in Seq(Int)
      /\ Len(windows) = IF stage <= 2 THEN 1 ELSE 2
      /\ windows[1] = job[s].windows[1]
      /\ stage = 4 => windows = job[s].windows
      /\ stage = 3 => windows # << >>
  <2>1. job[s].windows \in Seq(Int)
    BY <1>1 DEF Jobs
  <2>2. Len(job[s].windows) = IF job[s].stage <= 2 THEN 1 ELSE 2
    BY <1>1 DEF InStage
  <2>3. CASE stage = 3
    <3>1. job[s].stage = 2
      BY <1>1, <2>3
    <3>2. Len(job[s].windows) = 1
      BY <2>2, <3>1
    <3>3. windows = Append(job[s].windows, clock)
      BY <2>3
    <3>4. PICK list \in Seq(Int) : list = job[s].windows
      BY <2>1
    <3> HIDE DEF windows
    <3>5. windows \in Seq(Int) /\ Len(windows) = 2 /\ windows[1] = list[1] /\ windows # << >>
      <4>1. windows = Append(list, clock) /\ Len(list) = 1
        BY <3>2, <3>3, <3>4
      <4>2. PICK last \in Int : last = clock
        BY <1>2
      <4>3. windows = Append(list, last)
        BY <4>1, <4>2
      <4>4. windows \in Seq(Int) /\ Len(windows) = Len(list) + 1
        BY ONLY <3>4, <4>2, <4>3
      <4>5. windows[1] = list[1]
        BY ONLY <3>4, <4>1, <4>2, <4>3
      <4> QED
        BY <4>1, <4>4, <4>5
    <3> QED
      BY <2>1, <2>3, <3>4, <3>5
  <2>4. CASE stage # 3
    BY <1>1, <1>3, <2>1, <2>2, <2>4
  <2> QED
    BY <2>3, <2>4
<1>5. job' = [job EXCEPT ![s] = next] /\ clock' \in Nat
  <2>1. clock' \in Nat
    BY <1>2 DEF NextStage
  <2>2. job' = [job EXCEPT ![s] = next]
    BY Zenon DEF NextStage
  <2> QED
    BY <2>1, <2>2
<1>6. /\ next \in Jobs /\ next.pc = "posting" /\ next.stage = stage
      /\ next.answer = Unanswered(s, stage) /\ next.finding = finding /\ next.windows = windows
      /\ next.tier = job[s].tier
  <2>1. Unanswered(s, stage) \in Answers /\ job[s].answer \in Answers /\ finding \in BOOLEAN
        /\ stage \in 0..4
    BY <1>1, <1>3, UnansweredIs DEF Jobs
  <2>2. PICK j \in Jobs : j = job[s]
    BY <1>1
  <2>3. PICK n \in 0..4 : n = stage
    BY <2>1
  <2>4. PICK answer \in Answers, first \in Answers :
          answer = Unanswered(s, stage) /\ first = job[s].answer
    BY <2>1
  <2>5. PICK found \in BOOLEAN : found = finding
    BY <2>1
  <2>6. PICK list \in Seq(Int) : list = windows
    BY <1>4
  <2>7. next = [j EXCEPT !.stage = n, !.answer = answer, !.first = first, !.finding = found,
                         !.windows = list]
    BY <2>2, <2>3, <2>4, <2>5, <2>6
  <2>8. PICK j1 \in Jobs : j1 = [j EXCEPT !.stage = n, !.answer = answer]
    BY ONLY <2>2, <2>3, <2>4 DEF Jobs
  <2>9. j1.pc = j.pc /\ j1.stage = n /\ j1.answer = answer /\ j1.tier = j.tier
    BY ONLY <2>2, <2>3, <2>4, <2>8 DEF Jobs
  <2>10. PICK j2 \in Jobs : j2 = [j1 EXCEPT !.first = first, !.finding = found]
    BY ONLY <2>4, <2>5, <2>8 DEF Jobs
  <2>11. j2.pc = j.pc /\ j2.stage = n /\ j2.answer = answer /\ j2.tier = j.tier
         /\ j2.finding = found
    BY ONLY <2>4, <2>5, <2>8, <2>9, <2>10 DEF Jobs
  <2>12. next = [j2 EXCEPT !.windows = list]
    BY <2>7, <2>8, <2>10
  <2> HIDE DEF next, stage, finding, windows
  <2>13. /\ next \in Jobs /\ next.pc = j.pc /\ next.stage = n /\ next.answer = answer
         /\ next.finding = found /\ next.windows = list /\ next.tier = j.tier
    BY ONLY <2>6, <2>10, <2>11, <2>12 DEF Jobs
  <2> QED
    BY <1>1, <2>2, <2>3, <2>4, <2>5, <2>6, <2>13
<1>7. finding \in BOOLEAN /\ (~finding => ~job[s].finding /\ ~StageFinding(s))
  BY <1>1 DEF Jobs
<1> HIDE DEF next, finding, windows
<1>8. job'[s] = next
  BY <1>2, <1>5
<1>9. InStage(s)'
  <2>1. /\ LastStage(s)' = LastStage(s) /\ Drafts(s, 1)' = Drafts(s, 1)
        /\ Drafts(s, 3)' = Drafts(s, 3) /\ Drafts(s, stage) = Drafts(s, job'[s].stage)
    BY <1>6, <1>8 DEF LastStage, Drafts
  <2>2. DOMAIN job'[s].answer = Drafts(s, stage)
        /\ \A d \in DOMAIN job'[s].answer : job'[s].answer[d] = "pending"
    BY <1>6, <1>8, UnansweredIs
  <2>3. ~finding => Stored(Drafts(s, 1), windows[1])
    <3>1. CASE job[s].stage = 1
      <4>1. Window(s) = job[s].windows[1]
        BY <1>1, <3>1 DEF InStage, Window
      <4> QED
        BY <1>1, <1>4, <1>7, <3>1, <4>1
    <3>2. CASE job[s].stage >= 2
      BY <1>1, <1>4, <1>7, <3>2 DEF InStage
    <3> QED
      BY <1>1, <3>1, <3>2
  <2>4. ~finding /\ stage = 4 => Stored(Drafts(s, 3), windows[2])
    <3> SUFFICES ASSUME ~finding, stage = 4 PROVE Stored(Drafts(s, 3), windows[2])
      OBVIOUS
    <3>1. job[s].stage = 3
      BY <1>1
    <3>2. Window(s) = job[s].windows[2]
      BY <1>1, <3>1 DEF InStage, Window
    <3> QED
      BY <1>1, <1>4, <1>7, <3>1, <3>2
  <2>5. \A drafts, window : Stored(drafts, window)' = \A d \in drafts' : posted'[d] = {window'}
    BY DEF Stored
  <2>6. ~finding => Stored(Drafts(s, 1), job[s].windows[1])'
    BY <1>2, <1>6, <1>8, <2>1, <2>3 DEF Stored
  <2>7. ~finding /\ stage = 4 => Stored(Drafts(s, 3), job[s].windows[2])'
    BY <1>2, <1>6, <1>8, <2>1, <2>4 DEF Stored
  <2>8. Kind[s] # "seed"
    BY <1>1 DEF InStage
  <2>9. /\ job'[s].stage = stage /\ job'[s].finding = finding
        /\ Len(job'[s].windows) = IF stage <= 2 THEN 1 ELSE 2
    BY <1>4, <1>6, <1>8
  <2>10. Drafts(s, job[s].stage)' = Drafts(s, job'[s].stage)
    BY DEF Drafts
  <2> HIDE DEF stage
  <2> QED
    BY <1>3, <2>1, <2>2, <2>6, <2>7, <2>8, <2>9, <2>10 DEF InStage
<1> QED
  BY <1>2, <1>5, <1>6, <1>9, OneJobMoves

LEMMA ReturnsKeepJobs ==
  ASSUME JobsInv, NEW s \in Scripts, EndOfTransport(s), ~(job[s].stage < LastStage(s)), Return(s)
  PROVE  JobsInv'
<1>1. /\ job[s].pc = "posting" /\ InStage(s) /\ job[s] \in Jobs /\ StageFinding(s) \in BOOLEAN
      /\ job[s].stage \in {1, 2, 3, 4}
      /\ job[s].stage \in {1, 3} /\ ~StageFinding(s)
           => Stored(Drafts(s, job[s].stage), Window(s))
  BY StageEnds
<1>2. /\ job \in [Scripts -> Jobs] /\ clock \in Nat /\ DOMAIN posted = AllDrafts
  BY DEF JobsInv, JobsAreTyped
<1>a. posted' = posted /\ clock' = clock
  <2>1. posted' = posted
    BY Zenon DEF EndOfTransport
  <2>2. clock' = clock
    BY Zenon DEF Return
  <2> QED
    BY <2>1, <2>2
<1>3. PICK outOfBand \in BOOLEAN :
        job' = [job EXCEPT ![s] =
          [@ EXCEPT !.pc = "exited",
                      !.finding = job[s].finding \/ StageFinding(s) \/ outOfBand]]
  <2>1. \E outOfBand \in (IF job[s].stage = 4 THEN BOOLEAN ELSE {FALSE}) :
          job' = [job EXCEPT ![s] =
            [@ EXCEPT !.pc = "exited",
                      !.finding = job[s].finding \/ StageFinding(s) \/ outOfBand]]
    BY Zenon DEF Return
  <2> QED
    BY <2>1, Zenon
<1> DEFINE finding == job[s].finding \/ StageFinding(s) \/ outOfBand
           next == [job[s] EXCEPT !.pc = "exited", !.finding = finding]
<1>4. job' = [job EXCEPT ![s] = next]
  BY <1>2, <1>3
<1>5. finding \in BOOLEAN /\ (~finding => ~job[s].finding /\ ~StageFinding(s))
  BY <1>1 DEF Jobs
<1>6. /\ next \in Jobs /\ next.pc = "exited" /\ next.windows = job[s].windows
      /\ next.finding = finding
  <2>1. PICK found \in BOOLEAN : found = finding
    BY <1>5
  <2>2. PICK j \in Jobs : j = job[s]
    BY <1>1
  <2>3. next = [j EXCEPT !.pc = "exited", !.finding = found]
    BY <2>1, <2>2
  <2> HIDE DEF next, finding
  <2>4. next \in Jobs /\ next.pc = "exited" /\ next.windows = j.windows /\ next.finding = found
    BY ONLY <2>1, <2>2, <2>3 DEF Jobs
  <2> QED
    BY <2>1, <2>2, <2>4
<1> HIDE DEF next, finding
<1>7. job'[s] = next
  BY <1>2, <1>4
<1>8. Passed(s)'
  <2> SUFFICES ASSUME ~finding, NEW i \in DOMAIN job[s].windows
               PROVE  Stored(Drafts(s, 2 * i), job[s].windows[i])
    BY <1>2, <1>6, <1>7, <1>a DEF Passed, Stored, Drafts
  <2>1. job[s].windows \in Seq(Int) /\ job[s].stage \in Int
    BY <1>1 DEF Jobs
  <2>2. job[s].stage = LastStage(s) /\ LastStage(s) # 3 /\ Kind[s] \in {"simulate", "qa"}
    <3>1. LastStage(s) \in {1, 2, 4} /\ job[s].stage \in 1..LastStage(s)
          /\ Kind[s] \in {"simulate", "qa"}
      BY <1>1, BootstrapConstants DEF LastStage, InStage, Jobs
    <3> QED
      BY <3>1
  <2>3. CASE job[s].stage = 1
    <3>1. i = 1 /\ Len(job[s].windows) = 1
      BY <1>1, <2>1, <2>3 DEF InStage
    <3>2. Kind[s] = "simulate"
      BY <1>1, <2>2, <2>3, BootstrapConstants DEF LastStage, Jobs
    <3>3. Drafts(s, 2 * i) = Drafts(s, job[s].stage)
      BY <3>2 DEF Drafts
    <3>4. Window(s) = job[s].windows[i]
      BY <3>1 DEF Window
    <3> QED
      BY <1>1, <1>5, <2>3, <3>3, <3>4
  <2>4. CASE job[s].stage = 2
    <3>1. i = 1 /\ Len(job[s].windows) = 1
      BY <1>1, <2>1, <2>4 DEF InStage
    <3>2. Drafts(s, 2 * i) = Drafts(s, 1)
      BY <2>2, <3>1 DEF Drafts
    <3>3. Stored(Drafts(s, 1), job[s].windows[1])
      BY <1>1, <1>5, <2>4 DEF InStage
    <3> QED
      BY <3>1, <3>2, <3>3
  <2>5. CASE job[s].stage = 4
    <3>1. (i = 1 \/ i = 2) /\ Len(job[s].windows) = 2
      BY <1>1, <2>1, <2>5 DEF InStage
    <3>2. Drafts(s, 2) = Drafts(s, 1) /\ Drafts(s, 4) = Drafts(s, 3)
      BY <2>2 DEF Drafts
    <3>3. Stored(Drafts(s, 1), job[s].windows[1]) /\ Stored(Drafts(s, 3), job[s].windows[2])
      BY <1>1, <1>5, <2>5 DEF InStage
    <3>4. CASE i = 1
      <4>1. Drafts(s, 2 * i) = Drafts(s, 2)
        BY <3>4
      <4> QED
        BY <3>2, <3>3, <3>4, <4>1
    <3>5. CASE i = 2
      <4>1. Drafts(s, 2 * i) = Drafts(s, 4)
        BY <3>5
      <4> QED
        BY <3>2, <3>3, <3>5, <4>1
    <3> QED
      BY <3>1, <3>4, <3>5
  <2> QED
    BY <1>1, <2>2, <2>3, <2>4, <2>5
<1> QED
  BY <1>2, <1>4, <1>6, <1>8, <1>a, OneJobMoves

-----------------------------------------------------------------------------
(* No statement is skipped. *)

LEMMA HeadOrTail ==
  ASSUME NEW q \in Seq(Statements), q # << >>, NEW key
  PROVE  SeesTo(q, key) <=> \/ SeesTo(Tail(q), key)
                            \/ Head(q).do \in Inserting /\ Head(q).key = key
                            \/ Head(q).do \in {"ensure", "resolve"} /\ key \in Reasons
<1>1. /\ Len(q) \in Nat \ {0} /\ DOMAIN q = 1..Len(q) /\ DOMAIN Tail(q) = 1..(Len(q) - 1)
      /\ Head(q) = q[1] /\ \A i \in 1..(Len(q) - 1) : Tail(q)[i] = q[i + 1]
  BY HeadAndTail
<1>2. \A i \in DOMAIN q : i = 1 \/ (i - 1 \in DOMAIN Tail(q) /\ q[i] = Tail(q)[i - 1])
  <2>1. ASSUME NEW i \in DOMAIN q, i # 1
        PROVE  i - 1 \in 1..(Len(q) - 1) /\ (i - 1) + 1 = i
    BY <1>1, <2>1
  <2> QED
    BY <1>1, <2>1
<1>3. 1 \in DOMAIN q /\ \A i \in DOMAIN Tail(q) : i + 1 \in DOMAIN q /\ Tail(q)[i] = q[i + 1]
  BY <1>1
<1> QED
  BY <1>1, <1>2, <1>3 DEF SeesTo

LEMMA NothingSeesToNothing == ASSUME NEW key PROVE ~SeesTo(<< >>, key)
BY DEF SeesTo

(* Every key a script names is looked up or inserted by the statement.      *)
NamesWhatItInserts(q) ==
  q \in Seq(Statements) /\ \A i \in DOMAIN q : q[i].do \in Inserting \/ q[i].key = None

LEMMA NamesAppended ==
  ASSUME NEW p, NamesWhatItInserts(p), NEW q, NamesWhatItInserts(q)
  PROVE  NamesWhatItInserts(p \o q)
<1>1. p \in Seq(Statements) /\ q \in Seq(Statements)
  BY DEF NamesWhatItInserts
<1>2. /\ p \o q \in Seq(Statements) /\ Len(p \o q) = Len(p) + Len(q)
      /\ Len(p) \in Nat /\ Len(q) \in Nat
      /\ \A i \in 1..(Len(p) + Len(q)) :
           (p \o q)[i] = IF i <= Len(p) THEN p[i] ELSE q[i - Len(p)]
  BY <1>1, Concatenation
<1>3. PICK r \in Seq(Statements) : r = p \o q
  BY <1>2
<1>4. DOMAIN r = 1..(Len(p) + Len(q)) /\ DOMAIN p = 1..Len(p) /\ DOMAIN q = 1..Len(q)
  BY <1>1, <1>2, <1>3
<1>5. ASSUME NEW i \in DOMAIN r PROVE r[i].do \in Inserting \/ r[i].key = None
  <2>1. CASE i <= Len(p)
    <3>1. i \in DOMAIN p /\ r[i] = p[i]
      BY <1>2, <1>3, <1>4, <2>1
    <3> QED
      BY <3>1 DEF NamesWhatItInserts
  <2>2. CASE ~(i <= Len(p))
    <3>1. i - Len(p) \in DOMAIN q /\ r[i] = q[i - Len(p)]
      BY <1>2, <1>3, <1>4, <2>2
    <3> QED
      BY <3>1 DEF NamesWhatItInserts
  <2> QED
    BY <2>1, <2>2
<1> QED
  BY <1>3, <1>5 DEF NamesWhatItInserts

LEMMA TopologyNamesWhatItInserts ==
  NamesWhatItInserts(Topology) /\ \A i \in DOMAIN Topology : Topology[i].do # "ensure"
<1> DEFINE gets == Do("get", SimTopology)
           commit == Do("commit", <<None>>)
<1>1. /\ gets \in Seq(Statements) /\ Len(gets) = Len(SimTopology)
      /\ \A i \in 1..Len(SimTopology) : gets[i] = [do |-> "get", key |-> SimTopology[i]]
  <2>1. SimTopology \in Seq(Keys) /\ Keys \subseteq Keys \union {None}
        /\ "get" \in {"get", "insert", "create", "ensure", "resolve", "commit"}
    BY LinesAndShifts
  <2> QED
    BY ONLY <2>1, DoIsASequence
<1>2. commit = <<[do |-> "commit", key |-> None]>>
      /\ [do |-> "commit", key |-> None] \in Statements
  BY DEF Do, Statements
<1>3. commit \in Seq(Statements) /\ Len(commit) = 1
      /\ \A i \in DOMAIN commit : commit[i].key = None /\ commit[i].do = "commit"
  <2> HIDE DEF commit
  <2>1. PICK st \in Statements : st = [do |-> "commit", key |-> None]
    BY <1>2
  <2>2. commit = <<st>> /\ st.key = None /\ st.do = "commit"
    BY <1>2, <2>1
  <2> QED
    BY ONLY <2>1, <2>2
<1> HIDE DEF gets, commit
<1>4. \A i \in DOMAIN gets : gets[i].do = "get"
  <2>1. DOMAIN gets = 1..Len(SimTopology)
    BY <1>1
  <2> QED
    BY <1>1, <2>1
<1>5. NamesWhatItInserts(gets) /\ NamesWhatItInserts(commit)
  BY <1>1, <1>3, <1>4 DEF NamesWhatItInserts, Inserting
<1>6. Topology = gets \o commit
  BY DEF Topology, gets, commit
<1>7. NamesWhatItInserts(Topology)
  BY <1>5, <1>6, NamesAppended
<1>8. ASSUME NEW i \in DOMAIN Topology PROVE Topology[i].do # "ensure"
  <2>1. /\ gets \o commit \in Seq(Statements) /\ Len(gets \o commit) = Len(gets) + Len(commit)
        /\ Len(gets) \in Nat /\ Len(commit) \in Nat
        /\ \A j \in 1..(Len(gets) + Len(commit)) :
             (gets \o commit)[j] = IF j <= Len(gets) THEN gets[j] ELSE commit[j - Len(gets)]
    BY <1>1, <1>3, Concatenation
  <2>2. DOMAIN Topology = 1..(Len(gets) + Len(commit))
        /\ DOMAIN gets = 1..Len(gets) /\ DOMAIN commit = 1..Len(commit)
    BY <1>1, <1>3, <1>6, <2>1
  <2>3. CASE i <= Len(gets)
    <3>1. i \in DOMAIN gets /\ Topology[i] = gets[i]
      BY <1>6, <2>1, <2>2, <2>3
    <3> QED
      BY <1>4, <3>1
  <2>4. CASE ~(i <= Len(gets))
    <3>1. i - Len(gets) \in DOMAIN commit /\ Topology[i] = commit[i - Len(gets)]
      BY <1>6, <2>1, <2>2, <2>4
    <3> QED
      BY <1>3, <3>1
  <2> QED
    BY <2>3, <2>4
<1> QED
  BY <1>7, <1>8

LEMMA ScriptsSeeToWhatTheyNeed ==
  ASSUME NEW s \in Scripts
  PROVE  /\ \A key \in Needed(s) : SeesTo(Script(s), key)
         /\ \A i \in DOMAIN Script(s) : Script(s)[i].do = "ensure" => i = Len(Script(s))
<1>1. CASE Kind[s] = "seed"
  <2>1. Script(s) = SeedScript
    BY <1>1 DEF Script
  <2>2. /\ SeedScript \in Seq(Statements) /\ DOMAIN SeedScript = 1..Length /\ Length \in Nat
        /\ SeedScript[Length] = [do |-> "commit", key |-> None]
        /\ \A i \in 1..(Length - 1) : SeedScript[i].do \in {"get", "create"}
    BY SeedScriptIs
  <2>3. \A i \in 1..Length : i = Length \/ i \in 1..(Length - 1)
    BY <2>2
  <2>4. ASSUME NEW key \in Needed(s) PROVE SeesTo(SeedScript, key)
    <3>1. key \in Keys /\ \E i \in DOMAIN SeedScript : SeedScript[i].key = key
      BY <1>1, <2>1 DEF Needed
    <3>2. PICK i \in DOMAIN SeedScript : SeedScript[i].key = key
      BY <3>1
    <3>3. i # Length
      BY <2>2, <3>1, <3>2, NoneIsNoKey
    <3>4. SeedScript[i].do \in Inserting
      BY <2>2, <2>3, <3>2, <3>3 DEF Inserting
    <3> QED
      BY <3>2, <3>4 DEF SeesTo
  <2>5. \A i \in DOMAIN SeedScript : SeedScript[i].do # "ensure"
    BY <2>2, <2>3
  <2> QED
    BY <2>1, <2>4, <2>5
<1>2. ASSUME Kind[s] # "seed", NEW what \in {"ensure", "resolve"},
             Script(s) = Topology \o Do(what, <<None>>)
      PROVE  /\ \A key \in Needed(s) : SeesTo(Script(s), key)
             /\ \A i \in DOMAIN Script(s) : Script(s)[i].do = "ensure" => i = Len(Script(s))
  <2>1. PICK st \in Statements : st = [do |-> what, key |-> None]
    BY DEF Statements
  <2>2. PICK last \in Seq(Statements) : last = <<st>>
    <3>1. <<st>> \in Seq(Statements)
      BY <2>1
    <3> QED
      BY <3>1, Zenon
  <2>3. Do(what, <<None>>) = last
    BY <2>1, <2>2 DEF Do
  <2>4. Topology \in Seq(Statements)
    BY TopologyNamesWhatItInserts DEF NamesWhatItInserts
  <2>5. PICK q \in Seq(Statements) : q = Topology \o last
    <3>1. Topology \o last \in Seq(Statements)
      BY <2>2, <2>4
    <3> QED
      BY <3>1, Zenon
  <2>6. /\ Len(q) = Len(Topology) + Len(last) /\ Len(Topology) \in Nat
        /\ \A i \in 1..(Len(Topology) + Len(last)) :
             q[i] = IF i <= Len(Topology) THEN Topology[i] ELSE last[i - Len(Topology)]
    <3>1. /\ Len(Topology \o last) = Len(Topology) + Len(last) /\ Len(Topology) \in Nat
          /\ \A i \in 1..(Len(Topology) + Len(last)) :
               (Topology \o last)[i] =
                 IF i <= Len(Topology) THEN Topology[i] ELSE last[i - Len(Topology)]
      BY <2>2, <2>4, Concatenation
    <3> QED
      BY ONLY <2>5, <3>1
  <2>7. Len(last) = 1 /\ last[1] = st /\ st.do = what /\ st.key = None
    BY <2>1, <2>2
  <2>8. /\ DOMAIN q = 1..Len(q) /\ Len(q) = Len(Topology) + 1 /\ q[Len(q)] = st
        /\ \A i \in DOMAIN q : i # Len(q) => i \in DOMAIN Topology /\ q[i] = Topology[i]
    <3>1. DOMAIN q = 1..Len(q) /\ Len(q) = Len(Topology) + 1
          /\ DOMAIN Topology = 1..Len(Topology)
      BY <2>4, <2>5, <2>6, <2>7
    <3>2. /\ Len(Topology) + 1 \in 1..(Len(Topology) + Len(last))
          /\ ~(Len(Topology) + 1 <= Len(Topology))
          /\ (Len(Topology) + 1) - Len(Topology) = 1
      BY <2>6, <2>7
    <3>3. q[Len(q)] = st
      BY <2>6, <2>7, <3>1, <3>2
    <3>4. ASSUME NEW i \in DOMAIN q, i # Len(q)
          PROVE  i \in DOMAIN Topology /\ q[i] = Topology[i]
      <4>1. i \in 1..Len(q) /\ i # Len(q) /\ Len(q) = Len(Topology) + 1
            /\ Len(Topology) \in Nat /\ Len(last) = 1
        BY <2>6, <2>7, <3>1, <3>4
      <4>2. i \in 1..Len(Topology) /\ i <= Len(Topology)
            /\ i \in 1..(Len(Topology) + Len(last))
        BY ONLY <4>1
      <4> QED
        BY <2>6, <3>1, <4>2
    <3> QED
      BY <3>1, <3>3, <3>4
  <2>9. Script(s) = q
    BY <1>2, <2>3, <2>5
  <2>10. Len(q) \in DOMAIN q
    BY <2>6, <2>8
  <2>11. ASSUME NEW key \in Needed(s) PROVE SeesTo(q, key)
    <3>1. CASE key \in Reasons
      BY <2>7, <2>8, <2>10, <3>1 DEF SeesTo
    <3>2. CASE key \notin Reasons
      <4>1. key \in Keys /\ \E i \in DOMAIN q : q[i].key = key
        BY <2>9, <3>2 DEF Needed
      <4>2. PICK i \in DOMAIN q : q[i].key = key
        BY <4>1
      <4>3. i # Len(q)
        BY <2>7, <2>8, <4>1, <4>2, NoneIsNoKey
      <4>4. q[i].do \in Inserting
        BY <2>8, <4>1, <4>2, <4>3, NoneIsNoKey, TopologyNamesWhatItInserts
           DEF NamesWhatItInserts
      <4> QED
        BY <4>2, <4>4 DEF SeesTo
    <3> QED
      BY <3>1, <3>2
  <2>12. \A i \in DOMAIN q : q[i].do = "ensure" => i = Len(q)
    BY <2>8, TopologyNamesWhatItInserts
  <2> QED
    BY <2>9, <2>11, <2>12
<1> QED
  BY <1>1, <1>2, BootstrapConstants DEF Script

(* One script moves, and rows stay.                                         *)
LEMMA OneScriptMoves ==
  ASSUME NothingIsSkipped, NEW s \in Scripts,
         \A t \in Scripts \ {s} :
           own'[t] = own[t] /\ todo'[t] = todo[t] /\ job'[t].pc = job[t].pc,
         \A key \in Keys : rows[key] > 0 => rows'[key] > 0,
         \A key \in Needed(s) :
           /\ job'[s].pc = "sql" =>
                \/ key \in own'[s] \/ rows'[key] > 0
                \/ SeesTo(todo'[s], key)
           /\ job'[s].pc \in {"posting", "exited"} => rows'[key] > 0
  PROVE  NothingIsSkipped'
<1>1. \A t \in Scripts : Needed(t) \subseteq Keys
  BY LinesAndShifts DEF Needed
<1> SUFFICES ASSUME NEW t \in Scripts, NEW key \in Needed(t)
             PROVE  /\ job'[t].pc = "sql" => \/ key \in own'[t] \/ rows'[key] > 0
                                             \/ SeesTo(todo'[t], key)
                    /\ job'[t].pc \in {"posting", "exited"} => rows'[key] > 0
  BY DEF NothingIsSkipped, Has, SeesTo
<1>2. CASE t = s
  BY <1>2
<1>3. CASE t # s
  <2>1. own'[t] = own[t] /\ todo'[t] = todo[t] /\ job'[t].pc = job[t].pc
    BY <1>3
  <2>2. /\ job[t].pc = "sql" => key \in own[t] \/ rows[key] > 0 \/ SeesTo(todo[t], key)
        /\ job[t].pc \in {"posting", "exited"} => rows[key] > 0
    BY DEF NothingIsSkipped, Has
  <2>3. rows[key] > 0 => rows'[key] > 0
    BY <1>1
  <2> QED
    BY <2>1, <2>2, <2>3
<1> QED
  BY <1>2, <1>3

(* A statement of s, which stays in its session.                            *)
LEMMA OneStatement ==
  ASSUME IInv, PassInv, NEW s \in Scripts, NEW mine, NEW left,
         job[s].pc = "sql", job' = job,
         own' = [own EXCEPT ![s] = mine], todo' = [todo EXCEPT ![s] = left],
         \A key \in Keys : rows[key] > 0 => rows'[key] > 0,
         \A key \in Keys : key \in own[s] => key \in mine \/ rows'[key] > 0,
         \A key \in Keys : SeesTo(todo[s], key) => \/ key \in mine \/ rows'[key] > 0
                                                   \/ SeesTo(left, key),
         \A i \in DOMAIN left : left[i].do = "ensure" => i = Len(left)
  PROVE  EnsureIsLast' /\ NothingIsSkipped'
<1>1. /\ own'[s] = mine /\ todo'[s] = left
      /\ \A t \in Scripts \ {s} : own'[t] = own[t] /\ todo'[t] = todo[t]
  BY DEF IInv, Typed
<1>2. EnsureIsLast'
  BY <1>1 DEF PassInv, EnsureIsLast
<1>3. Needed(s) \subseteq Keys
  BY LinesAndShifts DEF Needed
<1>4. ASSUME NEW key \in Needed(s)
      PROVE  key \in mine \/ rows'[key] > 0 \/ SeesTo(left, key)
  <2>1. key \in own[s] \/ rows[key] > 0 \/ SeesTo(todo[s], key)
    BY DEF PassInv, NothingIsSkipped, Has
  <2> QED
    BY <1>3, <2>1
<1>5. NothingIsSkipped
  BY DEF PassInv
<1> QED
  BY <1>1, <1>2, <1>4, <1>5, OneScriptMoves

(* Moving on to the next statement.                                         *)
LEMMA NextIsDone ==
  ASSUME IInv, PassInv, NEW s \in Scripts, NEW mine, job[s].pc = "sql", job' = job, todo[s] # << >>,
         own' = [own EXCEPT ![s] = mine], todo' = [todo EXCEPT ![s] = Tail(todo[s])],
         \A key \in Keys : rows[key] > 0 => rows'[key] > 0,
         \A key \in Keys : key \in own[s] => key \in mine \/ rows'[key] > 0,
         Next1(s).do \in Inserting => Next1(s).key \in mine \/ rows'[Next1(s).key] > 0,
         Next1(s).do \in {"ensure", "resolve"} =>
           \A key \in Reasons : key \in mine \/ rows'[key] > 0
  PROVE  EnsureIsLast' /\ NothingIsSkipped'
<1>1. todo[s] \in Seq(Statements)
  BY DEF IInv, Typed
<1>2. \A key \in Keys : SeesTo(todo[s], key) => \/ key \in mine \/ rows'[key] > 0
                                                \/ SeesTo(Tail(todo[s]), key)
  BY <1>1, HeadOrTail DEF Next1
<1>3. ASSUME NEW i \in DOMAIN Tail(todo[s]), Tail(todo[s])[i].do = "ensure"
      PROVE  i = Len(Tail(todo[s]))
  <2>1. /\ Len(todo[s]) \in Nat \ {0} /\ Len(Tail(todo[s])) = Len(todo[s]) - 1
        /\ DOMAIN todo[s] = 1..Len(todo[s]) /\ DOMAIN Tail(todo[s]) = 1..(Len(todo[s]) - 1)
        /\ \A j \in 1..(Len(todo[s]) - 1) : Tail(todo[s])[j] = todo[s][j + 1]
    BY <1>1, HeadAndTail
  <2>2. i + 1 \in DOMAIN todo[s] /\ todo[s][i + 1].do = "ensure" /\ i \in Int
    BY <1>3, <2>1
  <2>3. i + 1 = Len(todo[s])
    BY <2>2 DEF PassInv, EnsureIsLast
  <2> QED
    BY <2>1, <2>2, <2>3
<1> QED
  BY <1>2, <1>3, OneStatement

LEMMA GetSkipsNothing ==
  ASSUME IInv, PassInv, NEW s \in Scripts, Get(s)
  PROVE  EnsureIsLast' /\ NothingIsSkipped'
<1> DEFINE key == Next1(s).key
           left == Do("insert", <<key>>) \o Tail(todo[s])
<1>1. /\ job[s].pc = "sql" /\ todo[s] # << >> /\ Next1(s).do = "get" /\ UNCHANGED <<rows, own, job>>
      /\ todo[s] \in Seq(Statements) /\ own \in [Scripts -> SUBSET Keys]
  BY DEF Get, Ready, IInv, Typed
<1>2. own' = [own EXCEPT ![s] = own[s]]
  BY <1>1
<1>3. CASE Visible(s, key)
  <2>1. todo' = [todo EXCEPT ![s] = Tail(todo[s])]
    BY <1>3 DEF Get, Done
  <2>2. key \in own[s] \/ rows[key] > 0
    BY <1>3 DEF Visible
  <2> HIDE DEF key
  <2>3. Next1(s).do \notin {"ensure", "resolve"}
    BY <1>1
  <2> QED
    BY <1>1, <1>2, <2>1, <2>2, <2>3, NextIsDone DEF key
<1>4. CASE ~Visible(s, key)
  <2>1. todo' = [todo EXCEPT ![s] = left]
    BY <1>4 DEF Get
  <2>2. "get" \in Inserting /\ "get" \notin {"ensure", "resolve"} /\ "insert" \in Inserting
    BY DEF Inserting
  <2>3. WellFormed(Tail(todo[s])) /\ Commits(Tail(todo[s])) /\ key \in Keys
    BY <1>1, <2>2, NextStatement
  <2>4. /\ WellFormed(left) /\ left # << >> /\ Tail(left) = Tail(todo[s])
        /\ Head(left) = [do |-> "insert", key |-> key]
    BY <2>3, InsertFirst
  <2>5. left \in Seq(Statements)
    BY <2>4 DEF WellFormed
  <2> HIDE DEF left, key
  <2>6. Head(left).do = "insert" /\ Head(left).key = key
    BY <2>4
  <2>7. ASSUME NEW k \in Keys, SeesTo(todo[s], k) PROVE SeesTo(left, k)
    BY <1>1, <2>2, <2>4, <2>5, <2>6, <2>7, HeadOrTail DEF Next1, key
  <2>8. ASSUME NEW i \in DOMAIN left, left[i].do = "ensure" PROVE i = Len(left)
    <3>1. /\ Len(left) \in Nat \ {0} /\ Len(Tail(left)) = Len(left) - 1
          /\ DOMAIN left = 1..Len(left) /\ DOMAIN Tail(left) = 1..(Len(left) - 1)
          /\ Head(left) = left[1]
          /\ \A j \in 1..(Len(left) - 1) : Tail(left)[j] = left[j + 1]
      BY <2>4, <2>5, HeadAndTail
    <3>2. /\ Len(todo[s]) \in Nat \ {0} /\ Len(Tail(todo[s])) = Len(todo[s]) - 1
          /\ DOMAIN todo[s] = 1..Len(todo[s])
          /\ \A j \in 1..(Len(todo[s]) - 1) : Tail(todo[s])[j] = todo[s][j + 1]
      BY <1>1, HeadAndTail
    <3>3. i # 1
      BY <2>6, <2>8, <3>1
    <3>4. Len(left) = Len(todo[s])
      BY <2>4, <3>1, <3>2
    <3>5. i - 1 \in 1..(Len(left) - 1) /\ (i - 1) + 1 = i
      BY <3>1, <3>3
    <3>6. left[i] = Tail(left)[i - 1]
      BY <3>1, <3>5
    <3>7. left[i] = todo[s][i]
      BY <2>4, <3>2, <3>4, <3>5, <3>6
    <3>8. i \in DOMAIN todo[s]
      BY <3>1, <3>2, <3>4
    <3> QED
      BY <2>8, <3>4, <3>7, <3>8 DEF PassInv, EnsureIsLast
  <2> QED
    BY <1>1, <1>2, <2>1, <2>7, <2>8, OneStatement
<1> QED
  BY <1>3, <1>4

LEMMA InsertSkipsNothing ==
  ASSUME IInv, PassInv, NEW s \in Scripts, ~Crash(s), Insert(s)
  PROVE  EnsureIsLast' /\ NothingIsSkipped'
<1> DEFINE mine == own[s] \union {Next1(s).key}
<1>1. /\ job[s].pc = "sql" /\ todo[s] # << >> /\ Next1(s).do = "insert" /\ UNCHANGED <<rows, job>>
      /\ todo' = [todo EXCEPT ![s] = Tail(todo[s])] /\ own' = [own EXCEPT ![s] = mine]
  BY DEF Insert, Ready, Done
<1>2. Next1(s).key \in mine /\ \A key \in own[s] : key \in mine
  OBVIOUS
<1> HIDE DEF mine
<1>3. Next1(s).do \notin {"ensure", "resolve"}
  BY <1>1
<1> QED
  BY <1>1, <1>2, <1>3, NextIsDone

LEMMA CreateSkipsNothing ==
  ASSUME IInv, PassInv, NEW s \in Scripts, Create(s)
  PROVE  EnsureIsLast' /\ NothingIsSkipped'
<1> DEFINE mine == IF Visible(s, Next1(s).key) THEN own[s] ELSE own[s] \union {Next1(s).key}
<1>1. /\ job[s].pc = "sql" /\ todo[s] # << >> /\ Next1(s).do = "create" /\ UNCHANGED <<rows, job>>
      /\ todo' = [todo EXCEPT ![s] = Tail(todo[s])] /\ own' = [own EXCEPT ![s] = mine]
  BY DEF Create, Ready, Done
<1>2. /\ Next1(s).key \in mine \/ rows[Next1(s).key] > 0
      /\ \A key \in own[s] : key \in mine
  BY DEF Visible
<1> HIDE DEF mine
<1>3. Next1(s).do \notin {"ensure", "resolve"}
  BY <1>1
<1> QED
  BY <1>1, <1>2, <1>3, NextIsDone

LEMMA ResolveSkipsNothing ==
  ASSUME IInv, PassInv, NEW s \in Scripts, ~Crash(s), Resolve(s)
  PROVE  EnsureIsLast' /\ NothingIsSkipped'
<1>1. /\ job[s].pc = "sql" /\ todo[s] # << >> /\ Next1(s).do = "resolve"
      /\ UNCHANGED <<rows, own, job>> /\ todo' = [todo EXCEPT ![s] = Tail(todo[s])]
      /\ \A code \in Reasons : code \in own[s] \/ rows[code] > 0
  BY DEF Resolve, Ready, Done, Visible
<1>2. own' = [own EXCEPT ![s] = own[s]]
  BY <1>1 DEF IInv, Typed
<1>3. Next1(s).do \notin Inserting
  BY <1>1 DEF Inserting
<1> QED
  BY <1>1, <1>2, <1>3, NextIsDone

LEMMA CommitSkipsNothing ==
  ASSUME IInv, PassInv, NEW s \in Scripts, Commit(s)
  PROVE  EnsureIsLast' /\ NothingIsSkipped'
<1>1. /\ job[s].pc = "sql" /\ todo[s] # << >> /\ Next1(s).do = "commit" /\ job' = job
      /\ rows' = [key \in Keys |-> rows[key] + IF key \in own[s] THEN 1 ELSE 0]
      /\ own' = [own EXCEPT ![s] = {}] /\ todo' = [todo EXCEPT ![s] = Tail(todo[s])]
  BY DEF Commit, Ready, Done
<1>2. rows \in [Keys -> Nat]
  BY DEF IInv, Typed
<1>3. /\ \A key \in Keys : rows[key] > 0 => rows'[key] > 0
      /\ \A key \in Keys : key \in own[s] => rows'[key] > 0
  BY <1>1, <1>2
<1>4. Next1(s).do \notin Inserting /\ Next1(s).do \notin {"ensure", "resolve"}
  BY <1>1 DEF Inserting
<1> QED
  BY <1>1, <1>3, <1>4, NextIsDone

(* What the simulator's catalogue lacked is now inserted, all of it.        *)
LEMMA MissingIsLacking ==
  ASSUME NEW lacking, lacking \subseteq Reasons,
         NEW missing \in [1..Cardinality(lacking) -> lacking],
         \A i, j \in DOMAIN missing : i < j => Place(missing[i]) < Place(missing[j])
  PROVE  \A code \in lacking : \E i \in 1..Cardinality(lacking) : missing[i] = code
<1>1. IsFiniteSet(Reasons)
  <2>1. Catalog \in Seq(Keys)
    BY LinesAndShifts
  <2>2. IsFiniteSet(1..Len(Catalog))
    BY <2>1, FS_Interval
  <2>3. Catalog \in Surjection(1..Len(Catalog), Reasons)
    BY <2>1 DEF Surjection, Reasons, Range
  <2> QED
    BY <2>2, <2>3, FS_Surjection
<1>2. IsFiniteSet(lacking) /\ Cardinality(lacking) \in Nat
  BY <1>1, FS_Subset, FS_CardinalityType
<1>3. PICK n \in Nat : n = Cardinality(lacking)
  BY <1>2
<1>4. IsFiniteSet(1..n) /\ Cardinality(1..n) = n
  <2>1. 1 \in Int /\ n \in Int
    OBVIOUS
  <2>2. /\ IsFiniteSet(1..n)
        /\ Cardinality(1..n) = IF 1 > n THEN 0 ELSE n - 1 + 1
    BY ONLY <2>1, FS_Interval
  <2> QED
    BY <2>2
<1>5. \A code \in Reasons : Place(code) \in Int
  <2>1. CatalogSorted \in Seq(Range(CatalogSorted)) /\ Range(CatalogSorted) = Reasons
    BY KeysAreApart, BootstrapConstants DEF Reasons
  <2>2. ASSUME NEW code \in Reasons PROVE Place(code) \in DOMAIN CatalogSorted
    <3>1. \E i \in DOMAIN CatalogSorted : CatalogSorted[i] = code
      BY <2>1 DEF Range
    <3> QED
      BY <3>1 DEF Place
  <2>3. DOMAIN CatalogSorted = 1..Len(CatalogSorted) /\ Len(CatalogSorted) \in Nat
    BY <2>1
  <2> QED
    BY <2>2, <2>3
<1>6. missing \in [1..n -> lacking]
  BY <1>3
<1>7. missing \in Injection(1..n, lacking)
  <2>1. ASSUME NEW i \in 1..n, NEW j \in 1..n, missing[i] = missing[j] PROVE i = j
    <3>1. ASSUME NEW a \in 1..n, NEW b \in 1..n, a < b PROVE missing[a] # missing[b]
      <4>1. Place(missing[a]) < Place(missing[b])
        BY <1>6, <3>1
      <4>2. missing[a] \in Reasons /\ missing[b] \in Reasons
        BY <1>6
      <4>3. Place(missing[a]) \in Int /\ Place(missing[b]) \in Int
        BY <1>5, <4>2
      <4> QED
        BY <4>1, <4>3
    <3>2. i < j \/ j < i \/ i = j
      OBVIOUS
    <3> QED
      BY <2>1, <3>1, <3>2
  <2> QED
    BY <1>6, <2>1 DEF Injection, IsInjective
<1>8. missing \in Surjection(1..n, lacking)
  BY <1>2, <1>3, <1>4, <1>7, FS_Injection
<1> QED
  BY <1>3, <1>8 DEF Surjection

LEMMA EnsureSkipsNothing ==
  ASSUME IInv, PassInv, NEW s \in Scripts, Ensure(s)
  PROVE  EnsureIsLast' /\ NothingIsSkipped'
<1> DEFINE lacking == {code \in Reasons : ~Visible(s, code)}
<1>1. /\ job[s].pc = "sql" /\ todo[s] # << >> /\ Next1(s).do = "ensure"
      /\ UNCHANGED <<rows, own, job>> /\ todo[s] \in Seq(Statements)
  BY DEF Ensure, Ready, IInv, Typed
<1>2. PICK missing \in [1..Cardinality(lacking) -> lacking] :
        /\ \A i, j \in DOMAIN missing : i < j => Place(missing[i]) < Place(missing[j])
        /\ todo' = [todo EXCEPT ![s] = Do("insert", missing) \o Do("commit", <<None>>)]
  BY DEF Ensure
<1>3. lacking \subseteq Reasons /\ lacking \subseteq Keys
  BY LinesAndShifts
<1>4. \A code \in lacking : \E i \in 1..Cardinality(lacking) : missing[i] = code
  BY <1>2, <1>3, MissingIsLacking
<1>5. \A code \in Reasons \ lacking : code \in own[s] \/ rows[code] > 0
  BY DEF Visible
<1>6. Cardinality(lacking) \in Nat
  <2>1. IsFiniteSet(Reasons)
    <3>1. Catalog \in Seq(Keys)
      BY LinesAndShifts
    <3>2. IsFiniteSet(1..Len(Catalog))
      BY <3>1, FS_Interval
    <3>3. Catalog \in Surjection(1..Len(Catalog), Reasons)
      BY <3>1 DEF Surjection, Reasons, Range
    <3> QED
      BY <3>2, <3>3, FS_Surjection
  <2> QED
    BY <1>3, <2>1, FS_Subset, FS_CardinalityType
<1> HIDE DEF lacking
<1>7. PICK n \in Nat : n = Cardinality(lacking)
  BY <1>6
<1>8. PICK m \in Seq(lacking) : m = missing
  BY <1>2, <1>6
<1>9. Len(m) = n /\ m \in [1..n -> lacking]
  BY <1>2, <1>7, <1>8
<1> DEFINE a == Do("insert", m)
           b == Do("commit", <<None>>)
<1>10. /\ a \in Seq(Statements) /\ Len(a) = n
       /\ \A i \in 1..n : a[i] = [do |-> "insert", key |-> m[i]]
  <2>1. lacking \subseteq Keys \union {None}
        /\ "insert" \in {"get", "insert", "create", "ensure", "resolve", "commit"}
    BY <1>3
  <2>2. m \in Seq(lacking)
    BY <1>8
  <2> QED
    BY ONLY <1>9, <2>1, <2>2, DoIsASequence
<1>11. b \in Seq(Statements) /\ Len(b) = 1 /\ b[1].do = "commit"
  <2>1. PICK st \in Statements : st = [do |-> "commit", key |-> None]
    BY DEF Statements
  <2>2. b = <<st>> /\ st.do = "commit"
    BY <2>1 DEF Do
  <2> HIDE DEF b
  <2> QED
    BY ONLY <2>1, <2>2
<1>12. todo' = [todo EXCEPT ![s] = a \o b]
  BY <1>2, <1>8
<1> HIDE DEF a, b
<1>13. \A i \in 1..n : a[i].do = "insert" /\ a[i].key = m[i]
  BY <1>10
<1>14. PICK q \in Seq(Statements) : q = a \o b
  <2>1. a \o b \in Seq(Statements)
    BY <1>10, <1>11
  <2> QED
    BY <2>1, Zenon
<1>15. /\ Len(q) = n + 1
       /\ \A i \in 1..(n + 1) : q[i] = IF i <= n THEN a[i] ELSE b[i - n]
  <2>1. /\ Len(a \o b) = Len(a) + Len(b)
        /\ \A i \in 1..(Len(a) + Len(b)) :
             (a \o b)[i] = IF i <= Len(a) THEN a[i] ELSE b[i - Len(a)]
    BY <1>10, <1>11, Concatenation
  <2> QED
    BY <1>10, <1>11, <1>14, <2>1
<1>16. DOMAIN q = 1..(n + 1)
  BY <1>15
<1>17. \A i \in 1..n : i \in DOMAIN q /\ q[i].do = "insert" /\ q[i].key = m[i]
  <2>1. \A i \in 1..n : i \in 1..(n + 1) /\ i <= n
    OBVIOUS
  <2> QED
    BY <1>13, <1>15, <1>16, <2>1
<1>18. q[n + 1].do = "commit"
  <2>1. n + 1 \in 1..(n + 1) /\ ~(n + 1 <= n) /\ (n + 1) - n = 1
    OBVIOUS
  <2> QED
    BY <1>11, <1>15, <2>1
<1>19. \A i \in DOMAIN q : q[i].do # "ensure"
  <2>1. \A i \in DOMAIN q : i = n + 1 \/ i \in 1..n
    BY <1>16
  <2> QED
    BY <1>17, <1>18, <2>1
<1>20. ASSUME NEW key \in Reasons
       PROVE  key \in own[s] \/ rows'[key] > 0 \/ SeesTo(q, key)
  <2>1. CASE key \in lacking
    <3>1. PICK i \in 1..n : m[i] = key
      BY <1>4, <1>7, <1>8, <2>1
    <3> QED
      BY <1>17, <3>1 DEF SeesTo, Inserting
  <2>2. CASE key \notin lacking
    BY <1>1, <1>5, <2>2
  <2> QED
    BY <2>1, <2>2
<1>21. ASSUME NEW key \in Keys, SeesTo(todo[s], key)
       PROVE  key \in own[s] \/ rows'[key] > 0 \/ SeesTo(q, key)
  <2>1. /\ Len(todo[s]) \in Nat \ {0} /\ DOMAIN todo[s] = 1..Len(todo[s])
        /\ Next1(s) = todo[s][1]
    BY <1>1, HeadAndTail DEF Next1
  <2>2. Len(todo[s]) = 1
    <3>1. 1 \in DOMAIN todo[s] /\ todo[s][1].do = "ensure"
      BY <1>1, <2>1
    <3> QED
      BY <3>1 DEF PassInv, EnsureIsLast
  <2>3. "ensure" \notin Inserting
    BY DEF Inserting
  <2>4. key \in Reasons
    BY <1>1, <1>21, <2>1, <2>2, <2>3 DEF SeesTo
  <2> QED
    BY <1>20, <2>4
<1>22. own' = [own EXCEPT ![s] = own[s]]
  BY <1>1 DEF IInv, Typed
<1> QED
  <2>1. todo' = [todo EXCEPT ![s] = q]
    BY <1>12, <1>14
  <2>2. \A i \in DOMAIN q : q[i].do = "ensure" => i = Len(q)
    BY <1>19
  <2>3. \A key \in Keys : SeesTo(todo[s], key) => \/ key \in own[s] \/ rows'[key] > 0
                                                  \/ SeesTo(q, key)
    BY <1>21
  <2> QED
    BY <1>1, <1>22, <2>1, <2>2, <2>3, OneStatement

-----------------------------------------------------------------------------
(* A script that leaves its session, or begins one.                         *)
LEMMA LeavingSkipsNothing ==
  ASSUME IInv, PassInv, NEW s \in Scripts, rows' = rows,
         \/ own[s] = {} /\ todo[s] = << >> /\ job[s].pc = "sql"
         \/ job[s].pc \in {"posting", "exited"} \/ job'[s].pc = "crashed",
         \A t \in Scripts \ {s} : own'[t] = own[t] /\ todo'[t] = todo[t] /\ job'[t].pc = job[t].pc,
         todo'[s] = todo[s] \/ todo'[s] = << >>,
         job'[s].pc \in {"posting", "exited", "crashed"}
  PROVE  EnsureIsLast' /\ NothingIsSkipped'
<1>1. EnsureIsLast'
  BY DEF PassInv, EnsureIsLast
<1>2. ASSUME NEW key \in Needed(s), job'[s].pc \in {"posting", "exited"} PROVE rows[key] > 0
  BY <1>2, NothingSeesToNothing DEF PassInv, NothingIsSkipped, Has
<1>3. NothingIsSkipped
  BY DEF PassInv
<1> QED
  BY <1>1, <1>2, <1>3, OneScriptMoves

LEMMA LaunchSkipsNothing ==
  ASSUME IInv, PassInv, NEW s \in Scripts, NEW tier, Launch(s, tier)
  PROVE  EnsureIsLast' /\ NothingIsSkipped'
<1>1. /\ rows' = rows /\ own' = own /\ todo'[s] = Script(s)
      /\ \A t \in Scripts \ {s} : todo'[t] = todo[t] /\ job'[t] = job[t]
  BY DEF Launch, IInv, Typed
<1>2. job'[s].pc = "sql"
  <2>1. DOMAIN job = Scripts
    BY DEF IInv, Typed
  <2> QED
    BY <2>1 DEF Launch, Idle
<1>3. EnsureIsLast'
  BY <1>1, ScriptsSeeToWhatTheyNeed DEF PassInv, EnsureIsLast
<1>4. NothingIsSkipped
  BY DEF PassInv
<1> QED
  BY <1>1, <1>2, <1>3, <1>4, ScriptsSeeToWhatTheyNeed, OneScriptMoves

LEMMA CrashSkipsNothing ==
  ASSUME IInv, PassInv, NEW s \in Scripts, Crash(s)
  PROVE  EnsureIsLast' /\ NothingIsSkipped'
<1>1. /\ rows' = rows /\ todo'[s] = << >>
      /\ \A t \in Scripts \ {s} : own'[t] = own[t] /\ todo'[t] = todo[t] /\ job'[t] = job[t]
  BY DEF Crash, IInv, Typed
<1>2. job'[s].pc = "crashed"
  <2>1. DOMAIN job = Scripts /\ job[s] \in Jobs
    BY DEF IInv, Typed, PassInv, JobsInv, JobsAreTyped
  <2> QED
    BY <2>1 DEF Crash, Jobs
<1> QED
  BY <1>1, <1>2, LeavingSkipsNothing

-----------------------------------------------------------------------------
LEMMA PassInvIsInductive ==
  ASSUME IInv, PassInv, [Next]_vars PROVE PassInv'
<1>1. CASE UNCHANGED vars
  <2>1. JobsInv'
    BY <1>1, StatementsKeepJobs DEF vars, PassInv
  <2> QED
    BY <1>1, <2>1 DEF vars, PassInv, EnsureIsLast, NothingIsSkipped, Has, SeesTo
<1>2. JobsInv
  BY DEF PassInv
<1>3. ASSUME NEW s \in Scripts, Crash(s), clock' = clock PROVE PassInv'
  BY <1>2, <1>3, CrashSkipsNothing, CrashesKeepJobs DEF PassInv
<1>4. ASSUME NEW s \in Scripts, Statement(s) PROVE PassInv'
  <2>1. CASE Get(s)
    BY <1>2, <2>1, GetSkipsNothing, StatementsKeepJobs DEF Get, PassInv
  <2>2. CASE Insert(s)
    <3>1. clock' = clock /\ (Crash(s) \/ UNCHANGED <<job, posted>>)
      BY <2>2 DEF Insert
    <3> QED
      BY <1>2, <1>3, <2>2, <3>1, InsertSkipsNothing, StatementsKeepJobs DEF PassInv
  <2>3. CASE Create(s)
    BY <1>2, <2>3, CreateSkipsNothing, StatementsKeepJobs DEF Create, PassInv
  <2>4. CASE Ensure(s)
    BY <1>2, <2>4, EnsureSkipsNothing, StatementsKeepJobs DEF Ensure, PassInv
  <2>5. CASE Resolve(s)
    <3>1. clock' = clock /\ (Crash(s) \/ UNCHANGED <<job, posted>>)
      BY <2>5 DEF Resolve
    <3> QED
      BY <1>2, <1>3, <2>5, <3>1, ResolveSkipsNothing, StatementsKeepJobs DEF PassInv
  <2>6. CASE Commit(s)
    BY <1>2, <2>6, CommitSkipsNothing, StatementsKeepJobs DEF Commit, PassInv
  <2>7. CASE Bootstrapped(s)
    <3>1. /\ job[s].pc = "sql" /\ todo[s] = << >> /\ UNCHANGED <<rows, own, todo>>
      BY <2>7 DEF Bootstrapped
    <3>2. own[s] = {}
      BY <3>1 DEF IInv, Transactions, Commits
    <3>3. \A t \in Scripts \ {s} : job'[t] = job[t]
      BY <2>7 DEF Bootstrapped, IInv, Typed
    <3>4. job'[s].pc \in {"posting", "exited"}
      <4>1. DOMAIN job = Scripts /\ job[s] \in Jobs
        BY DEF IInv, Typed, PassInv, JobsInv, JobsAreTyped
      <4>2. CASE Kind[s] = "seed"
        BY <2>7, <4>1, <4>2 DEF Bootstrapped, Jobs
      <4>3. CASE Kind[s] # "seed"
        BY <2>7, <4>1, <4>3 DEF Bootstrapped, Jobs
      <4> QED
        BY <4>2, <4>3
    <3> QED
      BY <1>2, <2>7, <3>1, <3>2, <3>3, <3>4, LeavingSkipsNothing, BootstrappedKeepsJobs DEF PassInv
  <2> QED
    BY <1>4, <2>1, <2>2, <2>3, <2>4, <2>5, <2>6, <2>7 DEF Statement
<1>5. ASSUME NEW s \in Scripts, Deadlock(s) \/ Kill(s) PROVE PassInv'
  BY <1>3, <1>5 DEF Deadlock, Kill
<1>6. ASSUME NEW s \in Scripts, job[s].pc = "posting", JobsInv', UNCHANGED <<rows, own, todo>>,
             \A t \in Scripts \ {s} : job'[t] = job[t], job'[s].pc \in {"posting", "exited"}
      PROVE  PassInv'
  BY <1>6, LeavingSkipsNothing DEF PassInv
<1>7. ASSUME NEW s \in Scripts, NEW d \in AllDrafts, Post(s, d) \/ PostInTrouble(s, d)
      PROVE  PassInv'
  <2>1. job[s].pc = "posting" /\ UNCHANGED <<rows, own, todo>>
    BY <1>7 DEF Post, PostInTrouble, Pending
  <2>2. PICK answer : Answered(s, d, answer)
    BY <1>7 DEF Post, PostInTrouble
  <2>3. /\ \A t \in Scripts \ {s} : job'[t] = job[t]
        /\ job'[s].pc = job[s].pc
    <3>1. DOMAIN job = Scripts /\ job[s] \in Jobs
      BY DEF IInv, Typed, PassInv, JobsInv, JobsAreTyped
    <3> QED
      BY <2>2, <3>1 DEF Answered, Jobs
  <2> QED
    BY <1>2, <1>6, <1>7, <2>1, <2>3, PostsKeepJobs
<1>8. ASSUME NEW s \in Scripts, EndOfTransport(s) PROVE PassInv'
  <2>1. job[s].pc = "posting" /\ UNCHANGED <<rows, own, todo>>
    BY <1>8 DEF EndOfTransport
  <2>2. DOMAIN job = Scripts /\ job[s] \in Jobs
    BY DEF IInv, Typed, PassInv, JobsInv, JobsAreTyped
  <2>3. \A t \in Scripts \ {s} : job'[t] = job[t]
    <3>1. NextStage(s) \/ Return(s)
      BY <1>8 DEF EndOfTransport
    <3>2. NextStage(s) => \E next : job' = [job EXCEPT ![s] = next]
      BY Zenon DEF NextStage
    <3>3. Return(s) => \E next : job' = [job EXCEPT ![s] = next]
      BY Zenon DEF Return
    <3> QED
      BY <2>2, <3>1, <3>2, <3>3
  <2>4. CASE job[s].stage < LastStage(s)
    <3>1. NextStage(s)
      BY <1>8, <2>4 DEF EndOfTransport
    <3>2. job'[s].pc = "posting"
      BY <2>1, <2>2, <3>1 DEF NextStage, Jobs
    <3> QED
      BY <1>2, <1>6, <1>8, <2>1, <2>3, <2>4, <3>1, <3>2, NextStageKeepsJobs
  <2>5. CASE ~(job[s].stage < LastStage(s))
    <3>1. Return(s)
      BY <1>8, <2>5 DEF EndOfTransport
    <3>2. job'[s].pc = "exited"
      BY <2>1, <2>2, <3>1 DEF Return, Jobs
    <3> QED
      BY <1>2, <1>6, <1>8, <2>1, <2>3, <2>5, <3>1, <3>2, ReturnsKeepJobs
  <2> QED
    BY <2>4, <2>5
<1>9. ASSUME NEW s \in Scripts, Run(s) \/ RunAgain(s) PROVE PassInv'
  <2>1. PICK tier \in Tiers(s) : Launch(s, tier)
    BY <1>9 DEF Run, RunAgain
  <2> QED
    BY <1>2, <2>1, LaunchSkipsNothing, LaunchesKeepJobs DEF PassInv
<1> QED
  BY <1>1, <1>4, <1>5, <1>7, <1>8, <1>9 DEF Next

LEMMA InitiallyPassInv == Init => PassInv
<1> SUFFICES ASSUME Init PROVE PassInv
  OBVIOUS
<1>1. PICK cast \in Casts :
        job = [s \in Scripts |-> IF s \in cast THEN Idle ELSE [Idle EXCEPT !.pc = "unused"]]
  BY DEF Init
<1>2. ASSUME NEW s \in Scripts PROVE job[s] \in Jobs /\ job[s].pc \in {"idle", "unused"}
  <2>1. << >> \in Answers
    <3>1. << >> \in [{} -> {"pending", "created", "existing", "failed"}] /\ {} \in SUBSET AllDrafts
      OBVIOUS
    <3> QED
      BY <3>1 DEF Answers
  <2>a. Idle \in Jobs /\ Idle.pc = "idle"
    BY <2>1 DEF Jobs, Idle
  <2>2. PICK idle \in Jobs : idle = Idle /\ idle.pc = "idle"
    BY <2>a, Zenon
  <2>3. [idle EXCEPT !.pc = "unused"] \in Jobs /\ [idle EXCEPT !.pc = "unused"].pc = "unused"
    BY ONLY <2>2 DEF Jobs
  <2> QED
    BY <1>1, <2>2, <2>3
<1>3. JobsInv
  <2>1. job \in [Scripts -> Jobs]
    BY <1>1, <1>2
  <2>2. clock \in Nat /\ DOMAIN posted = AllDrafts
    BY DEF Init
  <2> QED
    BY <1>2, <2>1, <2>2 DEF JobsInv, JobsAreTyped, StagesAddUp, PassesHold
<1>4. EnsureIsLast /\ NothingIsSkipped
  BY <1>2 DEF Init, EnsureIsLast, NothingIsSkipped
<1> QED
  BY <1>3, <1>4 DEF PassInv

(* For any scripts, catalogues and drafts, whatever is lost, resent or      *)
(* killed: a seed, simulation or QA run that reports no finding (main       *)
(* returns 0) has its whole topology and catalogue in the database, and     *)
(* each draft it posted with the payload it was generated with.             *)
THEOREM PassesCanBeBelieved == Spec => []PassMeansStored
<1>1. IInv /\ PassInv => PassMeansStored
  <2> SUFFICES ASSUME IInv, PassInv, NEW s \in Scripts, job[s].pc = "exited", ~job[s].finding
               PROVE  /\ \A i \in DOMAIN Script(s) :
                           Script(s)[i].key \in Keys => rows[Script(s)[i].key] > 0
                      /\ Kind[s] # "seed" => \A code \in Reasons : rows[code] > 0
                      /\ \A i \in DOMAIN job[s].windows :
                           \A d \in Drafts(s, 2 * i) : posted[d] = {job[s].windows[i]}
    BY DEF PassMeansStored
  <2>1. \A key \in Needed(s) : rows[key] > 0
    BY DEF PassInv, NothingIsSkipped
  <2>2. Passed(s)
    BY DEF PassInv, JobsInv, PassesHold
  <2> QED
    BY <2>1, <2>2 DEF Needed, Passed, Stored
<1>2. Init => IInv /\ PassInv
  BY InitiallyIInv, InitiallyPassInv
<1>3. IInv /\ PassInv /\ [Next]_vars => (IInv /\ PassInv)'
  BY IInvIsInductive, PassInvIsInductive
<1> QED
  BY <1>1, <1>2, <1>3, PTL DEF Spec
================================================================================
