-------------------------- MODULE EventLedgerProofs --------------------------
(***************************************************************************)
(* What follows from the ledger alone, for any set of identities: its      *)
(* unique keys and the chain of its audit log.                             *)
(***************************************************************************)
EXTENDS EventLedger, TLAPS

Entry == [by : Ids, changed : Diff]

LedgerTypeOK ==
  /\ event \in [Ids -> Row \union {None}]
  /\ DOMAIN audit = Ids
  /\ \A id \in Ids : audit[id] = << >> \/ event[id] # None
  /\ \A id \in Ids : audit[id] \in Seq(Entry)

LEMMA DifferenceFacts ==
  ASSUME NEW old \in Values, NEW new \in Values
  PROVE  /\ Difference(old, new) \in Diff
         /\ \A f \in Fields :
              /\ Difference(old, new)[f] = None <=> new[f] = old[f]
              /\ new[f] # old[f] => /\ Difference(old, new)[f][1] = old[f]
                                    /\ Difference(old, new)[f][2] = new[f]
<1>1. \A f \in Fields : old[f] \in Value /\ new[f] \in Value
  BY DEF Values
<1>2. \A f \in Fields : <<old[f], new[f]>> \in Value \X Value /\ <<old[f], new[f]>> # None
  BY <1>1, MarkersAreDistinct
<1>3. QED
  BY <1>2 DEF Difference, Diff

LEMMA NextLedgerTypeOK ==
  ASSUME LedgerTypeOK, [Next]_lvars
  PROVE  LedgerTypeOK'
<1>1. ASSUME NEW id \in Ids, Record(id)
      PROVE  LedgerTypeOK'
  <2>1. event'[id] \in Row /\ event'[id] # None
    BY <1>1, MarkersAreDistinct DEF Record
  <2>2. event' \in [Ids -> Row \union {None}] /\ \A i \in Ids : i # id => event'[i] = event[i]
    BY <1>1, <2>1 DEF Record, LedgerTypeOK
  <2>3. QED
    BY <1>1, <2>1, <2>2 DEF Record, LedgerTypeOK
<1>2. ASSUME NEW id \in Ids, Correct(id)
      PROVE  LedgerTypeOK'
  <2>1. event'[id] \in Row /\ event'[id] # None
    BY <1>2, MarkersAreDistinct DEF Correct
  <2>2. event' \in [Ids -> Row \union {None}] /\ \A i \in Ids : i # id => event'[i] = event[i]
    BY <1>2, <2>1 DEF Correct, LedgerTypeOK
  <2>3. PICK by \in Ids :
          audit' = [audit EXCEPT ![id] =
            Append(@, [by |-> by, changed |-> Difference(event[id].val, event'[id].val)])]
    BY <1>2 DEF Correct
  <2>4. [by |-> by, changed |-> Difference(event[id].val, event'[id].val)] \in Entry
    <3>1. event[id].val \in Values /\ event'[id].val \in Values
      BY <1>2, <2>1 DEF Correct, LedgerTypeOK, Row
    <3>2. QED
      BY <3>1, DifferenceFacts DEF Entry
  <2> DEFINE entry == [by |-> by, changed |-> Difference(event[id].val, event'[id].val)]
  <2> HIDE DEF entry
  <2>5. audit'[id] = Append(audit[id], entry) /\ \A i \in Ids : i # id => audit'[i] = audit[i]
    BY <2>3 DEF LedgerTypeOK, entry
  <2>6. entry \in Entry
    BY <2>4 DEF entry
  <2>7. audit'[id] \in Seq(Entry)
    BY <2>5, <2>6 DEF LedgerTypeOK
  <2>8. DOMAIN audit' = Ids
    BY <2>3 DEF LedgerTypeOK
  <2>9. QED
    BY <2>1, <2>2, <2>5, <2>7, <2>8 DEF LedgerTypeOK
<1>3. CASE UNCHANGED lvars
  BY <1>3 DEF lvars, LedgerTypeOK
<1>4. QED
  BY <1>1, <1>2, <1>3 DEF Next

LEMMA NextOneRowPerKey ==
  ASSUME LedgerTypeOK, OneRowPerKey, [Next]_lvars
  PROVE  OneRowPerKey'
<1>1. ASSUME NEW id \in Ids, Record(id)
      PROVE  OneRowPerKey'
  <2>1. \A i \in Ids : i # id => event'[i] = event[i]
    BY <1>1 DEF Record, LedgerTypeOK
  <2>2. KeyUnused(event'[id].key)
    BY <1>1 DEF Record
  <2>3. QED
    BY <2>1, <2>2 DEF OneRowPerKey, KeyUnused
<1>2. ASSUME NEW id \in Ids, Correct(id)
      PROVE  OneRowPerKey'
  <2>1. \A i \in Ids : i # id => event'[i] = event[i]
    BY <1>2 DEF Correct, LedgerTypeOK
  <2>2. event[id] # None /\ event'[id].key = event[id].key
    BY <1>2 DEF Correct
  <2>3. QED
    BY <2>1, <2>2 DEF OneRowPerKey
<1>3. CASE UNCHANGED lvars
  BY <1>3 DEF lvars, OneRowPerKey
<1>4. QED
  BY <1>1, <1>2, <1>3 DEF Next

-----------------------------------------------------------------------------
(* The chain of one event and one field.                                   *)
Chain(id, f) ==
  \A i \in DOMAIN audit[id] :
    audit[id][i].changed[f] # None =>
      /\ (\A j \in DOMAIN audit[id] : j > i => audit[id][j].changed[f] = None)
           => event[id].val[f] = audit[id][i].changed[f][2]
      /\ \A j \in DOMAIN audit[id] :
           /\ j > i
           /\ audit[id][j].changed[f] # None
           /\ \A k \in DOMAIN audit[id] : i < k /\ k < j => audit[id][k].changed[f] = None
           => audit[id][j].changed[f][1] = audit[id][i].changed[f][2]

LEMMA AuditChainIsChains == AuditChain <=> \A id \in Ids, f \in Fields : Chain(id, f)
BY DEF AuditChain, Chain

(* Appending the difference between the row and its new values keeps the   *)
(* chain: if the entry touches f, it starts from the value the last entry  *)
(* that touched f ended in.                                                *)
LEMMA AppendKeepsChain ==
  ASSUME NEW id, NEW f \in Fields, Chain(id, f),
         NEW S, audit[id] \in Seq(S), NEW entry,
         audit'[id] = Append(audit[id], entry),
         event[id].val \in Values, event'[id].val \in Values,
         entry.changed = Difference(event[id].val, event'[id].val)
  PROVE  Chain(id, f)'
<1> DEFINE n == Len(audit[id])
           old == event[id].val[f]
           new == event'[id].val[f]
<1>1. /\ n \in Nat
      /\ DOMAIN audit[id] = 1..n
      /\ DOMAIN audit'[id] = 1..(n + 1)
      /\ \A i \in 1..n : audit'[id][i] = audit[id][i]
      /\ audit'[id][n + 1] = entry
  OBVIOUS
<1>2. /\ entry.changed[f] = None <=> new = old
      /\ entry.changed[f] # None => entry.changed[f][1] = old /\ entry.changed[f][2] = new
  BY DifferenceFacts
<1> DEFINE touched(i) == audit'[id][i].changed[f]
<1>3. SUFFICES ASSUME NEW i \in 1..(n + 1), touched(i) # None
               PROVE  /\ (\A j \in 1..(n + 1) : j > i => touched(j) = None)
                           => new = touched(i)[2]
                      /\ \A j \in 1..(n + 1) :
                           /\ j > i
                           /\ touched(j) # None
                           /\ \A k \in 1..(n + 1) : i < k /\ k < j => touched(k) = None
                           => touched(j)[1] = touched(i)[2]
  BY <1>1, SMTT(40) DEF Chain
<1>4. CASE i = n + 1
  BY <1>1, <1>2, <1>3, <1>4
<1>5. CASE i \in 1..n
  <2>1. touched(i) = audit[id][i].changed[f]
    BY <1>1, <1>5
  <2>2. (\A j \in 1..n : j > i => touched(j) = None) => old = touched(i)[2]
    BY <1>1, <1>3, <1>5, <2>1 DEF Chain
  <2>3. \A j \in 1..n :
          /\ j > i
          /\ touched(j) # None
          /\ \A k \in 1..n : i < k /\ k < j => touched(k) = None
          => touched(j)[1] = touched(i)[2]
    <3>1. \A j \in 1..n : touched(j) = audit[id][j].changed[f]
      BY <1>1
    <3>2. \A j \in DOMAIN audit[id] :
            /\ j > i
            /\ audit[id][j].changed[f] # None
            /\ \A k \in DOMAIN audit[id] : i < k /\ k < j => audit[id][k].changed[f] = None
            => audit[id][j].changed[f][1] = audit[id][i].changed[f][2]
      <4>1. i \in DOMAIN audit[id] /\ audit[id][i].changed[f] # None
        BY <1>1, <1>3, <1>5, <2>1
      <4>2. QED
        BY <4>1, Zenon DEF Chain
    <3>3. DOMAIN audit[id] = 1..n
      BY <1>1
    <3> HIDE DEF touched
    <3>4. QED
      BY <1>5, <3>1, <3>2, <3>3
  <2>4. touched(n + 1) = entry.changed[f]
    BY <1>1
  <2> HIDE DEF touched, old, new
  <2>5. ASSUME \A j \in 1..(n + 1) : j > i => touched(j) = None
        PROVE  new = touched(i)[2]
    BY <1>1, <1>2, <1>5, <2>2, <2>4, <2>5
  <2>6. ASSUME NEW j \in 1..(n + 1), j > i, touched(j) # None,
               \A k \in 1..(n + 1) : i < k /\ k < j => touched(k) = None
        PROVE  touched(j)[1] = touched(i)[2]
    <3>1. CASE j = n + 1
      BY <1>1, <1>2, <1>5, <2>2, <2>4, <2>6, <3>1
    <3>2. CASE j \in 1..n
      BY <1>1, <2>3, <2>6, <3>2
    <3>3. QED
      BY <1>1, <3>1, <3>2
  <2>7. QED
    BY <2>5, <2>6
<1>6. QED
  BY <1>1, <1>3, <1>4, <1>5

LEMMA NextAuditChain ==
  ASSUME LedgerTypeOK, AuditChain, [Next]_lvars
  PROVE  AuditChain'
<1> SUFFICES ASSUME NEW i \in Ids, NEW f \in Fields
             PROVE  Chain(i, f)'
  BY AuditChainIsChains DEF AuditChain, Chain
<1>a. Chain(i, f)
  BY AuditChainIsChains
<1>1. ASSUME NEW id \in Ids, Record(id)
      PROVE  Chain(i, f)'
  <2>1. audit' = audit /\ (i # id => event'[i] = event[i])
    BY <1>1 DEF Record, LedgerTypeOK
  <2>2. i = id => audit[i] = << >>
    BY <1>1 DEF Record, LedgerTypeOK
  <2>3. QED
    BY <1>a, <2>1, <2>2 DEF Chain
<1>2. ASSUME NEW id \in Ids, Correct(id)
      PROVE  Chain(i, f)'
  <2>1. PICK by \in Ids :
          audit' = [audit EXCEPT ![id] =
            Append(@, [by |-> by, changed |-> Difference(event[id].val, event'[id].val)])]
    BY <1>2 DEF Correct
  <2>2. CASE i # id
    <3>1. event'[i] = event[i] /\ audit'[i] = audit[i]
      BY <1>2, <2>1, <2>2 DEF Correct, LedgerTypeOK
    <3>2. QED
      BY <1>a, <3>1 DEF Chain
  <2>3. CASE i = id
    <3> DEFINE entry == [by |-> by, changed |-> Difference(event[id].val, event'[id].val)]
    <3>1. entry.changed = Difference(event[id].val, event'[id].val)
      OBVIOUS
    <3>2. event[id].val \in Values /\ event'[id].val \in Values
      BY <1>2 DEF Correct, LedgerTypeOK, Row
    <3> HIDE DEF entry
    <3>3. audit'[id] = Append(audit[id], entry)
      BY <2>1 DEF LedgerTypeOK, entry
    <3>4. audit[id] \in Seq(Entry)
      BY DEF LedgerTypeOK
    <3>5. QED
      BY <1>a, <2>3, <3>1, <3>2, <3>3, <3>4, AppendKeepsChain
  <2>4. QED
    BY <2>2, <2>3
<1>3. CASE UNCHANGED lvars
  BY <1>a, <1>3 DEF lvars, Chain
<1>4. QED
  BY <1>1, <1>2, <1>3 DEF Next

LEMMA LedgerInitially == Init => LedgerTypeOK /\ OneRowPerKey /\ AuditChain
BY DEF Init, LedgerTypeOK, OneRowPerKey, AuditChain

(* In any ledger, the audit log of every event is a chain that ends in the *)
(* row, field by field, and no idempotency key is in two rows.             *)
THEOREM LedgerKeepsItsPromises == Spec => []AuditChain /\ []OneRowPerKey
<1>1. LedgerTypeOK /\ AuditChain /\ OneRowPerKey /\ [Next]_lvars
        => (LedgerTypeOK /\ AuditChain /\ OneRowPerKey)'
  BY NextLedgerTypeOK, NextOneRowPerKey, NextAuditChain
<1>2. QED
  BY <1>1, LedgerInitially, PTL DEF Spec

=============================================================================
