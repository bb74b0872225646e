---------------------------- MODULE WriteGateProofs ----------------------------
(***************************************************************************)
(* Proofs about WriteGate, for any environments, credentials and callers.  *)
(***************************************************************************)
EXTENDS WriteGate, FiniteSetTheorems, WellFoundedInduction, NaturalsInduction, TLAPS

(* The strengthening: a process that answers was started with one of the   *)
(* environments, and not with production and no key.                       *)
ServesWithItsKey ==
  settings = {} \/ \E e \in Environments : settings = {e} /\ ~ProductionKeyMissing(e)

IInv == RefusalsCostNothing /\ ServesWithItsKey

-----------------------------------------------------------------------------
LEMMA SettingHasItsKey ==
  ASSUME ServesWithItsKey, Up
  PROVE  Setting \in Environments /\ ~ProductionKeyMissing(Setting)
<1>1. PICK e \in Environments : settings = {e} /\ ~ProductionKeyMissing(e)
  BY DEF ServesWithItsKey, Up
<1>2. Setting = e
  BY <1>1 DEF Setting
<1> QED
  BY <1>1, <1>2

(* The gate lets a caller pass only if it may write.                        *)
LEMMA PassingMeansMayWrite ==
  ASSUME ServesWithItsKey, Up, NEW cred, RequireApiKey(Setting, cred) = "pass"
  PROVE  MayWrite(cred)
<1>1. Setting.production \in BOOLEAN /\ ~ProductionKeyMissing(Setting)
  BY SettingHasItsKey, GateConstants
<1>2. CASE Setting.key = Missing
  BY <1>1, <1>2 DEF ProductionKeyMissing, MayWrite
<1>3. CASE Setting.key # Missing
  <2>1. cred.key = Setting.key
    BY <1>3 DEF RequireApiKey
  <2> QED
    BY <1>3, <2>1 DEF MayWrite
<1> QED
  BY <1>2, <1>3

LEMMA ServingBreachesNothing ==
  ASSUME IInv, Up, NEW b, NEW cred, NEW answer \in Answers(b, cred), Serve(b, cred, answer)
  PROVE  breaches' = {}
<1>1. Readiness(Setting, TRUE) # "missing_api_key"
  BY SettingHasItsKey DEF IInv, Readiness
<1>2. CASE MayWrite(cred)
  BY <1>1, <1>2 DEF Serve, IInv, RefusalsCostNothing
<1>3. CASE ~MayWrite(cred)
  <2>1. RequireApiKey(Setting, cred) # "pass"
    BY <1>3, PassingMeansMayWrite DEF IInv
  <2>2. ~Charged(cred)
    BY <2>1 DEF Charged
  <2>3. answer # "2xx"
    <3>1. Answers(b, cred) = {RequireApiKey(Setting, cred)}
      BY <2>1 DEF Answers
    <3>2. RequireApiKey(Setting, cred) # "2xx"
      BY DEF RequireApiKey
    <3> QED
      BY <3>1, <3>2
  <2> QED
    BY <1>1, <2>2, <2>3 DEF Serve, IInv, RefusalsCostNothing
<1> QED
  BY <1>2, <1>3

LEMMA IInvIsInductive ==
  ASSUME IInv, [Next]_vars PROVE IInv'
<1>1. CASE UNCHANGED <<settings, breaches>>
  BY <1>1 DEF IInv, RefusalsCostNothing, ServesWithItsKey
<1>2. ASSUME NEW w \in Workers, Attempt(w) PROVE IInv'
  <2>1. PICK answer \in Answers(BudgetOf[w], Cred(w)) : Serve(BudgetOf[w], Cred(w), answer)
    BY <1>2 DEF Attempt
  <2>2. Up /\ UNCHANGED settings
    BY <1>2 DEF Attempt
  <2>3. breaches' = {}
    BY <2>1, <2>2, ServingBreachesNothing
  <2> QED
    BY <2>2, <2>3 DEF IInv, RefusalsCostNothing, ServesWithItsKey
<1>3. ASSUME NEW b \in Budgets, NEW cred \in Credentials, OtherCall(b, cred) PROVE IInv'
  <2>1. PICK answer \in Answers(b, cred) : Serve(b, cred, answer)
    BY <1>3 DEF OtherCall
  <2>2. Up /\ UNCHANGED settings
    BY <1>3 DEF OtherCall
  <2>3. breaches' = {}
    BY <2>1, <2>2, ServingBreachesNothing
  <2> QED
    BY <2>2, <2>3 DEF IInv, RefusalsCostNothing, ServesWithItsKey
<1>4. CASE Start
  BY <1>4 DEF Start, IInv, RefusalsCostNothing, ServesWithItsKey
<1>5. CASE Stop
  BY <1>5 DEF Stop, IInv, RefusalsCostNothing, ServesWithItsKey
<1>6. ASSUME NEW w \in Workers, Begin(w) \/ AttemptInVain(w) PROVE IInv'
  BY <1>1, <1>6 DEF Begin, AttemptInVain
<1>7. CASE Tick
  BY <1>1, <1>7 DEF Tick
<1>8. CASE UNCHANGED vars
  BY <1>1, <1>8 DEF vars
<1> QED
  BY <1>2, <1>3, <1>4, <1>5, <1>6, <1>7, <1>8 DEF Next

-----------------------------------------------------------------------------
(* For any environments, credentials and callers, and however often the    *)
(* process restarts with another environment: no call without the key is   *)
(* written or charged, and a process that answers has the key it needs     *)
(* (require_api_key, the lifespan of main.py).                             *)
THEOREM RefusedCallsCostNothing == Spec => []RefusalsCostNothing
<1>1. Init => IInv
  BY DEF Init, IInv, RefusalsCostNothing, ServesWithItsKey
<1>2. IInv => RefusalsCostNothing
  BY DEF IInv
<1> QED
  BY <1>1, <1>2, IInvIsInductive, PTL DEF Spec

-----------------------------------------------------------------------------
(* Sums. *)

(* The sum of a function's values, by the definition of the community module. *)
Choice(s) == CHOOSE x \in s : TRUE

IsIter(it, g, D) ==
  it = [s \in D |-> IF s = {} THEN 0 ELSE g[Choice(s)] + it[s \ {Choice(s)}]]

Iter(g, S) == CHOOSE it : IsIter(it, g, SUBSET S)

Small(S, n) == {s \in SUBSET S : Cardinality(s) <= n}

LEMMA SumUnfolds ==
  ASSUME NEW g, NEW S
  PROVE  SumFunctionOnSet(g, S) = Iter(g, S)[S]
BY Zenon DEF SumFunctionOnSet, FoldFunctionOnSet, MapThenFoldSet, Iter, IsIter, Choice

LEMMA ChoiceIsIn == ASSUME NEW s, s # {} PROVE Choice(s) \in s
BY DEF Choice

LEMMA IterOnSmallSets ==
  ASSUME NEW S, IsFiniteSet(S), NEW g, NEW n \in Nat
  PROVE  \E it : IsIter(it, g, Small(S, n))
<1> DEFINE R == OpToRel(<, Nat)
<1> DEFINE Bad == {k \in Nat : ~\E it : IsIter(it, g, Small(S, k))}
<1>1. IsWellFoundedOn(R, Nat)
  BY NatLessThanWellFounded DEF OpToRel
<1>2. ASSUME NEW x \in Nat, NEW y \in Nat PROVE <<x, y>> \in R <=> x < y
  BY DEF OpToRel
<1> HIDE DEF R
<1>3. SUFFICES ASSUME Bad # {} PROVE FALSE
  OBVIOUS
<1>4. PICK k \in Bad : \A y \in Bad : <<y, k>> \notin R
  BY <1>1, <1>3, WFMin, Zenon
<1>5. \A m \in Nat : m < k => \E it : IsIter(it, g, Small(S, m))
  BY <1>2, <1>4
<1>6. ASSUME NEW s \in SUBSET S PROVE Cardinality(s) \in Nat /\ IsFiniteSet(s)
  BY FS_Subset, FS_CardinalityType
<1>7. CASE k = 0
  <2>1. Small(S, 0) = {{}}
    BY <1>6, FS_EmptySet DEF Small
  <2> DEFINE it == [s \in {{}} |-> 0]
  <2>2. it = [s \in {{}} |-> IF s = {} THEN 0 ELSE g[Choice(s)] + it[s \ {Choice(s)}]]
    OBVIOUS
  <2>3. IsIter(it, g, Small(S, 0))
    BY <2>1, <2>2, Zenon DEF IsIter
  <2> QED
    BY <1>4, <1>7, <2>3, Zenon
<1>8. CASE k # 0
  <2>1. k - 1 \in Nat /\ k - 1 < k
    BY <1>4, <1>8
  <2>2. PICK h : IsIter(h, g, Small(S, k - 1))
    BY <1>5, <2>1
  <2> DEFINE it == [s \in Small(S, k) |-> IF s = {} THEN 0 ELSE g[Choice(s)] + h[s \ {Choice(s)}]]
  <2>3. ASSUME NEW s \in Small(S, k), s # {} PROVE it[s \ {Choice(s)}] = h[s \ {Choice(s)}]
    <3> DEFINE t == s \ {Choice(s)}
    <3>1. t \in SUBSET S /\ Choice(s) \in s /\ s \in SUBSET S /\ Cardinality(s) <= k
      BY <2>3, ChoiceIsIn DEF Small
    <3>2. Cardinality(t) = Cardinality(s) - 1
      BY <1>6, <3>1, FS_RemoveElement
    <3>3. t \in Small(S, k - 1) /\ t \in Small(S, k)
      BY <1>4, <1>6, <3>1, <3>2 DEF Small
    <3> HIDE DEF t
    <3>4. h[t] = IF t = {} THEN 0 ELSE g[Choice(t)] + h[t \ {Choice(t)}]
      BY <2>2, <3>3 DEF IsIter
    <3>5. it[t] = IF t = {} THEN 0 ELSE g[Choice(t)] + h[t \ {Choice(t)}]
      BY <3>3
    <3> QED
      BY <3>4, <3>5 DEF t
  <2>4. it = [s \in Small(S, k) |-> IF s = {} THEN 0 ELSE g[Choice(s)] + it[s \ {Choice(s)}]]
    BY <2>3
  <2>5. IsIter(it, g, Small(S, k))
    BY <2>4, Zenon DEF IsIter
  <2> QED
    BY <1>4, <2>5, Zenon
<1> QED
  BY <1>7, <1>8

LEMMA IterIsThere ==
  ASSUME NEW S, IsFiniteSet(S), NEW g
  PROVE  IsIter(Iter(g, S), g, SUBSET S)
<1>1. Cardinality(S) \in Nat /\ Small(S, Cardinality(S)) = SUBSET S
  BY FS_Subset, FS_CardinalityType DEF Small
<1>2. PICK it : IsIter(it, g, SUBSET S)
  BY <1>1, IterOnSmallSets
<1> QED
  BY <1>2, Zenon DEF Iter

LEMMA IterStep ==
  ASSUME NEW it, NEW g, NEW D, IsIter(it, g, D), NEW s \in D
  PROVE  it[s] = IF s = {} THEN 0 ELSE g[Choice(s)] + it[s \ {Choice(s)}]
BY DEF IsIter

(* The order of summation does not matter. *)
LEMMA AnyElementFirst ==
  ASSUME NEW S, IsFiniteSet(S), NEW g, \A x \in S : g[x] \in Int,
         NEW s \in SUBSET S
  PROVE  /\ Iter(g, S)[s] \in Int
         /\ s = {} => Iter(g, S)[s] = 0
         /\ \A x \in s : Iter(g, S)[s] = g[x] + Iter(g, S)[s \ {x}]
<1> DEFINE F == Iter(g, S)
<1> DEFINE R == OpToRel(<, Nat)
<1> DEFINE Good(t) == F[t] \in Int /\ \A x \in t : F[t] = g[x] + F[t \ {x}]
<1> DEFINE Bad == {k \in Nat : \E t \in SUBSET S : Cardinality(t) = k /\ ~Good(t)}
<1>1. IsWellFoundedOn(R, Nat)
  BY NatLessThanWellFounded DEF OpToRel
<1>2. ASSUME NEW x \in Nat, NEW y \in Nat PROVE <<x, y>> \in R <=> x < y
  BY DEF OpToRel
<1>3. ASSUME NEW t \in SUBSET S
      PROVE  /\ t = {} => F[t] = 0
             /\ t # {} => F[t] = g[Choice(t)] + F[t \ {Choice(t)}]
  BY IterIsThere, IterStep, Zenon
<1>4. ASSUME NEW t \in SUBSET S PROVE Cardinality(t) \in Nat /\ IsFiniteSet(t)
  BY FS_Subset, FS_CardinalityType
<1>5. ASSUME NEW t \in SUBSET S, NEW x \in t PROVE Cardinality(t \ {x}) = Cardinality(t) - 1
  BY <1>4, FS_RemoveElement
<1> HIDE DEF R, F
<1>6. Bad = {}
  <2>1. SUFFICES ASSUME Bad # {} PROVE FALSE
    OBVIOUS
  <2>2. PICK k \in Bad : \A y \in Bad : <<y, k>> \notin R
    BY <1>1, <2>1, WFMin, Zenon
  <2>3. PICK t \in SUBSET S : Cardinality(t) = k /\ ~Good(t)
    BY <2>2
  <2>4. ASSUME NEW x \in t PROVE Good(t \ {x})
    <3>1. Cardinality(t \ {x}) \in Nat /\ Cardinality(t \ {x}) < k
      BY <1>4, <1>5, <2>2, <2>3
    <3>2. Cardinality(t \ {x}) \notin Bad
      BY <1>2, <2>2, <3>1
    <3> QED
      BY <3>1, <3>2
  <2>5. ASSUME t = {} PROVE FALSE
    <3>1. F[t] = 0
      BY <1>3, <2>5
    <3>2. F[t] \in Int
      BY <3>1
    <3> QED
      BY <2>3, <2>5, <3>2
  <2> DEFINE c == Choice(t)
  <2>6. c \in t /\ F[t] = g[c] + F[t \ {c}]
    BY <1>3, <2>3, <2>5, ChoiceIsIn
  <2> HIDE DEF c
  <2>7. F[t] \in Int
    <3>1. F[t \ {c}] \in Int /\ g[c] \in Int
      BY <2>3, <2>4, <2>6
    <3> QED
      BY <2>6, <3>1
  <2>8. ASSUME NEW x \in t PROVE F[t] = g[x] + F[t \ {x}]
    <3>1. CASE x = c
      BY <2>6, <3>1
    <3>2. CASE x # c
      <4>1. F[t \ {c}] = g[x] + F[(t \ {c}) \ {x}]
        BY <2>4, <2>6, <3>2
      <4>2. F[t \ {x}] = g[c] + F[(t \ {x}) \ {c}]
        BY <2>4, <2>6, <3>2
      <4>3. (t \ {c}) \ {x} = (t \ {x}) \ {c} /\ (t \ {x}) \ {c} \in SUBSET S
        BY <2>3
      <4>4. g[x] \in Int /\ g[c] \in Int
        BY <2>3, <2>6, <2>8
      <4>5. F[(t \ {x}) \ {c}] \in Int
        <5>1. t \ {x} \in SUBSET S /\ c \in t \ {x}
          BY <2>3, <2>6, <3>2
        <5>2. Cardinality((t \ {x}) \ {c}) \in Nat /\ Cardinality((t \ {x}) \ {c}) < k
          <6>1. Cardinality(t \ {x}) = k - 1
            BY <1>5, <2>3, <2>8
          <6>2. Cardinality((t \ {x}) \ {c}) = Cardinality(t \ {x}) - 1
            BY <1>5, <5>1
          <6>3. Cardinality((t \ {x}) \ {c}) \in Nat /\ k \in Nat
            BY <1>4, <2>2, <4>3
          <6> QED
            BY <6>1, <6>2, <6>3
        <5>3. Cardinality((t \ {x}) \ {c}) \notin Bad
          BY <1>2, <2>2, <5>2
        <5> QED
          BY <4>3, <5>2, <5>3
      <4> QED
        <5>1. F[t] = g[c] + (g[x] + F[(t \ {x}) \ {c}]) /\ F[t \ {x}] = g[c] + F[(t \ {x}) \ {c}]
          BY <2>6, <4>1, <4>2, <4>3
        <5> QED
          BY <4>4, <4>5, <5>1
    <3> QED
      BY <3>1, <3>2
  <2> QED
    BY <2>3, <2>7, <2>8
<1>7. Good(s)
  BY <1>4, <1>6
<1> QED
  BY <1>3, <1>7 DEF F

(* P holds the sums of the first values of f. *)
IsPrefix(P, f, n) == P[0] = 0 /\ \A k \in 1..n : P[k] = P[k - 1] + f[k]

LEMMA FrontIsFinite ==
  ASSUME NEW n \in Nat PROVE IsFiniteSet(1..n)
BY FS_Interval

LEMMA FirstSums ==
  ASSUME NEW n \in Nat, NEW f, \A k \in 1..n : f[k] \in Int
  PROVE  /\ Iter(f, 1..n)[1..0] = 0
         /\ \A k \in 0..n : Iter(f, 1..n)[1..k] \in Int
         /\ \A k \in 1..n : Iter(f, 1..n)[1..k] = f[k] + Iter(f, 1..n)[1..(k - 1)]
<1>1. IsFiniteSet(1..n)
  BY FrontIsFinite
<1>2. ASSUME NEW k \in 0..n PROVE 1..k \in SUBSET (1..n)
  OBVIOUS
<1> DEFINE D == 1..n
           F == Iter(f, D)
<1>3. \A x \in D : f[x] \in Int
  OBVIOUS
<1>4. IsFiniteSet(D) /\ \A k \in 0..n : 1..k \in SUBSET D
  BY <1>1, <1>2
<1> HIDE DEF D
<1>5. ASSUME NEW t \in SUBSET D
      PROVE  /\ F[t] \in Int
             /\ t = {} => F[t] = 0
             /\ \A x \in t : F[t] = f[x] + F[t \ {x}]
  BY <1>3, <1>4, AnyElementFirst
<1> HIDE DEF F
<1>6. F[1..0] = 0
  <2>1. 1..0 = {} /\ 0 \in 0..n
    OBVIOUS
  <2> QED
    BY <1>4, <1>5, <2>1
<1>7. ASSUME NEW k \in 0..n PROVE F[1..k] \in Int
  BY <1>4, <1>5
<1>8. ASSUME NEW k \in 1..n PROVE F[1..k] = f[k] + F[1..(k - 1)]
  <2>1. (1..k) \ {k} = 1..(k - 1) /\ k \in 1..k /\ k \in 0..n
    OBVIOUS
  <2> DEFINE t == 1..k
  <2>2. t \in SUBSET D /\ k \in t /\ t \ {k} = 1..(k - 1)
    BY <1>4, <2>1
  <2> HIDE DEF t
  <2>3. F[t] = f[k] + F[t \ {k}]
    BY <1>5, <2>2
  <2> QED
    BY <2>2, <2>3 DEF t
<1> QED
  BY <1>6, <1>7, <1>8 DEF F, D

LEMMA SumIsThere ==
  ASSUME NEW n \in Nat, NEW f, \A k \in 1..n : f[k] \in Int
  PROVE  \E P \in [0..n -> Int] : IsPrefix(P, f, n)
<1> DEFINE F == Iter(f, 1..n)
           P == [k \in 0..n |-> F[1..k]]
<1>1. /\ F[1..0] = 0
      /\ \A k \in 0..n : F[1..k] \in Int
      /\ \A k \in 1..n : F[1..k] = f[k] + F[1..(k - 1)]
  BY FirstSums
<1> HIDE DEF F
<1>2. P \in [0..n -> Int]
  BY <1>1
<1>3. P[0] = 0
  BY <1>1
<1>4. ASSUME NEW k \in 1..n PROVE P[k] = P[k - 1] + f[k]
  <2>1. k \in 0..n /\ k - 1 \in 0..n
    OBVIOUS
  <2>2. F[1..k] = P[k] /\ F[1..(k - 1)] = P[k - 1] /\ P[k - 1] \in Int /\ f[k] \in Int
    BY <1>2, <2>1
  <2>3. F[1..k] = f[k] + F[1..(k - 1)]
    BY <1>1
  <2> HIDE DEF P
  <2> QED
    BY <2>2, <2>3
<1> QED
  BY <1>2, <1>3, <1>4 DEF IsPrefix

LEMMA SumIsPrefixSum ==
  ASSUME NEW n \in Nat, NEW f, \A k \in 1..n : f[k] \in Int, NEW m \in 0..n,
         NEW P \in [0..n -> Int], IsPrefix(P, f, n)
  PROVE  SumFunctionOnSet(f, 1..m) = P[m]
<1> DEFINE F == Iter(f, 1..m)
           R == OpToRel(<, Nat)
           Bad == {k \in 0..m : F[1..k] # P[k]}
<1>1. IsWellFoundedOn(R, Nat)
  BY NatLessThanWellFounded DEF OpToRel
<1>2. ASSUME NEW x \in Nat, NEW y \in Nat PROVE <<x, y>> \in R <=> x < y
  BY DEF OpToRel
<1> HIDE DEF R
<1>3. /\ F[1..0] = 0
      /\ \A k \in 1..m : F[1..k] = f[k] + F[1..(k - 1)]
  <2>1. m \in Nat /\ \A k \in 1..m : f[k] \in Int
    OBVIOUS
  <2> QED
    BY <2>1, FirstSums
<1> HIDE DEF F
<1>4. Bad = {}
  <2>1. SUFFICES ASSUME Bad # {} PROVE FALSE
    OBVIOUS
  <2>2. Bad \subseteq Nat
    OBVIOUS
  <2>3. PICK k \in Bad : \A y \in Bad : <<y, k>> \notin R
    BY <1>1, <2>1, <2>2, WFMin, Zenon
  <2>4. k # 0
    BY <1>3, <2>3 DEF IsPrefix
  <2>5. /\ k \in 1..m /\ k - 1 \in 0..m /\ k - 1 < k /\ k \in Nat /\ k - 1 \in Nat
        /\ k \in 1..n /\ k - 1 \in 0..n
    BY <2>3, <2>4
  <2>6. F[1..(k - 1)] = P[k - 1]
    BY <1>2, <2>3, <2>5
  <2>7. F[1..k] = f[k] + F[1..(k - 1)]
    BY <1>3, <2>5
  <2>8. P[k] = P[k - 1] + f[k] /\ P[k - 1] \in Int /\ f[k] \in Int
    BY <2>5 DEF IsPrefix
  <2>9. F[1..k] # P[k]
    BY <2>3
  <2> QED
    BY <2>6, <2>7, <2>8, <2>9
<1>5. F[1..m] = P[m]
  BY <1>4
<1> QED
  BY <1>5, SumUnfolds DEF F
-----------------------------------------------------------------------------
(* How many calls a process has let pass. *)

Windows == {w \in [left : 0..Minute, hits : 0..(Limit + 1)] : w.left = 0 => w.hits = 0}

Calls ==
  [attempt : 0..Attempts, wait : Int, outnumbered : 0..(2 * Limit), undisturbed : BOOLEAN,
   cred : SUBSET Credentials, outcome : {"none", "refused", "gave_up"}]

Typed ==
  /\ window \in [Budgets -> Windows]
  /\ recent \in [Budgets -> [Ages -> Nat]]
  /\ call \in [Workers -> Calls]

(* What a window has let pass. *)
LetPass(w) == MinOf(w.hits, Limit)

(* P adds up the calls of each age: those since the window w was opened are  *)
(* the ones it has let pass, those before are of one other window at most.   *)
Counted(P, f, w) ==
  /\ IsPrefix(P, f, Minute)
  /\ w.left = 0 => P[Minute] <= Limit /\ P[1] = 0
  /\ w.left > 0 => LET opened == Minute - w.left + 1 IN
       P[opened] <= LetPass(w) /\ P[Minute] - P[opened] <= Limit

CallsAreCounted ==
  \A b \in Budgets : \E P \in [0..Minute -> Int] : Counted(P, recent[b], window[b])

LEMMA ConstantFacts ==
  /\ Limit \in Nat /\ Limit >= 1 /\ Minute \in Nat /\ Minute >= 1
  /\ Attempts \in Nat /\ Attempts >= 1
  /\ BaseDelay \in Nat /\ MaxDelay \in Nat
  /\ 0 \in 0..Minute /\ 1 \in 0..Minute /\ Minute \in 0..Minute
BY GateConstants

LEMMA HitKeepsWindows ==
  ASSUME NEW w \in Windows
  PROVE  /\ Hit(w) \in Windows /\ Hit(w).left >= 1
         /\ w.left = 0 => Hit(w).left = Minute /\ Hit(w).hits = 1
         /\ w.left > 0 => Hit(w).left = w.left
         /\ Hit(w).hits <= Limit => LetPass(Hit(w)) = LetPass(w) + 1
         /\ Hit(w).hits > Limit => w.left > 0 /\ LetPass(Hit(w)) = LetPass(w) /\ LetPass(w) = Limit
BY ConstantFacts DEF Windows, Hit, MinOf, LetPass

(* The steps of a prefix sum. *)
LEMMA PrefixSteps ==
  ASSUME NEW f \in [Ages -> Nat], NEW P \in [0..Minute -> Int], IsPrefix(P, f, Minute)
  PROVE  /\ P[0] = 0 /\ P[1] = f[1]
         /\ \A k \in 1..Minute : P[k - 1] <= P[k]
<1>1. P[0] = 0
  BY DEF IsPrefix
<1>2. ASSUME NEW k \in 1..Minute PROVE P[k - 1] <= P[k] /\ P[k] = P[k - 1] + f[k]
  <2>1. P[k] = P[k - 1] + f[k] /\ f[k] \in Nat /\ P[k - 1] \in Int
    BY ConstantFacts DEF IsPrefix, Ages
  <2> QED
    BY <2>1
<1>3. 1 \in 1..Minute /\ f[1] \in Nat
  BY ConstantFacts DEF Ages
<1>4. P[1] = P[1 - 1] + f[1]
  BY <1>2, <1>3
<1> QED
  BY <1>1, <1>2, <1>3, <1>4

LEMMA TickCounts ==
  ASSUME NEW f \in [Ages -> Nat], NEW w \in Windows, NEW P \in [0..Minute -> Int],
         Counted(P, f, w)
  PROVE  \E Q \in [0..Minute -> Int] :
           Counted(Q, [age \in Ages |-> IF age = 1 THEN 0 ELSE f[age - 1]],
                   IF w.left <= 1 THEN [left |-> 0, hits |-> 0] ELSE [w EXCEPT !.left = @ - 1])
<1> DEFINE Q == [k \in 0..Minute |-> IF k = 0 THEN 0 ELSE P[k - 1]]
           g == [age \in Ages |-> IF age = 1 THEN 0 ELSE f[age - 1]]
           v == IF w.left <= 1 THEN [left |-> 0, hits |-> 0] ELSE [w EXCEPT !.left = @ - 1]
<1>1. /\ IsPrefix(P, f, Minute) /\ P[0] = 0
      /\ \A k \in 1..Minute : P[k - 1] <= P[k] /\ P[k] = P[k - 1] + f[k]
  BY PrefixSteps DEF Counted, IsPrefix
<1>2. Q \in [0..Minute -> Int] /\ Q[0] = 0 /\ \A k \in 1..Minute : Q[k] = P[k - 1]
  BY ConstantFacts
<1>3. ASSUME NEW k \in 1..Minute PROVE Q[k] = Q[k - 1] + g[k]
  <2>1. CASE k = 1
    BY <1>1, <1>2, <2>1, ConstantFacts DEF Ages
  <2>2. CASE k # 1
    <3>1. k - 1 \in 1..Minute /\ g[k] = f[k - 1] /\ Q[k - 1] = P[(k - 1) - 1] /\ Q[k] = P[k - 1]
      BY <1>2, <2>2, ConstantFacts DEF Ages
    <3>2. P[k - 1] = P[(k - 1) - 1] + f[k - 1]
      BY <1>1, <3>1
    <3> QED
      BY <3>1, <3>2
  <2> QED
    BY <2>1, <2>2
<1>4. IsPrefix(Q, g, Minute)
  BY <1>2, <1>3 DEF IsPrefix
<1> HIDE DEF Q, g
<1>5. w.left \in 0..Minute /\ w.hits \in 0..(Limit + 1) /\ LetPass(w) <= Limit
  BY ConstantFacts DEF Windows, LetPass, MinOf
<1>6. Q[Minute] = P[Minute - 1] /\ P[Minute - 1] <= P[Minute] /\ Q[1] = 0
      /\ P[Minute - 1] \in Int /\ P[Minute] \in Int /\ 1 \in 1..Minute /\ Minute \in 1..Minute
  BY <1>1, <1>2, ConstantFacts
<1>7. CASE w.left <= 1
  <2>1. P[Minute] <= Limit
    <3>1. CASE w.left = 0
      BY <3>1 DEF Counted
    <3>2. CASE w.left # 0
      <4>1. w.left = 1
        BY <1>5, <1>7, <3>2
      <4>2. P[Minute - 1 + 1] <= LetPass(w)
        BY <4>1 DEF Counted
      <4>3. LetPass(w) \in Int /\ Limit \in Int /\ Minute - 1 + 1 = Minute
        BY <1>5, ConstantFacts DEF LetPass, MinOf
      <4> QED
        BY <1>5, <1>6, <4>2, <4>3
    <3> QED
      BY <3>1, <3>2
  <2>2. v.left = 0
    BY <1>7
  <2>3. Q[Minute] <= Limit /\ Q[1] = 0
    BY <1>6, <2>1, ConstantFacts
  <2>4. Counted(Q, g, v)
    BY <1>4, <2>2, <2>3 DEF Counted
  <2> QED
    BY <1>2, <2>4 DEF g
<1>8. CASE w.left > 1
  <2>1. /\ v.left = w.left - 1 /\ v.hits = w.hits /\ v.left > 0 /\ v.left # 0
    <3>1. w \in [left : 0..Minute, hits : 0..(Limit + 1)] /\ ~(w.left <= 1) /\ w.left \in Int
      BY <1>5, <1>8, ConstantFacts DEF Windows
    <3>2. v = [w EXCEPT !.left = w.left - 1]
      BY <3>1
    <3> HIDE DEF v
    <3>3. v.left = w.left - 1 /\ v.hits = w.hits
      BY <3>1, <3>2
    <3>4. w.left - 1 > 0 /\ w.left - 1 # 0
      BY ONLY <1>8, <3>1
    <3> QED
      BY <3>3, <3>4
  <2> DEFINE opened == Minute - w.left + 1
  <2>2. opened \in 0..Minute /\ opened + 1 \in 1..Minute /\ Minute - v.left + 1 = opened + 1
    <3> DEFINE l == w.left
               k == v.left
    <3>1. l \in 0..Minute /\ l > 1 /\ k = l - 1 /\ Minute \in Nat
      BY <1>5, <1>8, <2>1, ConstantFacts
    <3> HIDE DEF l, k
    <3>2. Minute - l + 1 \in 0..Minute /\ (Minute - l + 1) + 1 \in 1..Minute
          /\ Minute - k + 1 = (Minute - l + 1) + 1
      BY ONLY <3>1
    <3> QED
      BY <3>2 DEF l, k
  <2>3. P[opened] <= LetPass(w) /\ P[Minute] - P[opened] <= Limit /\ P[opened] \in Int
    BY <1>5, <1>8, <2>2 DEF Counted
  <2> HIDE DEF opened
  <2>4. Q[opened + 1] = P[opened]
    BY <1>2, <2>2
  <2>5. Q[opened + 1] <= LetPass(w) /\ Q[Minute] - Q[opened + 1] <= Limit
    <3> DEFINE a == P[Minute]
               b == P[Minute - 1]
               c == P[opened]
    <3>1. a \in Int /\ b \in Int /\ c \in Int /\ b <= a /\ a - c <= Limit /\ Limit \in Int
      BY <1>6, <2>3, ConstantFacts
    <3>2. Q[Minute] = b /\ Q[opened + 1] = c /\ c <= LetPass(w)
      BY <1>6, <2>3, <2>4
    <3> HIDE DEF a, b, c
    <3>3. b - c <= Limit
      BY ONLY <3>1
    <3> QED
      BY <3>2, <3>3
  <2>6. LetPass(v) = LetPass(w)
    BY <2>1 DEF LetPass
  <2>7. Counted(Q, g, v)
    BY <1>4, <2>1, <2>2, <2>5, <2>6 DEF Counted
  <2> QED
    BY <1>2, <2>7 DEF g
<1>9. w.left <= 1 \/ w.left > 1
  BY <1>5, ConstantFacts
<1> QED
  BY <1>7, <1>8, <1>9

LEMMA AdmittedCounts ==
  ASSUME NEW f \in [Ages -> Nat], NEW w \in Windows, NEW P \in [0..Minute -> Int],
         Counted(P, f, w), Hit(w).hits <= Limit
  PROVE  \E Q \in [0..Minute -> Int] : Counted(Q, [f EXCEPT ![1] = @ + 1], Hit(w))
<1> DEFINE Q == [k \in 0..Minute |-> IF k = 0 THEN 0 ELSE P[k] + 1]
           g == [f EXCEPT ![1] = @ + 1]
<1>1. /\ IsPrefix(P, f, Minute) /\ P[0] = 0
      /\ \A k \in 1..Minute : P[k] = P[k - 1] + f[k]
  BY DEF Counted, IsPrefix
<1>2. Q \in [0..Minute -> Int] /\ Q[0] = 0 /\ \A k \in 1..Minute : Q[k] = P[k] + 1
  BY ConstantFacts
<1>3. ASSUME NEW k \in 1..Minute PROVE Q[k] = Q[k - 1] + g[k]
  <2>1. P[k] = P[k - 1] + f[k] /\ f[k] \in Nat /\ P[k - 1] \in Int /\ Q[k] = P[k] + 1
    BY <1>1, <1>2, ConstantFacts DEF Ages
  <2>2. CASE k = 1
    <3>1. g[k] = f[k] + 1 /\ Q[k - 1] = 0 /\ P[k - 1] = 0
      BY <1>1, <1>2, <2>2, ConstantFacts DEF Ages
    <3> QED
      BY <2>1, <3>1
  <2>3. CASE k # 1
    <3>1. g[k] = f[k] /\ k - 1 \in 1..Minute
      BY <2>3, ConstantFacts DEF Ages
    <3>2. Q[k - 1] = P[k - 1] + 1
      BY <1>2, <3>1
    <3> HIDE DEF Q, g
    <3> QED
      BY <2>1, <3>1, <3>2
  <2> QED
    BY <2>2, <2>3
<1>4. IsPrefix(Q, g, Minute)
  BY <1>2, <1>3 DEF IsPrefix
<1> HIDE DEF Q, g
<1>5. w.left \in 0..Minute /\ LetPass(w) \in 0..Limit
  BY ConstantFacts DEF Windows, LetPass, MinOf
<1>6. /\ 1 \in 1..Minute /\ Minute \in 1..Minute
      /\ P[1] \in Int /\ Q[1] = P[1] + 1 /\ P[Minute] \in Int /\ Q[Minute] = P[Minute] + 1
  BY <1>2, ConstantFacts
<1>7. LetPass(Hit(w)) = LetPass(w) + 1 /\ Hit(w).left > 0 /\ Hit(w).left # 0
  <2>1. Hit(w) \in Windows /\ Hit(w).left >= 1 /\ LetPass(Hit(w)) = LetPass(w) + 1
    BY HitKeepsWindows
  <2>2. Hit(w).left \in 0..Minute
    BY <2>1 DEF Windows
  <2> QED
    BY ONLY <2>1, <2>2, ConstantFacts
<1>8. CASE w.left = 0
  <2>1. Hit(w).left = Minute /\ Minute - Minute + 1 = 1
    BY <1>8, HitKeepsWindows, ConstantFacts
  <2>2. P[Minute] <= Limit /\ P[1] = 0
    BY <1>8 DEF Counted
  <2>3. Q[1] <= LetPass(w) + 1 /\ Q[Minute] - Q[1] <= Limit
    BY <1>5, <1>6, <2>2, ConstantFacts
  <2>4. Counted(Q, g, Hit(w))
    BY <1>4, <1>7, <2>1, <2>3 DEF Counted
  <2> QED
    BY <1>2, <2>4 DEF g
<1>9. CASE w.left > 0
  <2> DEFINE opened == Minute - w.left + 1
  <2>1. opened \in 1..Minute /\ Hit(w).left = w.left
    BY <1>5, <1>9, HitKeepsWindows, ConstantFacts
  <2>2. P[opened] <= LetPass(w) /\ P[Minute] - P[opened] <= Limit
    BY <1>9 DEF Counted
  <2>3. P[opened] \in Int /\ Q[opened] = P[opened] + 1
    BY <1>2, <2>1
  <2>4. Minute - Hit(w).left + 1 = opened
    BY <2>1
  <2> HIDE DEF opened
  <2>5. Q[opened] <= LetPass(w) + 1 /\ Q[Minute] - Q[opened] <= Limit
    <3> DEFINE a == P[Minute]
               c == P[opened]
               l == LetPass(w)
    <3>1. a \in Int /\ c \in Int /\ l \in Int /\ c <= l /\ a - c <= Limit /\ Limit \in Int
      BY <1>5, <1>6, <2>2, <2>3, ConstantFacts
    <3>2. Q[Minute] = a + 1 /\ Q[opened] = c + 1
      BY <1>6, <2>3
    <3> HIDE DEF a, c, l
    <3>3. c + 1 <= l + 1 /\ (a + 1) - (c + 1) <= Limit
      BY ONLY <3>1
    <3> QED
      BY <3>2, <3>3 DEF l
  <2>6. Counted(Q, g, Hit(w))
    BY <1>4, <1>7, <2>4, <2>5 DEF Counted
  <2> QED
    BY <1>2, <2>6 DEF g
<1>10. w.left = 0 \/ w.left > 0
  BY <1>5, ConstantFacts
<1> QED
  BY <1>8, <1>9, <1>10

LEMMA RefusedCounts ==
  ASSUME NEW f, NEW w \in Windows, NEW P, Counted(P, f, w), Hit(w).hits > Limit
  PROVE  Counted(P, f, Hit(w))
<1>1. w.left > 0 /\ Hit(w).left = w.left /\ LetPass(Hit(w)) = LetPass(w)
  BY HitKeepsWindows
<1>2. w.left # 0 /\ Hit(w).left # 0
  BY <1>1, ConstantFacts DEF Windows
<1> QED
  BY <1>1, <1>2 DEF Counted

LEMMA FreshCounts ==
  \E P \in [0..Minute -> Int] : Counted(P, [age \in Ages |-> 0], [left |-> 0, hits |-> 0])
<1> DEFINE P == [k \in 0..Minute |-> 0]
<1>1. P \in [0..Minute -> Int] /\ P[0] = 0 /\ P[1] = 0 /\ P[Minute] = 0
  BY ConstantFacts
<1>2. IsPrefix(P, [age \in Ages |-> 0], Minute)
  BY ConstantFacts DEF IsPrefix, Ages
<1> HIDE DEF P
<1>3. Counted(P, [age \in Ages |-> 0], [left |-> 0, hits |-> 0])
  BY <1>1, <1>2, ConstantFacts DEF Counted
<1> QED
  BY <1>1, <1>3

LEMMA CountedIsBounded ==
  ASSUME Typed, CallsAreCounted PROVE BurstIsBounded
<1> SUFFICES ASSUME NEW b \in Budgets PROVE SumFunction(recent[b]) <= 2 * Limit
  BY DEF BurstIsBounded
<1> DEFINE f == recent[b]
           w == window[b]
<1>1. f \in [Ages -> Nat] /\ w \in Windows
  BY DEF Typed
<1>2. PICK P \in [0..Minute -> Int] : Counted(P, f, w)
  BY DEF CallsAreCounted
<1> HIDE DEF f, w
<1>3. \A k \in 1..Minute : f[k] \in Int
  BY <1>1 DEF Ages
<1>4. SumFunctionOnSet(f, 1..Minute) = P[Minute]
  BY <1>2, <1>3, ConstantFacts, SumIsPrefixSum DEF Counted
<1>5. DOMAIN f = 1..Minute
  BY <1>1 DEF Ages
<1>6. SumFunction(f) = P[Minute]
  BY <1>4, <1>5 DEF SumFunction
<1>7. w.left \in 0..Minute /\ LetPass(w) \in 0..Limit
  BY <1>1, ConstantFacts DEF Windows, LetPass, MinOf
<1>8. P[Minute] \in Int
  BY <1>2, ConstantFacts
<1>9. P[Minute] <= 2 * Limit
  <2>1. CASE w.left = 0
    BY <1>2, <1>8, <2>1, ConstantFacts DEF Counted
  <2>2. CASE w.left > 0
    <3> DEFINE opened == Minute - w.left + 1
    <3>1. opened \in 0..Minute
      BY <1>7, <2>2, ConstantFacts
    <3>2. P[opened] <= LetPass(w) /\ P[Minute] - P[opened] <= Limit /\ P[opened] \in Int
      BY <1>2, <2>2, <3>1 DEF Counted
    <3> HIDE DEF opened
    <3> QED
      BY <1>7, <1>8, <3>2, ConstantFacts
  <2> QED
    BY <1>7, <2>1, <2>2, ConstantFacts
<1> QED
  BY <1>6, <1>9 DEF f

(* What serving a call on b does: nothing to the limiter, or it is let pass *)
(* and counted, or the window is full.                                      *)
Ignored(b, admitted) == ~admitted /\ window' = window /\ recent' = recent

Passed(b, admitted) ==
  /\ admitted /\ Hit(window[b]).hits <= Limit
  /\ window' = [window EXCEPT ![b] = Hit(@)]
  /\ recent' = [recent EXCEPT ![b][1] = @ + 1]

Limited(b, admitted) ==
  /\ ~admitted /\ Hit(window[b]).hits > Limit
  /\ window' = [window EXCEPT ![b] = Hit(@)] /\ recent' = recent

Served(b, admitted) ==
  Ignored(b, admitted) \/ Passed(b, admitted) \/ Limited(b, admitted)

LEMMA ServingCounts ==
  ASSUME Typed, NEW b \in Budgets, NEW cred, NEW answer \in Answers(b, cred),
         Serve(b, cred, answer)
  PROVE  Served(b, Admitted(cred, answer)) /\ (answer = "429" => Limited(b, Admitted(cred, answer)))
<1> DEFINE gate == RequireApiKey(Setting, cred)
<1>1. Trusted(cred) <=> IsTrustedIngest(Setting, cred)
  BY DEF Trusted, IsTrustedIngest
<1>2. gate \in {"pass", "401", "503"}
  BY DEF RequireApiKey
<1>3. Hit(window[b]).hits \in Nat
  BY HitKeepsWindows, ConstantFacts DEF Typed, Windows
<1>4. CASE ~Charged(cred)
  <2>1. answer # "429" /\ ~Admitted(cred, answer)
    BY <1>1, <1>2, <1>4 DEF Answers, Charged, Admitted
  <2>2. window' = window /\ recent' = recent
    BY <1>4, <2>1 DEF Serve
  <2> QED
    BY <2>1, <2>2 DEF Served, Ignored
<1>5. CASE Charged(cred) /\ Hit(window[b]).hits > Limit
  <2>1. answer = "429" /\ ~Admitted(cred, answer)
    BY <1>1, <1>5 DEF Answers, Charged, Admitted
  <2>2. window' = [window EXCEPT ![b] = Hit(@)] /\ recent' = recent
    BY <1>5, <2>1 DEF Serve
  <2> QED
    BY <1>5, <2>1, <2>2 DEF Served, Limited
<1>6. CASE Charged(cred) /\ ~(Hit(window[b]).hits > Limit)
  <2>1. answer # "429" /\ Admitted(cred, answer) /\ Hit(window[b]).hits <= Limit
    BY <1>1, <1>3, <1>6, ConstantFacts DEF Answers, Charged, Admitted
  <2>2. window' = [window EXCEPT ![b] = Hit(@)] /\ recent' = [recent EXCEPT ![b][1] = @ + 1]
    BY <1>6, <2>1 DEF Serve
  <2> QED
    BY <2>1, <2>2 DEF Served, Passed
<1> QED
  BY <1>4, <1>5, <1>6

LEMMA ServedKeepsCounts ==
  ASSUME Typed, CallsAreCounted, NEW b \in Budgets, NEW admitted, Served(b, admitted)
  PROVE  /\ CallsAreCounted'
         /\ window' \in [Budgets -> Windows] /\ recent' \in [Budgets -> [Ages -> Nat]]
<1>1. window \in [Budgets -> Windows] /\ recent \in [Budgets -> [Ages -> Nat]] /\ 1 \in Ages
  BY ConstantFacts DEF Typed, Ages
<1>2. CASE Ignored(b, admitted)
  BY <1>1, <1>2 DEF Ignored, CallsAreCounted
<1>3. Hit(window[b]) \in Windows /\ [recent[b] EXCEPT ![1] = @ + 1] \in [Ages -> Nat]
  BY <1>1, HitKeepsWindows
<1>4. PICK P \in [0..Minute -> Int] : Counted(P, recent[b], window[b])
  BY DEF CallsAreCounted
<1>5. CASE Passed(b, admitted)
  <2>1. /\ window' \in [Budgets -> Windows] /\ recent' \in [Budgets -> [Ages -> Nat]]
        /\ window'[b] = Hit(window[b]) /\ recent'[b] = [recent[b] EXCEPT ![1] = @ + 1]
        /\ \A a \in Budgets \ {b} : window'[a] = window[a] /\ recent'[a] = recent[a]
    BY <1>1, <1>3, <1>5 DEF Passed
  <2>2. \E Q \in [0..Minute -> Int] : Counted(Q, [recent[b] EXCEPT ![1] = @ + 1], Hit(window[b]))
    BY <1>1, <1>4, <1>5, AdmittedCounts DEF Passed
  <2>3. ASSUME NEW a \in Budgets
        PROVE  \E Q \in [0..Minute -> Int] : Counted(Q, recent'[a], window'[a])
    <3>1. CASE a = b
      BY <2>1, <2>2, <3>1
    <3>2. CASE a # b
      BY <2>1, <3>2 DEF CallsAreCounted
    <3> QED
      BY <3>1, <3>2
  <2> QED
    BY <2>1, <2>3 DEF CallsAreCounted
<1>6. CASE Limited(b, admitted)
  <2>1. /\ window' \in [Budgets -> Windows] /\ recent' = recent /\ window'[b] = Hit(window[b])
        /\ \A a \in Budgets \ {b} : window'[a] = window[a]
    BY <1>1, <1>3, <1>6 DEF Limited
  <2>2. Counted(P, recent[b], Hit(window[b]))
    BY <1>1, <1>4, <1>6, RefusedCounts DEF Limited
  <2>3. ASSUME NEW a \in Budgets
        PROVE  \E Q \in [0..Minute -> Int] : Counted(Q, recent'[a], window'[a])
    <3>1. CASE a = b
      BY <1>4, <2>1, <2>2, <3>1
    <3>2. CASE a # b
      BY <2>1, <3>2 DEF CallsAreCounted
    <3> QED
      BY <3>1, <3>2
  <2> QED
    BY <1>1, <2>1, <2>3 DEF CallsAreCounted
<1> QED
  BY <1>2, <1>5, <1>6 DEF Served

-----------------------------------------------------------------------------
(* Who outnumbers a client. *)

Waited(k) == SumFunctionOnSet([n \in 1..Attempts |-> Delay(n)], 1..k)

(* The present window is of others, or began before so much was waited. *)
Crowded(c, w, others, waited) ==
  c.outnumbered >= others + LetPass(w) \/ w.left + (waited - c.wait) <= Minute

(* From its second attempt on, what a client has met since the first 429 is *)
(* in the window of that answer or others'; before the last attempt one     *)
(* window of others has passed.                                             *)
Client(c, w) ==
  c.undisturbed =>
    /\ c.attempt \in 2..(Attempts - 1) => Crowded(c, w, 0, Waited(c.attempt - 1))
    /\ c.attempt = Attempts => c.outnumbered >= Limit /\ Crowded(c, w, Limit, Delay(Attempts - 1))
    /\ c.outcome = "gave_up" => c.outnumbered = 2 * Limit

ClientsAreCrowded == \A v \in Workers : Client(call[v], window[BudgetOf[v]])

LEMMA DelaysAreIntegers ==
  ASSUME NEW n \in Nat \ {0} PROVE Delay(n) \in Int
<1>1. n - 1 \in Nat
  OBVIOUS
<1>2. 2 ^ (n - 1) \in Int
  BY <1>1
<1> DEFINE p == 2 ^ (n - 1)
<1>3. p \in Int
  BY <1>2
<1> HIDE DEF p
<1>4. BaseDelay * p \in Int
  BY <1>3, ConstantFacts
<1> QED
  BY <1>4, ConstantFacts DEF Delay, MinOf, p

LEMMA WaitsAddUp ==
  /\ Waited(0) = 0
  /\ \A k \in 0..Attempts : Waited(k) \in Int
  /\ \A k \in 1..Attempts : Waited(k) = Waited(k - 1) + Delay(k)
<1> DEFINE f == [n \in 1..Attempts |-> Delay(n)]
<1>1. \A k \in 1..Attempts : f[k] \in Int /\ f[k] = Delay(k)
  BY DelaysAreIntegers, ConstantFacts
<1> HIDE DEF f
<1>2. PICK P \in [0..Attempts -> Int] : IsPrefix(P, f, Attempts)
  BY <1>1, SumIsThere, ConstantFacts
<1>3. ASSUME NEW k \in 0..Attempts PROVE Waited(k) = P[k]
  <2>1. SumFunctionOnSet(f, 1..k) = P[k]
    BY <1>1, <1>2, SumIsPrefixSum, ConstantFacts
  <2> QED
    BY <2>1 DEF Waited, f
<1>4. 0 \in 0..Attempts /\ \A k \in 1..Attempts : k \in 0..Attempts /\ k - 1 \in 0..Attempts
  BY ConstantFacts
<1> QED
  BY <1>1, <1>2, <1>3, <1>4 DEF IsPrefix

(* There are enough attempts to wait that long. *)
LEMMA AttemptsAreMany ==
  /\ Attempts >= 3 /\ Attempts - 1 \in 2..Attempts /\ Attempts - 2 \in 1..Attempts
  /\ Waited(Attempts - 2) >= Minute /\ Delay(Attempts - 1) >= Minute
  /\ Delay(Attempts - 1) \in Int /\ Waited(Attempts - 2) \in Int
<1>1. Waited(Attempts - 2) >= Minute /\ Delay(Attempts - 1) >= Minute
  BY WaitsOutlastTheWindow DEF Waited
<1>2. ASSUME Attempts <= 2 PROVE FALSE
  <2>1. 1..(Attempts - 2) = 1..0
    BY <1>2, ConstantFacts
  <2>2. Waited(Attempts - 2) = 0
    BY <2>1, WaitsAddUp DEF Waited
  <2> QED
    BY <1>1, <2>2, ConstantFacts
<1>3. Attempts >= 3
  BY <1>2, ConstantFacts
<1>4. Attempts - 1 \in Nat \ {0} /\ Attempts - 2 \in 0..Attempts
  BY <1>3, ConstantFacts
<1> QED
  BY <1>1, <1>3, <1>4, ConstantFacts, DelaysAreIntegers, WaitsAddUp

LEMMA CallFacts ==
  ASSUME NEW c \in Calls
  PROVE  /\ c.attempt \in 0..Attempts /\ c.wait \in Int /\ c.outnumbered \in 0..(2 * Limit)
         /\ c.undisturbed \in BOOLEAN
BY DEF Calls

LEMMA WindowFacts ==
  ASSUME NEW w \in Windows
  PROVE  w.left \in 0..Minute /\ LetPass(w) \in 0..Limit /\ (w.left = 0 => LetPass(w) = 0)
BY ConstantFacts DEF Windows, LetPass, MinOf

(* A call of another that is let pass.                                       *)
LEMMA OthersCrowd ==
  ASSUME NEW c \in Calls, NEW w \in Windows, Client(c, w), Hit(w).hits <= Limit
  PROVE  Client([c EXCEPT !.outnumbered = MinOf(@ + 1, 2 * Limit)], Hit(w))
<1> DEFINE d == [c EXCEPT !.outnumbered = MinOf(@ + 1, 2 * Limit)]
           v == Hit(w)
<1>1. /\ d.attempt = c.attempt /\ d.wait = c.wait /\ d.undisturbed = c.undisturbed
      /\ d.outcome = c.outcome /\ d.outnumbered = MinOf(c.outnumbered + 1, 2 * Limit)
  BY DEF Calls
<1>2. LetPass(v) = LetPass(w) + 1 /\ v \in Windows
      /\ (w.left > 0 => v.left = w.left) /\ (w.left = 0 => LetPass(w) = 0)
  BY HitKeepsWindows, WindowFacts
<1>3. LetPass(v) \in 0..Limit /\ LetPass(w) \in 0..Limit /\ w.left \in 0..Minute /\ v.left \in 0..Minute
  BY <1>2, WindowFacts
<1>4. c.outnumbered \in 0..(2 * Limit) /\ c.wait \in Int
  BY CallFacts
<1> HIDE DEF d, v
<1>5. ASSUME NEW others \in {0, Limit}, NEW waited \in Int, c.outnumbered >= others,
             Crowded(c, w, others, waited)
      PROVE  Crowded(d, v, others, waited)
  <2>1. CASE c.outnumbered >= others + LetPass(w)
    BY <1>1, <1>2, <1>3, <1>4, <2>1, ConstantFacts DEF Crowded, MinOf
  <2>2. CASE ~(c.outnumbered >= others + LetPass(w))
    <3>1. w.left # 0
      BY <1>2, <1>3, <1>4, <1>5, <2>2, ConstantFacts
    <3>2. v.left = w.left
      BY <1>2, <1>3, <3>1, ConstantFacts
    <3>3. w.left + (waited - c.wait) <= Minute
      BY <1>5, <2>2 DEF Crowded
    <3> QED
      BY <1>1, <3>2, <3>3 DEF Crowded
  <2> QED
    BY <2>1, <2>2
<1>6. SUFFICES ASSUME d.undisturbed
      PROVE  /\ c.attempt \in 2..(Attempts - 1) => Crowded(d, v, 0, Waited(c.attempt - 1))
             /\ c.attempt = Attempts => d.outnumbered >= Limit /\ Crowded(d, v, Limit, Delay(Attempts - 1))
             /\ c.outcome = "gave_up" => d.outnumbered = 2 * Limit
  BY <1>1 DEF Client, d, v
<1>7. /\ c.attempt \in 2..(Attempts - 1) => Crowded(c, w, 0, Waited(c.attempt - 1))
      /\ c.attempt = Attempts => c.outnumbered >= Limit /\ Crowded(c, w, Limit, Delay(Attempts - 1))
      /\ c.outcome = "gave_up" => c.outnumbered = 2 * Limit
  BY <1>1, <1>6 DEF Client
<1>8. ASSUME c.attempt \in 2..(Attempts - 1) PROVE Crowded(d, v, 0, Waited(c.attempt - 1))
  <2>1. Waited(c.attempt - 1) \in Int
    <3>1. c.attempt - 1 \in 0..Attempts
      BY <1>8, ConstantFacts
    <3> QED
      BY <3>1, WaitsAddUp
  <2> QED
    BY <1>4, <1>5, <1>7, <1>8, <2>1, ConstantFacts
<1>9. ASSUME c.attempt = Attempts
      PROVE  d.outnumbered >= Limit /\ Crowded(d, v, Limit, Delay(Attempts - 1))
  <2>1. Crowded(d, v, Limit, Delay(Attempts - 1))
    BY <1>5, <1>7, <1>9, AttemptsAreMany
  <2> QED
    BY <1>1, <1>4, <1>7, <1>9, <2>1, ConstantFacts DEF MinOf
<1>10. ASSUME c.outcome = "gave_up" PROVE d.outnumbered = 2 * Limit
  BY <1>1, <1>7, <1>10, ConstantFacts DEF MinOf
<1> QED
  BY <1>8, <1>9, <1>10

(* A call that is refused. *)
LEMMA RefusedDoNotCrowd ==
  ASSUME NEW c, NEW w \in Windows, Client(c, w), Hit(w).hits > Limit
  PROVE  Client(c, Hit(w))
<1>1. Hit(w).left = w.left /\ LetPass(Hit(w)) = LetPass(w)
  BY HitKeepsWindows
<1> QED
  BY <1>1 DEF Client, Crowded

(* One that is not waiting is not concerned. *)
LEMMA IdleIsNotCrowded ==
  ASSUME NEW c \in Calls, NEW w, NEW v, Client(c, w), c.attempt = 0
  PROVE  Client(c, v)
<1>1. c.attempt # Attempts /\ c.attempt \notin 2..(Attempts - 1)
  BY ConstantFacts
<1> QED
  BY <1>1 DEF Client

(* A call that begins or has ended. *)
Apart(n, cred, outcome) ==
  [attempt |-> n, wait |-> 0, outnumbered |-> 0, undisturbed |-> TRUE,
   cred |-> cred, outcome |-> outcome]

LEMMA ApartIsNotCrowded ==
  ASSUME NEW w, NEW n \in {0, 1}, NEW cred \in SUBSET Credentials,
         NEW outcome \in {"none", "refused"}
  PROVE  Apart(n, cred, outcome) \in Calls /\ Client(Apart(n, cred, outcome), w)
<1>1. n # Attempts /\ n \notin 2..(Attempts - 1) /\ n \in 0..Attempts
  BY AttemptsAreMany, ConstantFacts
<1>2. Apart(n, cred, outcome) \in Calls
  BY <1>1, ConstantFacts DEF Apart, Calls
<1>3. Client(Apart(n, cred, outcome), w)
  BY <1>1 DEF Client, Apart
<1> QED
  BY <1>2, <1>3

(* A process starts with empty windows. *)
LEMMA FreshWindowsDoNotCrowd ==
  ASSUME NEW c \in Calls, NEW w, Client(c, w)
  PROVE  Client(c, [left |-> 0, hits |-> 0])
<1> DEFINE v == [left |-> 0, hits |-> 0]
<1>1. LetPass(v) = 0
  BY ConstantFacts DEF LetPass, MinOf
<1>2. c.outnumbered \in Nat
  BY CallFacts, ConstantFacts
<1> HIDE DEF v
<1>3. ASSUME NEW others \in {0, Limit}, NEW waited, c.outnumbered >= others
      PROVE  Crowded(c, v, others, waited)
  BY <1>1, <1>2, <1>3, ConstantFacts DEF Crowded
<1>4. c.outnumbered >= 0
  BY <1>2
<1>5. Client(c, v)
  BY <1>3, <1>4 DEF Client
<1> QED
  BY <1>5 DEF v

(* A 429 of its own. *)
LEMMA LimitedCrowd ==
  ASSUME NEW c \in Calls, NEW w \in Windows, Client(c, w), Hit(w).hits > Limit,
         c.attempt > 0, c.wait = 0
  PROVE  After(c, "429") \in Calls /\ Client(After(c, "429"), Hit(w))
<1> DEFINE d == After(c, "429")
           v == Hit(w)
<1>1. v \in Windows /\ v.left = w.left /\ w.left > 0 /\ LetPass(v) = Limit /\ LetPass(w) = Limit
  BY HitKeepsWindows
<1>2. w.left \in 0..Minute /\ c.outnumbered \in 0..(2 * Limit) /\ c.attempt \in 1..Attempts
  BY CallFacts, WindowFacts, ConstantFacts
<1>3. c.undisturbed =>
        /\ c.attempt \in 2..(Attempts - 1) => Crowded(c, w, 0, Waited(c.attempt - 1))
        /\ c.attempt = Attempts => c.outnumbered >= Limit /\ Crowded(c, w, Limit, Delay(Attempts - 1))
  BY DEF Client
<1> HIDE DEF v
<1>4. CASE c.attempt = Attempts
  <2>1. d = [c EXCEPT !.attempt = 0, !.outcome = "gave_up"]
    BY <1>4, ConstantFacts DEF After
  <2> HIDE DEF d
  <2>2. d \in Calls /\ d.attempt = 0 /\ d.outnumbered = c.outnumbered /\ d.undisturbed = c.undisturbed
    <3>1. d = [attempt |-> 0, wait |-> c.wait, outnumbered |-> c.outnumbered,
               undisturbed |-> c.undisturbed, cred |-> c.cred, outcome |-> "gave_up"]
      BY <2>1 DEF Calls
    <3> QED
      BY <3>1, ConstantFacts DEF Calls
  <2>3. c.undisturbed => c.outnumbered = 2 * Limit
    <3>1. ASSUME c.undisturbed PROVE Crowded(c, w, Limit, Delay(Attempts - 1))
      BY <1>3, <1>4, <3>1
    <3>2. ~(w.left + (Delay(Attempts - 1) - c.wait) <= Minute)
      BY <1>1, <1>2, AttemptsAreMany, ConstantFacts
    <3> QED
      BY <1>1, <1>2, <3>1, <3>2, ConstantFacts DEF Crowded
  <2>4. d.attempt # Attempts /\ d.attempt \notin 2..(Attempts - 1)
    BY <2>2, ConstantFacts
  <2> QED
    BY <2>2, <2>3, <2>4 DEF Client, d, v
<1>5. CASE c.attempt # Attempts
  <2> DEFINE a == c.attempt
  <2>1. a \in 1..(Attempts - 1) /\ a + 1 \in 2..Attempts /\ a \in Nat \ {0} /\ a < Attempts
    BY <1>2, <1>5, ConstantFacts
  <2>2. d = [c EXCEPT !.attempt = @ + 1, !.wait = Delay(c.attempt)]
    BY <1>5, <2>1, ConstantFacts DEF After
  <2>3. Delay(a) \in Int
    BY <2>1, DelaysAreIntegers
  <2> HIDE DEF d
  <2>4. /\ d \in Calls /\ d.attempt = a + 1 /\ d.wait = Delay(a)
        /\ d.outnumbered = c.outnumbered /\ d.undisturbed = c.undisturbed /\ d.outcome = c.outcome
    <3>1. d = [attempt |-> a + 1, wait |-> Delay(a), outnumbered |-> c.outnumbered,
               undisturbed |-> c.undisturbed, cred |-> c.cred, outcome |-> c.outcome]
      BY <2>2 DEF Calls
    <3>2. a + 1 \in 0..Attempts
      BY <2>1, ConstantFacts
    <3> QED
      BY <2>3, <3>1, <3>2 DEF Calls
  <2>5. ASSUME d.undisturbed, a + 1 \in 2..(Attempts - 1)
        PROVE  Crowded(d, v, 0, Waited((a + 1) - 1))
    <3>1. a \in 1..Attempts /\ a - 1 \in 0..Attempts /\ (a + 1) - 1 = a
      BY <2>1, ConstantFacts
    <3>2. Waited(a) = Waited(a - 1) + Delay(a) /\ Waited(a - 1) \in Int
      BY <3>1, WaitsAddUp
    <3>3. CASE a = 1
      <4>1. Waited(a) - d.wait = 0
        BY <2>3, <2>4, <3>2, <3>3, WaitsAddUp
      <4> QED
        BY <1>1, <1>2, <3>1, <4>1, ConstantFacts DEF Crowded
    <3>4. CASE a # 1
      <4>1. Crowded(c, w, 0, Waited(a - 1))
        BY <1>3, <2>1, <2>4, <2>5, <3>4, ConstantFacts
      <4>2. Waited(a) - d.wait = Waited(a - 1) - c.wait
        BY <2>3, <2>4, <3>2
      <4> QED
        BY <1>1, <2>4, <3>1, <4>1, <4>2 DEF Crowded
    <3> QED
      BY <3>3, <3>4
  <2>6. ASSUME d.undisturbed, a + 1 = Attempts
        PROVE  d.outnumbered >= Limit /\ Crowded(d, v, Limit, Delay(Attempts - 1))
    <3>1. a = Attempts - 1 /\ a \in 2..(Attempts - 1) /\ a - 1 = Attempts - 2
      BY <2>1, <2>6, AttemptsAreMany, ConstantFacts
    <3>2. Crowded(c, w, 0, Waited(Attempts - 2))
      BY <1>3, <2>4, <2>6, <3>1
    <3>3. ~(w.left + (Waited(Attempts - 2) - c.wait) <= Minute)
      BY <1>1, <1>2, AttemptsAreMany, ConstantFacts
    <3>4. c.outnumbered >= Limit
      BY <1>1, <1>2, <3>2, <3>3, ConstantFacts DEF Crowded
    <3>5. Delay(Attempts - 1) - d.wait = 0
      BY <2>3, <2>4, <3>1
    <3> QED
      BY <1>1, <1>2, <2>4, <3>4, <3>5, ConstantFacts DEF Crowded
  <2>7. d.undisturbed /\ d.outcome = "gave_up" => d.outnumbered = 2 * Limit
    BY <2>4 DEF Client
  <2>8. Client(d, v)
    BY <2>4, <2>5, <2>6, <2>7 DEF Client
  <2> QED
    BY <2>4, <2>8 DEF d, v
<1> QED
  BY <1>4, <1>5

(* A second passes. *)
LEMMA WindowTicks ==
  ASSUME NEW w \in Windows
  PROVE  (IF w.left <= 1 THEN [left |-> 0, hits |-> 0] ELSE [w EXCEPT !.left = @ - 1]) \in Windows
<1> DEFINE v == IF w.left <= 1 THEN [left |-> 0, hits |-> 0] ELSE [w EXCEPT !.left = @ - 1]
<1>1. w.left \in 0..Minute /\ w.hits \in 0..(Limit + 1)
  BY DEF Windows
<1>2. CASE w.left <= 1
  <2>1. v = [left |-> 0, hits |-> 0]
    BY <1>2
  <2> QED
    BY <2>1, ConstantFacts DEF Windows
<1>3. CASE ~(w.left <= 1)
  <2>1. v = [w EXCEPT !.left = w.left - 1] /\ w \in [left : 0..Minute, hits : 0..(Limit + 1)]
    BY <1>3 DEF Windows
  <2>2. v.left = w.left - 1 /\ v.hits = w.hits /\ v \in [left : 0..Minute, hits : 0..(Limit + 1)]
    BY <1>1, <1>3, <2>1, ConstantFacts
  <2> QED
    BY <1>1, <1>3, <2>2, ConstantFacts DEF Windows
<1> QED
  BY <1>2, <1>3

LEMMA TickDoesNotCrowd ==
  ASSUME NEW c \in Calls, NEW w \in Windows, Client(c, w)
  PROVE  /\ [c EXCEPT !.wait = Down(@)] \in Calls
         /\ Client([c EXCEPT !.wait = Down(@)],
                   IF w.left <= 1 THEN [left |-> 0, hits |-> 0] ELSE [w EXCEPT !.left = @ - 1])
<1> DEFINE d == [c EXCEPT !.wait = Down(@)]
           v == IF w.left <= 1 THEN [left |-> 0, hits |-> 0] ELSE [w EXCEPT !.left = @ - 1]
<1>1. c.wait \in Int /\ Down(c.wait) \in Int /\ Down(c.wait) >= c.wait - 1
  BY CallFacts DEF Down
<1>2. /\ d \in Calls /\ d.wait = Down(c.wait) /\ d.attempt = c.attempt /\ d.outcome = c.outcome
      /\ d.outnumbered = c.outnumbered /\ d.undisturbed = c.undisturbed
  BY <1>1 DEF Calls
<1>3. w.left \in 0..Minute /\ w.hits \in 0..(Limit + 1)
  BY DEF Windows
<1>4. CASE w.left <= 1
  <2>1. v = [left |-> 0, hits |-> 0]
    BY <1>4
  <2>3. Client(d, v)
    <3>1. Client(c, v)
      BY <2>1, FreshWindowsDoNotCrowd
    <3>2. ASSUME NEW others \in {0, Limit}, NEW waited, c.outnumbered >= others
          PROVE  Crowded(d, v, others, waited)
      <4>1. LetPass(v) = 0
        BY <2>1, ConstantFacts DEF LetPass, MinOf
      <4> QED
        BY <1>2, <3>2, <4>1, CallFacts, ConstantFacts DEF Crowded
    <3>3. c.outnumbered >= 0
      BY CallFacts, ConstantFacts
    <3> HIDE DEF d, v
    <3> QED
      BY <1>2, <3>1, <3>2, <3>3 DEF Client
  <2> QED
    BY <1>2, <2>3
<1>5. CASE ~(w.left <= 1)
  <2>1. v = [w EXCEPT !.left = w.left - 1] /\ w \in [left : 0..Minute, hits : 0..(Limit + 1)]
    BY <1>5 DEF Windows
  <2>2. v.left = w.left - 1 /\ v.hits = w.hits /\ v \in [left : 0..Minute, hits : 0..(Limit + 1)]
    BY <1>3, <1>5, <2>1, ConstantFacts
  <2>4. LetPass(v) = LetPass(w)
    BY <2>2 DEF LetPass
  <2>5. ASSUME NEW others, NEW waited \in Int, Crowded(c, w, others, waited)
        PROVE  Crowded(d, v, others, waited)
    <3>1. CASE c.outnumbered >= others + LetPass(w)
      BY <1>2, <2>4, <3>1 DEF Crowded
    <3>2. CASE w.left + (waited - c.wait) <= Minute
      BY <1>1, <1>2, <1>3, <2>2, <2>5, <3>2, ConstantFacts DEF Crowded
    <3> QED
      BY <2>5, <3>1, <3>2 DEF Crowded
  <2>6. c.attempt \in 2..(Attempts - 1) => Waited(c.attempt - 1) \in Int
    <3>1. c.attempt \in 2..(Attempts - 1) => c.attempt - 1 \in 0..Attempts
      BY ConstantFacts
    <3> QED
      BY <3>1, WaitsAddUp
  <2> HIDE DEF d, v
  <2>7. Client(d, v)
    BY <1>2, <2>5, <2>6, AttemptsAreMany DEF Client
  <2> QED
    BY <1>2, <2>7 DEF d, v
<1> QED
  BY <1>4, <1>5

-----------------------------------------------------------------------------
(* The steps. *)

GateInv == Typed /\ CallsAreCounted /\ ClientsAreCrowded

LEMMA SetOutcome ==
  ASSUME NEW c \in Calls, NEW o, NEW d, d = [c EXCEPT !.outcome = o]
  PROVE  d = [attempt |-> c.attempt, wait |-> c.wait, outnumbered |-> c.outnumbered,
              undisturbed |-> c.undisturbed, cred |-> c.cred, outcome |-> o]
BY DEF Calls

LEMMA SetAttempt ==
  ASSUME NEW c \in Calls, NEW n, NEW cred, NEW d, d = [c EXCEPT !.attempt = n, !.cred = cred]
  PROVE  d = [attempt |-> n, wait |-> c.wait, outnumbered |-> c.outnumbered,
              undisturbed |-> c.undisturbed, cred |-> cred, outcome |-> c.outcome]
BY DEF Calls

LEMMA Disturb ==
  ASSUME NEW c \in Calls, NEW w, NEW d, d = [c EXCEPT !.undisturbed = FALSE]
  PROVE  d \in Calls /\ Client(d, w)
<1>1. d = [attempt |-> c.attempt, wait |-> c.wait, outnumbered |-> c.outnumbered,
           undisturbed |-> FALSE, cred |-> c.cred, outcome |-> c.outcome]
  BY DEF Calls
<1> QED
  BY <1>1 DEF Calls, Client

(* An answer to the call itself. *)
LEMMA AnsweredCall ==
  ASSUME NEW c \in Calls, NEW w \in Windows, Client(c, w), c.attempt > 0, c.wait = 0,
         NEW answer, answer = "429" => Hit(w).hits > Limit,
         NEW v, answer = "429" => v = Hit(w)
  PROVE  After(c, answer) \in Calls /\ Client(After(c, answer), v)
<1>1. CASE answer = "429"
  BY <1>1, LimitedCrowd
<1>2. CASE answer # "429"
  <2>1. NoCall = Apart(0, {}, "none")
    BY DEF NoCall, Apart
  <2>2. [NoCall EXCEPT !.outcome = "refused"] = Apart(0, {}, "refused")
    <3>1. NoCall \in Calls
      BY <2>1, ApartIsNotCrowded
    <3>2. [NoCall EXCEPT !.outcome = "refused"]
            = [attempt |-> NoCall.attempt, wait |-> NoCall.wait, outnumbered |-> NoCall.outnumbered,
               undisturbed |-> NoCall.undisturbed, cred |-> NoCall.cred, outcome |-> "refused"]
      BY <3>1, SetOutcome
    <3> QED
      BY <3>2 DEF NoCall, Apart
  <2>3. CASE answer = "2xx"
    <3>1. After(c, answer) = Apart(0, {}, "none")
      BY <2>1, <2>3 DEF After
    <3> QED
      BY <3>1, ApartIsNotCrowded
  <2>4. CASE answer # "2xx"
    <3>1. After(c, answer) = [NoCall EXCEPT !.outcome = "refused"]
      BY <1>2, <2>4 DEF After
    <3> QED
      BY <2>2, <3>1, ApartIsNotCrowded
  <2> QED
    BY <2>3, <2>4
<1> QED
  BY <1>1, <1>2

(* A call of another, as its window sees it. *)
LEMMA OthersCall ==
  ASSUME Typed, ClientsAreCrowded, NEW b \in Budgets, NEW admitted, Served(b, admitted),
         NEW v \in Workers,
         NEW d, d = IF admitted /\ BudgetOf[v] = b /\ call[v].attempt > 0
                      THEN [call[v] EXCEPT !.outnumbered = MinOf(@ + 1, 2 * Limit)]
                      ELSE call[v]
  PROVE  d \in Calls /\ Client(d, window'[BudgetOf[v]])
<1> DEFINE c == call[v]
           w == window[BudgetOf[v]]
<1>1. c \in Calls /\ BudgetOf[v] \in Budgets /\ w \in Windows /\ Client(c, w)
  BY GateConstants DEF Typed, ClientsAreCrowded
<1>2. window \in [Budgets -> Windows]
  BY DEF Typed
<1>3. CASE Ignored(b, admitted) \/ BudgetOf[v] # b
  <2>1. d = c
    BY <1>3 DEF Ignored
  <2>2. window'[BudgetOf[v]] = w
    BY <1>1, <1>2, <1>3 DEF Ignored, Passed, Limited, Served
  <2> QED
    BY <1>1, <2>1, <2>2
<1>4. CASE Passed(b, admitted) /\ BudgetOf[v] = b
  <2>1. window'[BudgetOf[v]] = Hit(w) /\ Hit(w).hits <= Limit
    BY <1>1, <1>2, <1>4 DEF Passed
  <2> HIDE DEF w
  <2>2. CASE c.attempt > 0
    <3>1. d = [c EXCEPT !.outnumbered = MinOf(@ + 1, 2 * Limit)]
      BY <1>4, <2>2 DEF Passed
    <3>2. d \in Calls
      <4>1. MinOf(c.outnumbered + 1, 2 * Limit) \in 0..(2 * Limit)
        BY <1>1, CallFacts, ConstantFacts DEF MinOf
      <4> HIDE DEF c
      <4> QED
        BY <1>1, <3>1, <4>1 DEF Calls
    <3> HIDE DEF c
    <3>3. Client(d, Hit(w))
      BY <1>1, <2>1, <3>1, OthersCrowd
    <3> QED
      BY <2>1, <3>2, <3>3
  <2>3. CASE ~(c.attempt > 0)
    <3>1. c.attempt = 0 /\ d = c
      BY <1>1, <2>3, CallFacts, ConstantFacts
    <3>2. Client(c, Hit(w))
      BY <1>1, <3>1, IdleIsNotCrowded
    <3> QED
      BY <1>1, <2>1, <3>1, <3>2
  <2> QED
    BY <2>2, <2>3
<1>5. CASE Limited(b, admitted) /\ BudgetOf[v] = b
  <2>1. window'[BudgetOf[v]] = Hit(w) /\ Hit(w).hits > Limit /\ d = c
    BY <1>1, <1>2, <1>5 DEF Limited
  <2>2. Client(c, Hit(w))
    BY <1>1, <2>1, RefusedDoNotCrowd
  <2> QED
    BY <1>1, <2>1, <2>2
<1> QED
  BY <1>3, <1>4, <1>5 DEF Served

LEMMA AttemptKeepsGateInv ==
  ASSUME GateInv, NEW w \in Workers, Attempt(w) PROVE GateInv'
<1> DEFINE b == BudgetOf[w]
<1>1. Typed /\ CallsAreCounted /\ ClientsAreCrowded /\ b \in Budgets
      /\ call \in [Workers -> Calls] /\ window \in [Budgets -> Windows]
  BY GateConstants DEF GateInv, Typed
<1>2. PICK answer \in Answers(b, Cred(w)) :
        /\ Serve(b, Cred(w), answer)
        /\ LET calls == [call EXCEPT ![w] = After(@, answer)]
           IN  call' = IF Admitted(Cred(w), answer) THEN Outnumber(b, {w}, calls) ELSE calls
  BY DEF Attempt
<1> DEFINE admitted == Admitted(Cred(w), answer)
<1>3. Served(b, admitted) /\ (answer = "429" => Limited(b, admitted))
  BY <1>1, <1>2, ServingCounts
<1>4. CallsAreCounted' /\ window' \in [Budgets -> Windows] /\ recent' \in [Budgets -> [Ages -> Nat]]
  BY <1>1, <1>3, ServedKeepsCounts
<1> HIDE DEF admitted
<1>5. call' = IF admitted THEN Outnumber(b, {w}, [call EXCEPT ![w] = After(@, answer)])
                          ELSE [call EXCEPT ![w] = After(@, answer)]
  BY <1>2 DEF admitted
<1>6. call' = [v \in Workers |-> call'[v]]
  BY <1>1, <1>5 DEF Outnumber
<1>7. call'[w] = After(call[w], answer)
  BY <1>1, <1>5 DEF Outnumber
<1>8. After(call[w], answer) \in Calls /\ Client(After(call[w], answer), window'[b])
  <2>1. call[w].attempt > 0 /\ call[w].wait = 0
    BY DEF Attempt, Due
  <2>2. answer = "429" => window'[b] = Hit(window[b]) /\ Hit(window[b]).hits > Limit
    BY <1>1, <1>3 DEF Limited
  <2>3. call[w] \in Calls /\ window[b] \in Windows /\ Client(call[w], window[b])
    BY <1>1 DEF ClientsAreCrowded
  <2> QED
    BY <2>1, <2>2, <2>3, AnsweredCall
<1>9. ASSUME NEW v \in Workers PROVE call'[v] \in Calls /\ Client(call'[v], window'[BudgetOf[v]])
  <2>1. CASE v = w
    BY <1>7, <1>8, <2>1
  <2>2. CASE v # w
    <3>1. call'[v] = IF admitted /\ BudgetOf[v] = b /\ call[v].attempt > 0
                       THEN [call[v] EXCEPT !.outnumbered = MinOf(@ + 1, 2 * Limit)]
                       ELSE call[v]
      BY <1>1, <1>5, <2>2 DEF Outnumber
    <3> QED
      BY <1>1, <1>3, <3>1, OthersCall
  <2> QED
    BY <2>1, <2>2
<1>10. call' \in [Workers -> Calls]
  BY <1>6, <1>9
<1> QED
  BY <1>4, <1>9, <1>10 DEF GateInv, Typed, ClientsAreCrowded

LEMMA OtherCallKeepsGateInv ==
  ASSUME GateInv, NEW b \in Budgets, NEW cred \in Credentials, OtherCall(b, cred) PROVE GateInv'
<1>1. Typed /\ CallsAreCounted /\ ClientsAreCrowded /\ call \in [Workers -> Calls]
  BY DEF GateInv, Typed
<1>2. PICK answer \in Answers(b, cred) :
        /\ Serve(b, cred, answer)
        /\ call' = IF Admitted(cred, answer) THEN Outnumber(b, {}, call) ELSE call
  BY DEF OtherCall
<1> DEFINE admitted == Admitted(cred, answer)
<1>3. Served(b, admitted)
  BY <1>1, <1>2, ServingCounts
<1>4. CallsAreCounted' /\ window' \in [Budgets -> Windows] /\ recent' \in [Budgets -> [Ages -> Nat]]
  BY <1>1, <1>3, ServedKeepsCounts
<1> HIDE DEF admitted
<1>5. call' = IF admitted THEN Outnumber(b, {}, call) ELSE call
  BY <1>2 DEF admitted
<1>6. ASSUME NEW v \in Workers PROVE call'[v] \in Calls /\ Client(call'[v], window'[BudgetOf[v]])
  <2>1. call'[v] = IF admitted /\ BudgetOf[v] = b /\ call[v].attempt > 0
                     THEN [call[v] EXCEPT !.outnumbered = MinOf(@ + 1, 2 * Limit)]
                     ELSE call[v]
    BY <1>1, <1>5 DEF Outnumber
  <2> QED
    BY <1>1, <1>3, <2>1, OthersCall
<1>7. call' = [v \in Workers |-> call'[v]]
  BY <1>1, <1>5 DEF Outnumber
<1>8. call' \in [Workers -> Calls]
  BY <1>6, <1>7
<1> QED
  BY <1>4, <1>6, <1>8 DEF GateInv, Typed, ClientsAreCrowded

(* Without a server, a call is tried again like a 429. *)
LEMMA TriedInVain ==
  ASSUME NEW c \in Calls, c.attempt > 0 PROVE After(c, "429") \in Calls
<1> DEFINE d == After(c, "429")
<1>1. c.attempt \in 1..Attempts
  BY CallFacts, ConstantFacts
<1>2. CASE c.attempt = Attempts
  <2>1. d = [c EXCEPT !.attempt = 0, !.outcome = "gave_up"]
    BY <1>2, ConstantFacts DEF After
  <2> HIDE DEF d
  <2>2. d = [attempt |-> 0, wait |-> c.wait, outnumbered |-> c.outnumbered,
             undisturbed |-> c.undisturbed, cred |-> c.cred, outcome |-> "gave_up"]
    BY <2>1 DEF Calls
  <2>3. d \in Calls
    BY <2>2, ConstantFacts DEF Calls
  <2> QED
    BY <2>3 DEF d
<1>3. CASE c.attempt # Attempts
  <2>1. /\ c.attempt < Attempts /\ c.attempt \in Nat \ {0}
        /\ c.attempt + 1 \in 0..Attempts
    BY <1>1, <1>3, ConstantFacts
  <2>2. d = [c EXCEPT !.attempt = @ + 1, !.wait = Delay(c.attempt)]
    BY <1>3, <2>1, ConstantFacts DEF After
  <2> HIDE DEF d
  <2>3. d = [attempt |-> c.attempt + 1, wait |-> Delay(c.attempt), outnumbered |-> c.outnumbered,
             undisturbed |-> c.undisturbed, cred |-> c.cred, outcome |-> c.outcome]
    BY <2>2 DEF Calls
  <2>4. Delay(c.attempt) \in Int
    BY <2>1, DelaysAreIntegers
  <2>5. d \in Calls
    BY <2>1, <2>3, <2>4 DEF Calls
  <2> QED
    BY <2>5 DEF d
<1> QED
  BY <1>2, <1>3

LEMMA GateInvIsKept ==
  ASSUME GateInv, [Next]_vars PROVE GateInv'
<1>1. /\ Typed /\ CallsAreCounted /\ ClientsAreCrowded
      /\ call \in [Workers -> Calls] /\ window \in [Budgets -> Windows]
      /\ recent \in [Budgets -> [Ages -> Nat]]
      /\ \A v \in Workers : BudgetOf[v] \in Budgets
  BY GateConstants DEF GateInv, Typed
<1>2. ASSUME UNCHANGED <<window, recent>>,
             call' \in [Workers -> Calls],
             \A v \in Workers : Client(call'[v], window[BudgetOf[v]])
      PROVE  GateInv'
  <2>1. CallsAreCounted'
    BY <1>1, <1>2 DEF CallsAreCounted
  <2> QED
    BY <1>1, <1>2, <2>1 DEF GateInv, Typed, ClientsAreCrowded
<1>3. ASSUME NEW w \in Workers, Begin(w) PROVE GateInv'
  <2>1. PICK cred \in Credentials :
          call' = [call EXCEPT ![w] = [NoCall EXCEPT !.attempt = 1, !.cred = {cred}]]
    BY <1>3, Zenon DEF Begin
  <2> DEFINE d == [NoCall EXCEPT !.attempt = 1, !.cred = {cred}]
  <2>2. d = Apart(1, {cred}, "none")
    <3>1. NoCall = Apart(0, {}, "none")
      BY DEF NoCall, Apart
    <3>2. NoCall \in Calls
      BY <3>1, ApartIsNotCrowded
    <3>3. d = [NoCall EXCEPT !.attempt = 1, !.cred = {cred}]
      OBVIOUS
    <3> HIDE DEF d
    <3>4. d = [attempt |-> 1, wait |-> NoCall.wait, outnumbered |-> NoCall.outnumbered,
               undisturbed |-> NoCall.undisturbed, cred |-> {cred}, outcome |-> NoCall.outcome]
      BY <3>2, <3>3, SetAttempt, Zenon
    <3> QED
      BY <3>4 DEF NoCall, Apart
  <2>3. d \in Calls /\ Client(d, window[BudgetOf[w]])
    BY <2>1, <2>2, ApartIsNotCrowded
  <2> HIDE DEF d
  <2>4. call' \in [Workers -> Calls] /\ \A v \in Workers : Client(call'[v], window[BudgetOf[v]])
    BY <1>1, <2>1, <2>3 DEF ClientsAreCrowded, d
  <2> QED
    BY <1>2, <1>3, <2>4 DEF Begin
<1>4. ASSUME NEW w \in Workers, AttemptInVain(w) PROVE GateInv'
  <2> DEFINE c == After(call[w], "429")
             d == [c EXCEPT !.undisturbed = FALSE]
  <2>1. c \in Calls
    BY <1>1, <1>4, TriedInVain DEF AttemptInVain, Due
  <2> HIDE DEF c
  <2>2. d \in Calls /\ Client(d, window[BudgetOf[w]])
    BY <2>1, Disturb
  <2>3. call' = [call EXCEPT ![w] = d]
    BY <1>4 DEF AttemptInVain, c
  <2> HIDE DEF d
  <2>4. call' \in [Workers -> Calls] /\ \A v \in Workers : Client(call'[v], window[BudgetOf[v]])
    BY <1>1, <2>2, <2>3 DEF ClientsAreCrowded
  <2> QED
    BY <1>2, <1>4, <2>4 DEF AttemptInVain
<1>5. CASE Start
  <2>1. window' = [b \in Budgets |-> [left |-> 0, hits |-> 0]]
        /\ recent' = [b \in Budgets |-> [age \in Ages |-> 0]] /\ call' = call
    BY <1>5 DEF Start, NoWindows, NoCalls
  <2>2. [left |-> 0, hits |-> 0] \in Windows /\ [age \in Ages |-> 0] \in [Ages -> Nat]
    BY ConstantFacts DEF Windows
  <2>3. Typed'
    BY <1>1, <2>1, <2>2 DEF Typed
  <2>4. CallsAreCounted'
    BY <2>1, FreshCounts DEF CallsAreCounted
  <2>5. ASSUME NEW v \in Workers PROVE Client(call'[v], window'[BudgetOf[v]])
    <3>1. Client(call[v], [left |-> 0, hits |-> 0])
      BY <1>1, FreshWindowsDoNotCrowd DEF ClientsAreCrowded
    <3> QED
      BY <1>1, <2>1, <3>1
  <2> QED
    BY <2>3, <2>4, <2>5 DEF GateInv, ClientsAreCrowded
<1>6. CASE Stop
  <2>1. call' = [v \in Workers |-> [call[v] EXCEPT !.undisturbed = FALSE]]
    BY <1>6 DEF Stop
  <2>2. \A v \in Workers : call'[v] \in Calls /\ Client(call'[v], window[BudgetOf[v]])
    BY <1>1, <2>1, Disturb
  <2>3. call' \in [Workers -> Calls]
    BY <2>1, <2>2
  <2> QED
    BY <1>2, <1>6, <2>2, <2>3 DEF Stop
<1>7. CASE Tick
  <2> DEFINE Next1(w) == IF w.left <= 1 THEN [left |-> 0, hits |-> 0] ELSE [w EXCEPT !.left = @ - 1]
             Older(f) == [age \in Ages |-> IF age = 1 THEN 0 ELSE f[age - 1]]
  <2>1. /\ window' = [b \in Budgets |-> Next1(window[b])]
        /\ recent' = [b \in Budgets |-> Older(recent[b])]
        /\ call' = [v \in Workers |-> [call[v] EXCEPT !.wait = Down(@)]]
    BY <1>7, Zenon DEF Tick, NoWindows
  <2>2. ASSUME NEW v \in Workers
        PROVE  call'[v] \in Calls /\ Client(call'[v], window'[BudgetOf[v]])
    <3>1. /\ [call[v] EXCEPT !.wait = Down(@)] \in Calls
          /\ Client([call[v] EXCEPT !.wait = Down(@)], Next1(window[BudgetOf[v]]))
      BY <1>1, TickDoesNotCrowd DEF ClientsAreCrowded
    <3> HIDE DEF Next1
    <3> QED
      BY <1>1, <2>1, <3>1
  <2>3. ASSUME NEW b \in Budgets
        PROVE  /\ window'[b] \in Windows
               /\ recent'[b] \in [Ages -> Nat]
               /\ \E P \in [0..Minute -> Int] : Counted(P, recent'[b], window'[b])
    <3>1. window[b] \in Windows /\ recent[b] \in [Ages -> Nat]
      BY <1>1
    <3>2. PICK P \in [0..Minute -> Int] : Counted(P, recent[b], window[b])
      BY <1>1 DEF CallsAreCounted
    <3>3. \E Q \in [0..Minute -> Int] : Counted(Q, Older(recent[b]), Next1(window[b]))
      BY <3>1, <3>2, TickCounts
    <3>4. Next1(window[b]) \in Windows
      BY <3>1, WindowTicks
    <3>5. Older(recent[b]) \in [Ages -> Nat]
      BY <3>1, ConstantFacts DEF Ages
    <3> HIDE DEF Next1, Older
    <3> QED
      BY <2>1, <3>3, <3>4, <3>5
  <2>4. /\ window' = [b \in Budgets |-> window'[b]] /\ recent' = [b \in Budgets |-> recent'[b]]
        /\ call' = [v \in Workers |-> call'[v]]
    BY <2>1
  <2>5. Typed'
    BY <2>2, <2>3, <2>4 DEF Typed
  <2> QED
    BY <2>2, <2>3, <2>5 DEF GateInv, CallsAreCounted, ClientsAreCrowded
<1>8. CASE UNCHANGED vars
  BY <1>1, <1>2, <1>8 DEF vars, ClientsAreCrowded
<1> QED
  BY <1>3, <1>4, <1>5, <1>6, <1>7, <1>8, AttemptKeepsGateInv, OtherCallKeepsGateInv DEF Next

LEMMA InitiallyGateInv ==
  ASSUME Init PROVE GateInv
<1>1. /\ window = [b \in Budgets |-> [left |-> 0, hits |-> 0]]
      /\ recent = [b \in Budgets |-> [age \in Ages |-> 0]]
      /\ call = [v \in Workers |-> Apart(0, {}, "none")]
  BY DEF Init, NoWindows, NoCalls, NoCall, Apart
<1>2. [left |-> 0, hits |-> 0] \in Windows /\ [age \in Ages |-> 0] \in [Ages -> Nat]
  BY ConstantFacts DEF Windows
<1>3. \A w : Apart(0, {}, "none") \in Calls /\ Client(Apart(0, {}, "none"), w)
  BY ApartIsNotCrowded
<1>4. Typed
  BY <1>1, <1>2, <1>3 DEF Typed
<1>5. CallsAreCounted
  BY <1>1, FreshCounts DEF CallsAreCounted
<1>6. ClientsAreCrowded
  BY <1>1, <1>3 DEF ClientsAreCrowded
<1> QED
  BY <1>4, <1>5, <1>6 DEF GateInv

LEMMA GateInvHolds == Spec => []GateInv
BY InitiallyGateInv, GateInvIsKept, PTL DEF Spec

(* For any limit, environments, credentials and callers: a process admits   *)
(* at most twice the limit on a budget in any minute (limiter, with its     *)
(* exemption for trusted ingest).                                           *)
THEOREM BurstsAreBounded == Spec => []BurstIsBounded
<1>1. GateInv => BurstIsBounded
  BY CountedIsBounded DEF GateInv
<1> QED
  BY <1>1, GateInvHolds, PTL

(* For any number of workers and callers on a budget, if the waits outlast  *)
(* the window like the code's: a worker whose server was up all the time    *)
(* gives up only when two full windows of calls of others were admitted     *)
(* since its first attempt (request_with_retry of the simulator's client).  *)
THEOREM OnlyTheCrowdedGiveUp == Spec => []GivingUpIsOutnumbered
<1>1. GateInv => GivingUpIsOutnumbered
  BY DEF GateInv, ClientsAreCrowded, Client, GivingUpIsOutnumbered
<1> QED
  BY <1>1, GateInvHolds, PTL
=============================================================================
