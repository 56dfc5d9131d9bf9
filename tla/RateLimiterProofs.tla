-------------------------- MODULE RateLimiterProofs --------------------------
(***************************************************************************)
(* Proofs about RateLimiter for every set of prefixes and goroutines and   *)
(* every setting of the limiter.                                           *)
(***************************************************************************)
EXTENDS RateLimiter, FiniteSetTheorems, TLAPS

(* A goroutine that is about to consume holds a bucket (limiter.go         *)
(* allowAt), and every bucket keeps within its budget.                     *)
Holds == \A t \in Thread : pc[t] = "use" => ref[t] # NoBucket

(* Refilling keeps a bucket's fields natural and its budget (bucket.go     *)
(* consume).                                                               *)
LEMMA RefillBudget ==
  ASSUME NEW b \in Bucket, NEW t \in Nat
  PROVE  /\ Refilled(b, t) \in Bucket
         /\ Budget(b) => Budget(Refilled(b, t))
<1> USE LimiterAssumption
<1>1. CASE ~(t > b.lastFill) BY <1>1 DEF Refilled
<1>2. CASE t > b.lastFill
  <2> DEFINE d == t - b.lastFill
  <2> DEFINE g == d * RatePerSec
  <2>1. d \in Nat BY <1>2 DEF Bucket
  <2>2. g \in Nat BY <2>1
  <2>3. ASSUME b.createdAt <= b.lastFill
        PROVE  RatePerSec * (t - b.createdAt) = RatePerSec * (b.lastFill - b.createdAt) + g
    <3>1. \A x, y, r \in Int : r * (x + y) = r * x + y * r OBVIOUS
    <3>2. b.lastFill - b.createdAt \in Int /\ d \in Int /\ RatePerSec \in Int BY <2>1 DEF Bucket
    <3>3. t - b.createdAt = (b.lastFill - b.createdAt) + d BY DEF Bucket
    <3> HIDE DEF d
    <3> QED BY <3>1, <3>2, <3>3
  <2>4. Refilled(b, t) = [b EXCEPT !.tokens = Capped(b.tokens + g), !.lastFill = t]
    BY <1>2 DEF Refilled
  <2> HIDE DEF d, g
  <2>5. Capped(b.tokens + g) \in Nat BY <2>2 DEF Capped, Bucket
  <2>6. Refilled(b, t) \in Bucket BY <2>4, <2>5 DEF Bucket
  <2>7. ASSUME Budget(b) PROVE Budget(Refilled(b, t))
    <3> DEFINE c == Refilled(b, t)
    <3>1. /\ c.tokens = Capped(b.tokens + g) /\ c.lastFill = t
          /\ c.createdAt = b.createdAt /\ c.granted = b.granted
      BY <2>4 DEF Bucket
    <3> HIDE DEF c
    <3>2. Capped(b.tokens + g) <= b.tokens + g /\ Capped(b.tokens + g) <= BurstSize
      BY <2>2 DEF Capped, Bucket
    <3>3. /\ b.createdAt \in Nat /\ b.lastFill \in Nat /\ b.tokens \in Nat /\ b.granted \in Nat
      BY DEF Bucket
    <3> DEFINE before == RatePerSec * (b.lastFill - b.createdAt)
    <3> DEFINE after == RatePerSec * (t - b.createdAt)
    <3>4. b.createdAt <= b.lastFill /\ b.tokens + b.granted <= BurstSize + before
      BY <2>7 DEF Budget
    <3>5. after = before + g BY <2>3, <3>4
    <3>6. before \in Int BY <3>3
    <3>7. c.tokens + c.granted <= BurstSize + after
      <4> HIDE DEF before, after
      <4> QED BY <3>1, <3>2, <3>3, <3>4, <3>5, <3>6, <2>2, <2>5
    <3>8. c.createdAt <= c.lastFill BY <3>1, <3>3, <3>4, <1>2
    <3> QED BY <3>1, <3>2, <3>7, <3>8 DEF Budget, c
  <2> QED BY <2>6, <2>7
<1> QED BY <1>1, <1>2

(* Handing out a token keeps the budget, and so does a drop (bucket.go     *)
(* consume).                                                               *)
LEMMA ConsumeBudget ==
  ASSUME NEW b \in Bucket
  PROVE  /\ b.tokens >= 1 => Granted(b) \in Bucket /\ (Budget(b) => Budget(Granted(b)))
         /\ Dropped(b) \in Bucket /\ (Budget(b) => Budget(Dropped(b)))
<1>1. ASSUME b.tokens >= 1 PROVE Granted(b) \in Bucket
  <2>1. b.tokens \in Nat /\ b.granted \in Nat BY DEF Bucket
  <2>2. b.tokens - 1 \in Nat /\ b.granted + 1 \in Nat BY <1>1, <2>1
  <2> QED BY <2>2 DEF Granted, Bucket
<1>2. Dropped(b) \in Bucket BY DEF Dropped, Bucket
<1>3. ASSUME b.tokens >= 1, Budget(b) PROVE Budget(Granted(b))
  <2>1. /\ Granted(b).tokens = b.tokens - 1 /\ Granted(b).granted = b.granted + 1
        /\ Granted(b).lastFill = b.lastFill /\ Granted(b).createdAt = b.createdAt
    BY DEF Granted, Bucket
  <2>2. b.tokens \in Nat /\ b.granted \in Nat BY DEF Bucket
  <2>3. b.tokens - 1 + (b.granted + 1) = b.tokens + b.granted BY <2>2
  <2>4. b.tokens - 1 <= BurstSize BY <1>3, <2>2, LimiterAssumption DEF Budget
  <2> QED BY <1>3, <2>1, <2>3, <2>4 DEF Budget
<1>4. ASSUME Budget(b) PROVE Budget(Dropped(b))
  <2>1. /\ Dropped(b).tokens = b.tokens /\ Dropped(b).granted = b.granted
        /\ Dropped(b).lastFill = b.lastFill /\ Dropped(b).createdAt = b.createdAt
    BY DEF Dropped, Bucket
  <2> QED BY <1>4, <2>1 DEF Budget
<1> QED BY <1>1, <1>2, <1>3, <1>4

(* A new bucket is within its budget (bucket.go getOrCreate).              *)
LEMMA NewBudget ==
  ASSUME NEW t \in Nat
  PROVE  NewBucket(t) \in Bucket /\ Budget(NewBucket(t))
<1>1. NewBucket(t) \in Bucket BY LimiterAssumption DEF NewBucket, Bucket
<1>2. RatePerSec * (t - t) = 0 BY LimiterAssumption
<1>3. BurstSize + 0 <= BurstSize + 0 BY LimiterAssumption
<1> QED BY <1>1, <1>2, <1>3, LimiterAssumption DEF NewBucket, Budget

(* Garbage collection only empties entries (gc.go).                        *)
LEMMA CollectedType ==
  ASSUME TypeOK, NEW t \in Nat, NEW tab \in Collected(t)
  PROVE  tab \in [Key -> 0..created] /\ \E E \in SUBSET Key : tab = Evict(E)
<1>1. PICK E \in SUBSET Key : tab = Evict(E)
  <2>1. ForceVictims \subseteq SUBSET Key BY DEF ForceVictims, Tracked
  <2>2. OldKeys(t) \subseteq Key BY DEF OldKeys, Tracked
  <2>3. table = Evict({}) BY DEF Evict, TypeOK
  <2> QED BY <2>1, <2>2, <2>3 DEF Collected
<1>2. 0 \in 0..created BY DEF TypeOK
<1> QED BY <1>1, <1>2 DEF Evict, TypeOK, NoBucket

(* What getOrCreate's lookup yields: no bucket, one of the table's, or the *)
(* next new one (bucket.go).                                               *)
LEMMA LookupType ==
  ASSUME TypeOK, NEW tab \in [Key -> 0..created], NEW k \in Key
  PROVE  /\ Lookup(tab, k) \in 0..created + 1
         /\ Lookup(tab, k) = created + 1 => tab[k] = NoBucket
<1>1. created \in Nat BY DEF TypeOK
<1>2. tab[k] \in 0..created OBVIOUS
<1> QED BY <1>1, <1>2 DEF Lookup, NoBucket

(* The variables always have their types, and a goroutine that is about to *)
(* consume holds a bucket (limiter.go allowAt, checkAt).                   *)
THEOREM TypeCorrect == Spec => [](TypeOK /\ Holds)
<1> USE LimiterAssumption
<1>1. Init => TypeOK /\ Holds
  <2> SUFFICES ASSUME Init PROVE TypeOK /\ Holds
    OBVIOUS
  <2>1. heap \in [Id -> Bucket]
    <3>1. NewBucket(0) \in Bucket BY NewBudget
    <3> QED BY <3>1 DEF Init
  <2>2. clock \in 0..MaxClock /\ lastGC \in 0..MaxClock
    BY DEF Init
  <2>3. created \in 0..MaxRequests /\ requests \in 0..MaxRequests /\ 0 \in 0..created
    BY DEF Init
  <2> QED BY <2>1, <2>2, <2>3 DEF Init, TypeOK, Holds, NoBucket, Answer
<1>2. TypeOK /\ Holds /\ [Next]_vars => (TypeOK /\ Holds)'
  <2> SUFFICES ASSUME TypeOK, Holds, [Next]_vars PROVE TypeOK' /\ Holds'
    OBVIOUS
  <2>1. CASE Tick
    BY <2>1 DEF Tick, requestVars, TypeOK, Holds
  <2>2. ASSUME NEW t \in Thread, NEW k \in Key, Arrive(t, k) PROVE TypeOK' /\ Holds'
    BY <2>2 DEF Arrive, TypeOK, Holds, Answer
  <2>3. ASSUME NEW t \in Thread, GetOrCreate(t) PROVE TypeOK' /\ Holds'
    <3> DEFINE i(tab) == Lookup(tab, key[t])
    <3> DEFINE isNew(tab) == i(tab) = created + 1
    <3>1. PICK tab \in Collected(now[t]) :
            /\ pc[t] = "get" /\ (isNew(tab) => created < MaxRequests)
            /\ table' = IF isNew(tab) THEN [tab EXCEPT ![key[t]] = i(tab)] ELSE tab
            /\ heap' = IF isNew(tab) THEN [heap EXCEPT ![i(tab)] = NewBucket(now[t])] ELSE heap
            /\ created' = IF isNew(tab) THEN i(tab) ELSE created
            /\ ref' = [ref EXCEPT ![t] = i(tab)]
            /\ pc' = [pc EXCEPT ![t] = IF i(tab) = NoBucket THEN "idle" ELSE "use"]
            /\ answer' = [answer EXCEPT ![t] = IF i(tab) = NoBucket THEN "full" ELSE @]
            /\ lastGC' = CollectedAt(now[t])
            /\ UNCHANGED <<clock, requestVars>>
      BY <2>3 DEF GetOrCreate
    <3>2. now[t] \in 0..MaxClock /\ key[t] \in Key /\ created \in 0..MaxRequests
      BY DEF TypeOK
    <3>3. now[t] \in Nat BY <3>2
    <3>4. tab \in [Key -> 0..created] BY <3>3, CollectedType
    <3>5. i(tab) \in 0..created + 1 BY <3>2, <3>4, LookupType
    <3> HIDE DEF i
    <3>6. created' \in 0..MaxRequests /\ created <= created' /\ i(tab) \in 0..created'
      BY <3>1, <3>2, <3>5
    <3>7. 0..created \subseteq 0..created' BY <3>2, <3>6
    <3>8. table' \in [Key -> 0..created'] BY <3>1, <3>4, <3>6, <3>7
    <3>9. heap' \in [Id -> Bucket]
      <4>1. NewBucket(now[t]) \in Bucket BY <3>3, NewBudget
      <4> QED BY <3>1, <4>1 DEF TypeOK
    <3>10. ref' \in [Thread -> 0..created'] BY <3>1, <3>6, <3>7 DEF TypeOK
    <3>11. lastGC' \in 0..MaxClock BY <3>1, <3>2 DEF CollectedAt, TypeOK
    <3>12. pc' \in [Thread -> {"idle", "get", "use"}] /\ answer' \in [Thread -> Answer]
      BY <3>1 DEF TypeOK, Answer
    <3>13. TypeOK'
      BY <3>1, <3>6, <3>8, <3>9, <3>10, <3>11, <3>12 DEF TypeOK, requestVars
    <3>14. Holds' BY <3>1 DEF Holds, TypeOK
    <3> QED BY <3>13, <3>14
  <2>4. ASSUME NEW t \in Thread, Use(t) PROVE TypeOK' /\ Holds'
    <3> DEFINE b == Refilled(heap[ref[t]], now[t])
    <3>1. ref[t] \in Id
      <4>1. pc[t] = "use" BY <2>4 DEF Use
      <4>2. ref[t] # NoBucket /\ ref[t] \in 0..created /\ created \in 0..MaxRequests
        BY <4>1 DEF Holds, TypeOK
      <4> QED BY <4>2 DEF Id, NoBucket
    <3>2. b \in Bucket
      <4>1. heap[ref[t]] \in Bucket /\ now[t] \in Nat BY <3>1 DEF TypeOK
      <4> QED BY <4>1, RefillBudget
    <3>3. /\ heap' = [heap EXCEPT ![ref[t]] = IF b.tokens >= 1 THEN Granted(b) ELSE Dropped(b)]
          /\ pc' = [pc EXCEPT ![t] = "idle"] /\ ref' = [ref EXCEPT ![t] = NoBucket]
          /\ answer' = [answer EXCEPT ![t] =
                 CASE b.tokens >= 1 -> "allow" [] Slips(b) -> "slip" [] OTHER -> "drop"]
          /\ UNCHANGED <<clock, table, created, lastGC, requestVars>>
      BY <2>4 DEF Use
    <3> HIDE DEF b
    <3>4. heap' \in [Id -> Bucket] BY <3>1, <3>2, <3>3, ConsumeBudget DEF TypeOK
    <3>5. ref' \in [Thread -> 0..created']
      <4>1. NoBucket \in 0..created BY DEF TypeOK, NoBucket
      <4> QED BY <3>3, <4>1 DEF TypeOK
    <3>6. answer' \in [Thread -> Answer] BY <3>3 DEF TypeOK, Answer
    <3>7. pc' \in [Thread -> {"idle", "get", "use"}] BY <3>3 DEF TypeOK
    <3>8. Holds' BY <3>3 DEF Holds, TypeOK
    <3> QED BY <3>3, <3>4, <3>5, <3>6, <3>7, <3>8 DEF TypeOK, requestVars
  <2>5. CASE UNCHANGED vars
    BY <2>5 DEF vars, TypeOK, Holds
  <2> QED BY <2>1, <2>2, <2>3, <2>4, <2>5 DEF Next
<1> QED BY <1>1, <1>2, PTL DEF Spec

(* No bucket hands out more than its burst and the refill of the time it   *)
(* has seen, with any number of goroutines, delays and evictions           *)
(* (bucket.go consume, gc.go).                                             *)
THEOREM BudgetKept == Spec => []BucketBudget
<1> USE LimiterAssumption
<1>1. Init => BucketBudget
  <2>1. Budget(NewBucket(0)) BY NewBudget
  <2> QED BY <2>1 DEF Init, BucketBudget
<1>2. TypeOK /\ Holds /\ BucketBudget /\ [Next]_vars => BucketBudget'
  <2> SUFFICES ASSUME TypeOK, Holds, BucketBudget, [Next]_vars, NEW j \in Id
               PROVE  Budget(heap'[j])
    BY DEF BucketBudget, Budget
  <2>0. Budget(heap[j]) BY DEF BucketBudget
  <2>1. CASE heap' = heap BY <2>0, <2>1
  <2>2. ASSUME NEW t \in Thread, GetOrCreate(t) PROVE Budget(heap'[j])
    <3>1. now[t] \in Nat BY DEF TypeOK
    <3>2. Budget(NewBucket(now[t])) BY <3>1, NewBudget
    <3>3. \/ heap' = heap
          \/ \E i : heap' = [heap EXCEPT ![i] = NewBucket(now[t])]
      BY <2>2 DEF GetOrCreate
    <3> QED BY <2>0, <3>2, <3>3 DEF TypeOK
  <2>3. ASSUME NEW t \in Thread, Use(t) PROVE Budget(heap'[j])
    <3> DEFINE b == Refilled(heap[ref[t]], now[t])
    <3>1. heap' = [heap EXCEPT ![ref[t]] = IF b.tokens >= 1 THEN Granted(b) ELSE Dropped(b)]
      BY <2>3 DEF Use
    <3>2. CASE j # ref[t] BY <2>0, <3>1, <3>2 DEF TypeOK
    <3>3. CASE j = ref[t]
      <4>1. heap[j] \in Bucket /\ now[t] \in Nat BY DEF TypeOK
      <4>2. b \in Bucket /\ Budget(b) BY <2>0, <3>3, <4>1, RefillBudget
      <4>3. heap'[j] = IF b.tokens >= 1 THEN Granted(b) ELSE Dropped(b)
        BY <3>1, <3>3 DEF TypeOK
      <4> HIDE DEF b
      <4> QED BY <4>2, <4>3, ConsumeBudget
    <3> QED BY <3>2, <3>3
  <2>4. \/ heap' = heap
        \/ \E t \in Thread : GetOrCreate(t) \/ Use(t)
    BY DEF Next, vars, Tick, Arrive
  <2> QED BY <2>1, <2>2, <2>3, <2>4
<1> QED BY <1>1, <1>2, TypeCorrect, PTL DEF Spec

(* A collection leaves the table below the force threshold: under it       *)
(* nothing need go, at it at least one bucket does (gc.go forceGC).        *)
LEMMA CollectedBound ==
  ASSUME TypeOK, TableBound, NEW t \in Nat, NEW tab \in Collected(t)
  PROVE  Size(tab) \in Nat /\ IsFiniteSet(Tracked(tab)) /\ 4 * Size(tab) < 3 * MaxBuckets
<1> DEFINE T == Tracked(table)
<1>1. IsFiniteSet(T) /\ Cardinality(T) \in Nat
  <2>1. T \subseteq Key BY DEF Tracked
  <2> HIDE DEF T
  <2>2. IsFiniteSet(T) BY <2>1, LimiterAssumption, FS_Subset
  <2> QED BY <2>2, FS_CardinalityType
<1>2. PICK E \in SUBSET Key : tab = Evict(E) BY CollectedType
<1>3. Tracked(tab) = T \ E BY <1>2 DEF Tracked, Evict, NoBucket
<1>4. /\ IsFiniteSet(Tracked(tab)) /\ Size(tab) \in Nat /\ Size(tab) <= Cardinality(T)
      /\ Cardinality(T) = Size(tab) => T = Tracked(tab)
  <2>1. Tracked(tab) \in SUBSET T BY <1>3
  <2> HIDE DEF T
  <2>2. /\ IsFiniteSet(Tracked(tab)) /\ Cardinality(Tracked(tab)) <= Cardinality(T)
        /\ Cardinality(T) = Cardinality(Tracked(tab)) => T = Tracked(tab)
    BY <1>1, <2>1, FS_Subset
  <2>3. Cardinality(Tracked(tab)) \in Nat BY <2>2, FS_CardinalityType
  <2> QED BY <2>2, <2>3 DEF Size
<1>5. MaxBuckets \in Nat BY LimiterAssumption
<1>6. CASE ~Crowded
  <2>1. 4 * Cardinality(T) < 3 * MaxBuckets BY <1>6, <1>1, <1>5 DEF Crowded, Size
  <2> HIDE DEF T
  <2> QED BY <2>1, <1>1, <1>4, <1>5
<1>7. CASE Crowded
  <2>1. PICK F \in ForceVictims : tab = Evict(F) BY <1>7 DEF Collected
  <2>2. F \subseteq T /\ Cardinality(F) = AtLeastOne(Size(table) \div 4)
    BY <2>1 DEF ForceVictims
  <2>3. AtLeastOne(Size(table) \div 4) >= 1
    <3>1. Size(table) \in Nat BY <1>1 DEF Size
    <3>2. Size(table) \div 4 \in Nat BY <3>1
    <3> QED BY <3>2 DEF AtLeastOne
  <2>4. F # {}
    <3>1. Cardinality({}) = 0 BY FS_EmptySet
    <3> QED BY <2>2, <2>3, <3>1
  <2>5. Tracked(tab) # T
    <3>1. Tracked(tab) = T \ F BY <2>1 DEF Tracked, Evict, NoBucket
    <3> QED BY <2>2, <2>4, <3>1
  <2>6. 4 * (Cardinality(T) - 1) < 3 * MaxBuckets BY DEF TableBound, Size
  <2> HIDE DEF T
  <2>7. Size(tab) # Cardinality(T) BY <2>5, <1>4
  <2> QED BY <2>6, <2>7, <1>1, <1>4, <1>5
<1> QED BY <1>4, <1>6, <1>7

(* The bound of the table and the answers rest on each other's step.       *)
LEMMA TableInvariant == Spec => [](TableBound /\ NeverFull)
<1> USE LimiterAssumption
<1>1. Init => TableBound /\ NeverFull
  <2> SUFFICES ASSUME Init PROVE TableBound /\ NeverFull
    OBVIOUS
  <2>1. Tracked(table) = {} BY DEF Init, Tracked
  <2>2. Size(table) = 0 BY <2>1, FS_EmptySet DEF Size
  <2>3. TableBound BY <2>2 DEF TableBound
  <2> QED BY <2>3 DEF NeverFull, Init
<1>2. TypeOK /\ TableBound /\ NeverFull /\ [Next]_vars => (TableBound /\ NeverFull)'
  <2> SUFFICES ASSUME TypeOK, TableBound, NeverFull, [Next]_vars
               PROVE  TableBound' /\ NeverFull'
    OBVIOUS
  <2>1. ASSUME table' = table PROVE TableBound'
    BY <2>1 DEF TableBound, Size, Tracked
  <2>2. ASSUME NEW t \in Thread, GetOrCreate(t) PROVE TableBound' /\ NeverFull'
    <3> DEFINE i(tab) == Lookup(tab, key[t])
    <3>1. PICK tab \in Collected(now[t]) :
            /\ table' = IF i(tab) = created + 1 THEN [tab EXCEPT ![key[t]] = i(tab)] ELSE tab
            /\ answer' = [answer EXCEPT ![t] = IF i(tab) = NoBucket THEN "full" ELSE @]
      BY <2>2 DEF GetOrCreate
    <3>2. now[t] \in Nat /\ key[t] \in Key /\ created \in Nat BY DEF TypeOK
    <3>3. tab \in [Key -> 0..created] BY <3>2, CollectedType
    <3>4. Size(tab) \in Nat /\ IsFiniteSet(Tracked(tab)) /\ 4 * Size(tab) < 3 * MaxBuckets
      BY <3>2, CollectedBound
    <3>5. i(tab) # NoBucket
      <4>1. ~(Size(tab) >= MaxBuckets) BY <3>4
      <4>2. created + 1 # NoBucket BY <3>2 DEF NoBucket
      <4> QED BY <4>1, <4>2 DEF Lookup
    <3>6. NeverFull' BY <3>1, <3>5 DEF NeverFull, TypeOK
    <3>7. TableBound'
      <4>1. CASE i(tab) # created + 1
        <5>1. table' = tab BY <3>1, <4>1
        <5> QED BY <5>1, <3>4 DEF TableBound, Size, Tracked
      <4>2. CASE i(tab) = created + 1
        <5>1. Tracked(table') = Tracked(tab) \cup {key[t]}
          BY <3>1, <3>2, <3>3, <4>2 DEF Tracked, NoBucket
        <5>2. Cardinality(Tracked(tab) \cup {key[t]}) =
                IF key[t] \in Tracked(tab) THEN Size(tab) ELSE Size(tab) + 1
          BY <3>4, FS_AddElement DEF Size
        <5>3. Size(table') <= Size(tab) + 1 /\ Size(table') \in Nat
          BY <5>1, <5>2, <3>4 DEF Size
        <5>4. 4 * (Size(table') - 1) < 3 * MaxBuckets BY <5>3, <3>4
        <5> QED BY <5>4 DEF TableBound, Size, Tracked
      <4> QED BY <4>1, <4>2
    <3> QED BY <3>6, <3>7
  <2>3. ASSUME NEW t \in Thread, Use(t) PROVE TableBound' /\ NeverFull'
    <3>1. TableBound' BY <2>1, <2>3 DEF Use
    <3> DEFINE b == Refilled(heap[ref[t]], now[t])
    <3> DEFINE a == CASE b.tokens >= 1 -> "allow" [] Slips(b) -> "slip" [] OTHER -> "drop"
    <3>2. answer' = [answer EXCEPT ![t] = a] BY <2>3 DEF Use
    <3> HIDE DEF b
    <3>3. a # "full" OBVIOUS
    <3> HIDE DEF a
    <3> QED BY <3>1, <3>2, <3>3 DEF NeverFull, TypeOK
  <2>4. ASSUME NEW t \in Thread, NEW k \in Key, Arrive(t, k) PROVE TableBound' /\ NeverFull'
    BY <2>1, <2>4 DEF Arrive, NeverFull, TypeOK
  <2>5. CASE Tick
    BY <2>1, <2>5 DEF Tick, NeverFull
  <2>6. CASE UNCHANGED vars
    BY <2>1, <2>6 DEF vars, NeverFull
  <2> QED BY <2>2, <2>3, <2>4, <2>5, <2>6 DEF Next
<1> QED BY <1>1, <1>2, TypeCorrect, PTL DEF Spec

(* The table never holds more than one bucket beyond the force threshold,  *)
(* however many requests race for it (bucket.go getOrCreate).              *)
THEOREM TableKept == Spec => []TableBound
BY TableInvariant, PTL

(* No request is turned away because the table is full (limiter.go         *)
(* ErrTableFull).                                                          *)
THEOREM RoomForAll == Spec => []NeverFull
BY TableInvariant, PTL
=============================================================================
