----------------------------- MODULE RateLimiter -----------------------------
(***************************************************************************)
(* The per-prefix token buckets of the router (internal/ratelimit), used   *)
(* by many goroutines at once.  A request takes the time, then finds or    *)
(* creates its bucket under the table's lock (collecting garbage first),   *)
(* and only then, under the bucket's own lock, consumes a token: by that   *)
(* time the bucket may have been evicted and its time may be old.  Tokens  *)
(* are whole and time is in ticks.                                         *)
(***************************************************************************)
EXTENDS Integers, FiniteSets

CONSTANTS Key,            \* source prefixes that are not allowlisted
          Thread,         \* goroutines handling a query
          BurstSize, RatePerSec, SlipRatio,
          MaxBuckets,     \* positive: router.newLimiter replaces 0
          MaxAge, GcInterval,
          MaxClock,       \* bound: last tick
          MaxRequests     \* bound: requests, and so buckets ever created

ASSUME LimiterAssumption ==
    /\ IsFiniteSet(Key)
    /\ BurstSize \in Nat \ {0} /\ RatePerSec \in Nat /\ SlipRatio \in Nat
    /\ MaxBuckets \in Nat \ {0}
    /\ MaxAge \in Nat /\ GcInterval \in Nat
    /\ MaxClock \in Nat /\ MaxRequests \in Nat

Id == 1..MaxRequests
NoBucket == 0

VARIABLES clock,
          table,          \* l.buckets: key -> bucket, or NoBucket
          heap,           \* the bucket structs, evicted ones included
          created,        \* buckets created so far
          requests,       \* requests so far
          lastGC,
          pc, key, now, ref,  \* each goroutine's place, request and bucket
          answer          \* each goroutine's last answer

vars == <<clock, table, heap, created, requests, lastGC, pc, key, now, ref, answer>>
requestVars == <<requests, key, now>>

(* granted is a history field: the tokens this bucket has handed out.      *)
Bucket == [tokens : Nat, lastFill : Nat, createdAt : Nat, drops : Nat, granted : Nat]

Answer == {"none", "allow", "drop", "slip", "full"}

TypeOK ==
    /\ clock \in 0..MaxClock /\ lastGC \in 0..MaxClock
    /\ created \in 0..MaxRequests /\ requests \in 0..MaxRequests
    /\ table \in [Key -> 0..created]
    /\ heap \in [Id -> Bucket]
    /\ pc \in [Thread -> {"idle", "get", "use"}]
    /\ key \in [Thread -> Key] /\ now \in [Thread -> 0..MaxClock]
    /\ ref \in [Thread -> 0..created]
    /\ answer \in [Thread -> Answer]

NewBucket(t) ==
    [tokens |-> BurstSize, lastFill |-> t, createdAt |-> t, drops |-> 0, granted |-> 0]

Init ==
    /\ clock = 0 /\ lastGC = 0 /\ created = 0 /\ requests = 0
    /\ table = [k \in Key |-> NoBucket]
    /\ heap = [i \in Id |-> NewBucket(0)]
    /\ pc = [t \in Thread |-> "idle"]
    /\ key \in [Thread -> Key] /\ now = [t \in Thread |-> 0]
    /\ ref = [t \in Thread |-> NoBucket]
    /\ answer = [t \in Thread |-> "none"]

Tick ==
    /\ clock < MaxClock /\ clock' = clock + 1
    /\ UNCHANGED <<table, heap, created, lastGC, pc, requestVars, ref, answer>>

(* Allow and Check read the clock before anything is locked.               *)
Arrive(t, k) ==
    /\ requests < MaxRequests /\ requests' = requests + 1
    /\ pc[t] = "idle" /\ pc' = [pc EXCEPT ![t] = "get"]
    /\ key' = [key EXCEPT ![t] = k] /\ now' = [now EXCEPT ![t] = clock]
    /\ answer' = [answer EXCEPT ![t] = "none"]
    /\ UNCHANGED <<clock, table, heap, created, lastGC, ref>>

-----------------------------------------------------------------------------
(* Garbage collection, under l.mu.                                         *)

Tracked(tab) == {k \in Key : tab[k] # NoBucket}

Size(tab) == Cardinality(Tracked(tab))

(* The table is filled to gcForceThreshold (75%).                          *)
Crowded == 4 * Size(table) >= 3 * MaxBuckets

AtLeastOne(n) == IF n < 1 THEN 1 ELSE n

Evict(keys) == [k \in Key |-> IF k \in keys THEN NoBucket ELSE table[k]]

(* forceGC: the oldest quarter of the buckets, at least one; ties in any   *)
(* order.                                                                  *)
ForceVictims ==
    {E \in SUBSET Tracked(table) :
        /\ Cardinality(E) = AtLeastOne(Size(table) \div 4)
        /\ \A e \in E, k \in Tracked(table) \ E :
               heap[table[e]].createdAt <= heap[table[k]].createdAt}

(* normalGC: by age since creation, however busy the bucket is.            *)
OldKeys(t) == {k \in Tracked(table) : t - heap[table[k]].createdAt > MaxAge}

(* Mutant of Collected: the force GC runs only when the periodic one is    *)
(* due.                                                                    *)
CollectedOnTime(t) ==
    IF t - lastGC < GcInterval THEN {table}
    ELSE IF Crowded THEN {Evict(E) : E \in ForceVictims}
    ELSE {Evict(OldKeys(t))}

(* Mutant of Collected: a crowded table is left to the age-based GC.       *)
CollectedByAge(t) == {Evict(OldKeys(t))}

(* The tables getOrCreate may have after its garbage collection.           *)
Collected(t) ==
    IF Crowded THEN {Evict(E) : E \in ForceVictims}
    ELSE IF t - lastGC >= GcInterval THEN {Evict(OldKeys(t))}
    ELSE {table}

CollectedAt(t) == IF Crowded \/ t - lastGC >= GcInterval THEN t ELSE lastGC

-----------------------------------------------------------------------------
(* getOrCreate, under l.mu.                                                *)

(* The bucket of the key in the collected table: the one found, a new one, *)
(* or none when the table is full (ErrTableFull, the safety valve).        *)
Lookup(tab, k) ==
    IF tab[k] # NoBucket THEN tab[k]
    ELSE IF Size(tab) >= MaxBuckets THEN NoBucket
    ELSE created + 1

GetOrCreate(t) ==
    \E tab \in Collected(now[t]) :
      LET i == Lookup(tab, key[t])
          isNew == i = created + 1
      IN
      /\ pc[t] = "get" /\ (isNew => created < MaxRequests)
      /\ table' = IF isNew THEN [tab EXCEPT ![key[t]] = i] ELSE tab
      /\ heap' = IF isNew THEN [heap EXCEPT ![i] = NewBucket(now[t])] ELSE heap
      /\ created' = IF isNew THEN i ELSE created
      /\ ref' = [ref EXCEPT ![t] = i]
      /\ pc' = [pc EXCEPT ![t] = IF i = NoBucket THEN "idle" ELSE "use"]
      /\ answer' = [answer EXCEPT ![t] = IF i = NoBucket THEN "full" ELSE @]
      /\ lastGC' = CollectedAt(now[t])
      /\ UNCHANGED <<clock, requestVars>>

-----------------------------------------------------------------------------
(* consume, under b.mu.                                                    *)

Capped(n) == IF n > BurstSize THEN BurstSize ELSE n

(* Mutant of Refilled: the time of the last refill is not recorded.        *)
RefilledForever(b, t) ==
    IF t > b.lastFill
    THEN [b EXCEPT !.tokens = Capped(b.tokens + (t - b.lastFill) * RatePerSec)]
    ELSE b

(* Mutant of Refilled: a request that waited refills with its old time.    *)
RefilledBackwards(b, t) ==
    [b EXCEPT !.tokens = Capped(b.tokens + (t - b.lastFill) * RatePerSec),
              !.lastFill = IF t > @ THEN t ELSE @]

(* A request that is older than the last refill refills nothing.           *)
Refilled(b, t) ==
    IF t > b.lastFill
    THEN [b EXCEPT !.tokens = Capped(b.tokens + (t - b.lastFill) * RatePerSec),
                   !.lastFill = t]
    ELSE b

Granted(b) == [b EXCEPT !.tokens = b.tokens - 1, !.granted = b.granted + 1]

Dropped(b) == [b EXCEPT !.drops = b.drops + 1]

Slips(b) == SlipRatio > 0 /\ (b.drops + 1) % SlipRatio = 0

Use(t) ==
    LET b == Refilled(heap[ref[t]], now[t]) IN
    /\ pc[t] = "use" /\ pc' = [pc EXCEPT ![t] = "idle"]
    /\ ref' = [ref EXCEPT ![t] = NoBucket]
    /\ heap' = [heap EXCEPT ![ref[t]] = IF b.tokens >= 1 THEN Granted(b) ELSE Dropped(b)]
    /\ answer' = [answer EXCEPT ![t] =
                     CASE b.tokens >= 1 -> "allow" [] Slips(b) -> "slip" [] OTHER -> "drop"]
    /\ UNCHANGED <<clock, table, created, lastGC, requestVars>>

Next ==
    \/ Tick
    \/ \E t \in Thread :
         \/ \E k \in Key : Arrive(t, k)
         \/ GetOrCreate(t) \/ Use(t)

Spec == Init /\ [][Next]_vars

-----------------------------------------------------------------------------
(* Properties.                                                             *)

(* The table stops growing at the force threshold: it never holds more     *)
(* than one bucket beyond 75% of MaxBuckets, so the cap itself is never    *)
(* exceeded (bucket.go getOrCreate, gc.go forceGC).                        *)
TableBound == 4 * (Size(table) - 1) < 3 * MaxBuckets

(* "normal operation never reaches it because force GC always evicts at    *)
(* least one entry" (limiter.go ErrTableFull): no request is turned away   *)
(* because the table is full.                                              *)
NeverFull == \A t \in Thread : answer[t] # "full"

(* No bucket hands out more than its burst and the refill of the time it   *)
(* has seen, however late or out of order its requests come (bucket.go     *)
(* consume).                                                               *)
Budget(b) ==
    /\ b.createdAt <= b.lastFill
    /\ b.tokens <= BurstSize
    /\ b.tokens + b.granted <= BurstSize + RatePerSec * (b.lastFill - b.createdAt)

BucketBudget == \A i \in Id : Budget(heap[i])
=============================================================================
