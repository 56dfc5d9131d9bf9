-------------------------------- MODULE Master --------------------------------
(***************************************************************************)
(* The master: the DNSRecord objects in the Kubernetes API, the watch      *)
(* stream on them (internal/watch), the debouncer (Trigger), the main      *)
(* loop with its retry timer, and the resign goroutine that rebuilds       *)
(* concurrently with the main loop (internal/master).                      *)
(*                                                                         *)
(* A zone maps every record object to its value: NoRecord when the object  *)
(* does not exist, BadRecord when its JSON does not unmarshal into rec.RR. *)
(***************************************************************************)
EXTENDS Integers, FiniteSets

CONSTANTS Rec,            \* names of the DNSRecord objects
          Val,            \* well-formed record contents
          NoRecord,       \* the object does not exist
          BadRecord,      \* the object exists and does not unmarshal
          NoDB,           \* the nil *db.DB
          SaneZones,      \* the zones SanityChecks accepts (serial aside)
          MaxRecords,     \* cfg.Master.MaxRecords
          SerialMod,      \* 2^32 in the code: the width of the SOA serial
          Signed,         \* cfg.DNSSEC.Keys is not empty
          BadEdits,       \* users may overwrite a good record with a bad one
          ChanCap,        \* capacity of the watch channel, 16 in the code
          MaxWrites,      \* bound: changes to the store
          MaxFaults,      \* bound: API failures, stream losses, restarts
          MaxEvents,      \* bound: changes and failures together
          MaxClock        \* bound: last second of the clock

Zone == [Rec -> Val \cup {NoRecord, BadRecord}]

EmptyZone == [r \in Rec |-> NoRecord]

Present(z) == {r \in Rec : z[r] # NoRecord}

(* The part of a zone the watch stream and the list can decode.            *)
Readable(z) == [r \in Rec |-> IF z[r] = BadRecord THEN NoRecord ELSE z[r]]

Parses(z) == \A r \in Rec : z[r] # BadRecord

ASSUME MasterAssumption ==
    /\ IsFiniteSet(Rec)
    /\ NoRecord \notin Val /\ BadRecord \notin Val /\ NoRecord # BadRecord
    /\ NoDB \notin [zone : Zone, serial : Nat]
    /\ EmptyZone \notin SaneZones        \* SanityChecks: exactly one SOA record
    /\ Signed \in BOOLEAN /\ BadEdits \in BOOLEAN

ASSUME BoundAssumption ==
    /\ MaxRecords \in Nat /\ SerialMod \in Nat \ {0} /\ ChanCap \in Nat \ {0}
    /\ MaxWrites \in Nat /\ MaxFaults \in Nat /\ MaxEvents \in Nat
    /\ MaxClock \in Nat \ {0}

(* The two goroutines that call rebuild.                                   *)
Rebuilder == {"main", "resign"}

DB == [zone : Zone, serial : 0..SerialMod - 1]

VARIABLES
    store,                \* the DNSRecord objects in the API server
    writes, faults, clock,\* how much of each bound is used; clock in seconds
    stream,               \* the watch stream is "up" or "down"
    wire,                 \* undelivered decodable event lines of the stream
    junk,                 \* undelivered lines streamOnce discards
    queued, burst, trigger,
    phase,                \* "initial": before MainLoop's select loop; "loop"
    retry,                \* retryTimer # nil
    pc,                   \* where each rebuilder is in rebuild
    work,                 \* the newDB under construction by each rebuilder
    current,              \* ms.current
    lastMain              \* history: the zone of the main loop's last swap

envVars    == <<store, writes, faults, clock>>
streamVars == <<stream, wire, junk>>
loopVars   == <<phase, retry, pc, work, current, lastMain>>
debounceVars == <<queued, burst, trigger>>
vars == <<envVars, streamVars, debounceVars, loopVars>>

Debouncer == INSTANCE Trigger

TypeOK ==
    /\ store \in Zone
    /\ writes \in 0..MaxWrites /\ faults \in 0..MaxFaults /\ clock \in 0..MaxClock
    /\ stream \in {"up", "down"} /\ wire \in Nat /\ junk \in Nat
    /\ Debouncer!TriggerTypeOK
    /\ phase \in {"initial", "loop"} /\ retry \in BOOLEAN
    /\ pc \in [Rebuilder -> {"idle", "list", "build", "sign", "swap"}]
    /\ work \in [Rebuilder -> DB]
    /\ current \in DB \cup {NoDB}
    /\ lastMain \in Zone \cup {NoDB}

NoWork == [zone |-> EmptyZone, serial |-> 0]

(* New and the start of MainLoop: the watch goroutine is started and the   *)
(* initial rebuild follows; nothing reads the event channel before it ends.*)
Startup ==
    /\ stream' = "down" /\ wire' = 0 /\ junk' = 0
    /\ queued' = 0 /\ burst' = FALSE /\ trigger' = FALSE
    /\ phase' = "initial" /\ retry' = FALSE
    /\ pc' = [p \in Rebuilder |-> IF p = "main" THEN "list" ELSE "idle"]
    /\ work' = [p \in Rebuilder |-> NoWork]
    /\ current' = NoDB /\ lastMain' = NoDB

Init ==
    /\ store \in Zone
    /\ writes = 0 /\ faults = 0 /\ clock = 1
    /\ stream = "down" /\ wire = 0 /\ junk = 0
    /\ Debouncer!TriggerInit
    /\ phase = "initial" /\ retry = FALSE
    /\ pc = [p \in Rebuilder |-> IF p = "main" THEN "list" ELSE "idle"]
    /\ work = [p \in Rebuilder |-> NoWork]
    /\ current = NoDB /\ lastMain = NoDB

-----------------------------------------------------------------------------
(* The environment.                                                        *)

(* The bound on changes and failures together is not reached.              *)
Room == writes + faults < MaxEvents

(* A DNSRecord is created, modified or deleted.  An open watch sends one    *)
(* line; the line of a deletion carries the object as it last was.         *)
StoreWrite(r, v) ==
    LET object == IF v = NoRecord THEN store[r] ELSE v IN
    /\ writes < MaxWrites /\ Room /\ v # store[r]
    /\ v = BadRecord => BadEdits \/ store[r] = NoRecord
    /\ writes' = writes + 1
    /\ store' = [store EXCEPT ![r] = v]
    /\ IF stream = "down" THEN UNCHANGED <<wire, junk>>
       ELSE IF object = BadRecord THEN junk' = junk + 1 /\ UNCHANGED wire
       ELSE wire' = wire + 1 /\ UNCHANGED junk
    /\ UNCHANGED <<faults, clock, stream, debounceVars, loopVars>>

(* One second passes on the wall clock.                                    *)
Tick ==
    /\ clock < MaxClock /\ clock' = clock + 1
    /\ UNCHANGED <<store, writes, faults, streamVars, debounceVars, loopVars>>

(* The stream ends (EOF, error): what it had not delivered is lost.        *)
StreamLost ==
    /\ faults < MaxFaults /\ Room /\ faults' = faults + 1
    /\ stream = "up" /\ stream' = "down" /\ wire' = 0 /\ junk' = 0
    /\ UNCHANGED <<store, writes, clock, debounceVars, loopVars>>

(* The process is restarted, or reloaded with a new Master (cmd/master).   *)
Restart ==
    /\ faults < MaxFaults /\ Room /\ faults' = faults + 1
    /\ Startup
    /\ UNCHANGED <<store, writes, clock>>

-----------------------------------------------------------------------------
(* internal/watch.                                                         *)

(* streamOnce opens a stream without a resourceVersion, so the API server  *)
(* first replays an ADDED line for every object that exists.  Taken from   *)
(* the reconnect loop after its one-second pause.                          *)
Connect ==
    /\ stream = "down" /\ stream' = "up"
    /\ wire' = Cardinality(Present(Readable(store)))
    /\ junk' = Cardinality({r \in Rec : store[r] = BadRecord})
    /\ UNCHANGED <<envVars, debounceVars, loopVars>>

(* A line that unmarshals is sent to the channel, blocking while it is full.*)
StreamForward ==
    /\ wire > 0 /\ wire' = wire - 1
    /\ Debouncer!Send
    /\ UNCHANGED <<envVars, stream, junk, loopVars>>

(* A line that does not unmarshal is counted and skipped.                  *)
StreamSkip ==
    /\ junk > 0 /\ junk' = junk - 1
    /\ UNCHANGED <<envVars, stream, wire, debounceVars, loopVars>>

-----------------------------------------------------------------------------
(* debounce, started once the initial rebuild is over.                     *)

DebounceEvent ==
    /\ phase = "loop" /\ Debouncer!Recv
    /\ UNCHANGED <<envVars, streamVars, loopVars>>

DebounceFire ==
    /\ phase = "loop" /\ Debouncer!Fire
    /\ UNCHANGED <<envVars, streamVars, loopVars>>

-----------------------------------------------------------------------------
(* rebuild, run by the main loop and by the resign goroutine without a lock *)
(* around it: only the final assignment is under ms.mu.                    *)

(* Mutant of Return: doRebuild only logs a failure.                        *)
ReturnNoRetry(p, ok) ==
    /\ pc' = [pc EXCEPT ![p] = "idle"]
    /\ IF p = "main" THEN phase' = "loop" /\ retry' = FALSE
       ELSE UNCHANGED <<phase, retry>>

(* How the caller goes on.  The initial rebuild arms no retry; doRebuild   *)
(* arms one unless it is armed, and disarms it after a success.  The       *)
(* resign goroutine only logs.                                             *)
Return(p, ok) ==
    /\ pc' = [pc EXCEPT ![p] = "idle"]
    /\ IF p = "main"
       THEN phase' = "loop" /\ retry' = (phase = "loop" /\ ~ok)
       ELSE UNCHANGED <<phase, retry>>

RebuildStep(p, from, to) == pc[p] = from /\ pc' = [pc EXCEPT ![p] = to]

(* The list either decodes every object or fails as a whole.               *)
List(p) ==
    /\ Parses(store)
    /\ RebuildStep(p, "list", "build")
    /\ work' = [work EXCEPT ![p] = [NoWork EXCEPT !.zone = store]]
    /\ UNCHANGED <<envVars, streamVars, debounceVars, phase, retry, current, lastMain>>

ListUnreadable(p) ==
    /\ pc[p] = "list" /\ ~Parses(store)
    /\ Return(p, FALSE)
    /\ UNCHANGED <<envVars, streamVars, debounceVars, work, current, lastMain>>

(* The API refuses or drops the list request or, while signing, the read   *)
(* of a key Secret.                                                        *)
RebuildFault(p) ==
    /\ faults < MaxFaults /\ Room /\ faults' = faults + 1
    /\ pc[p] \in {"list", "sign"}
    /\ Return(p, FALSE)
    /\ UNCHANGED <<store, writes, clock, streamVars, debounceVars, work, current, lastMain>>

SanityChecks(db) == db.serial # 0 /\ db.zone \in SaneZones

(* The checks that can reject a list: its length, then db.SanityChecks.    *)
Accepts(db) == Cardinality(Present(db.zone)) <= MaxRecords /\ SanityChecks(db)

Stamped(p) == [work[p] EXCEPT !.serial = clock % SerialMod]

(* Mutant of Build: the result of the checks is ignored.                   *)
BuildUnchecked(p) ==
    /\ RebuildStep(p, "build", IF Signed THEN "sign" ELSE "swap")
    /\ work' = [work EXCEPT ![p] = Stamped(p)]
    /\ UNCHANGED <<envVars, streamVars, debounceVars, phase, retry, current, lastMain>>

(* The record limit, the serial taken from the clock and the sanity checks.*)
Build(p) ==
    /\ RebuildStep(p, "build", IF Signed THEN "sign" ELSE "swap")
    /\ Accepts(Stamped(p))
    /\ work' = [work EXCEPT ![p] = Stamped(p)]
    /\ UNCHANGED <<envVars, streamVars, debounceVars, phase, retry, current, lastMain>>

BuildRejected(p) ==
    /\ pc[p] = "build" /\ ~Accepts(Stamped(p))
    /\ Return(p, FALSE)
    /\ UNCHANGED <<envVars, streamVars, debounceVars, work, current, lastMain>>

(* signDB returns the zone with its DNSSEC records; its content is the same.*)
Sign(p) ==
    /\ RebuildStep(p, "sign", "swap")
    /\ UNCHANGED <<envVars, streamVars, debounceVars, phase, retry, work, current, lastMain>>

(* The swap under ms.mu.  The push goroutine it starts touches no state of *)
(* the master: Slave models its messages.                                  *)
Swap(p) ==
    /\ pc[p] = "swap"
    /\ current' = work[p]
    /\ lastMain' = IF p = "main" THEN work[p].zone ELSE lastMain
    /\ Return(p, TRUE)
    /\ UNCHANGED <<envVars, streamVars, debounceVars, work>>

Rebuild(p) ==
    \/ List(p) \/ ListUnreadable(p)
    \/ Build(p) \/ BuildRejected(p)
    \/ Sign(p) \/ Swap(p)

-----------------------------------------------------------------------------
(* The select loop of MainLoop and the resign goroutine.                   *)

MainIdle == phase = "loop" /\ pc["main"] = "idle"

TakeTrigger ==
    /\ MainIdle /\ Debouncer!Take
    /\ pc' = [pc EXCEPT !["main"] = "list"]
    /\ UNCHANGED <<envVars, streamVars, phase, retry, work, current, lastMain>>

RetryFires ==
    /\ MainIdle /\ retry /\ retry' = FALSE
    /\ pc' = [pc EXCEPT !["main"] = "list"]
    /\ UNCHANGED <<envVars, streamVars, debounceVars, phase, work, current, lastMain>>

(* Mutant of ResignTick: it only repeats what has failed.                  *)
ResignTickRetries ==
    /\ retry
    /\ phase = "loop" /\ RebuildStep("resign", "idle", "list")
    /\ UNCHANGED <<envVars, streamVars, debounceVars, phase, retry, work, current, lastMain>>

ResignTick ==
    /\ phase = "loop" /\ RebuildStep("resign", "idle", "list")
    /\ UNCHANGED <<envVars, streamVars, debounceVars, phase, retry, work, current, lastMain>>

Next ==
    \/ \E r \in Rec, v \in Val \cup {NoRecord, BadRecord} : StoreWrite(r, v)
    \/ Tick \/ StreamLost \/ Restart
    \/ Connect \/ StreamForward \/ StreamSkip
    \/ DebounceEvent \/ DebounceFire
    \/ \E p \in Rebuilder : Rebuild(p) \/ RebuildFault(p)
    \/ TakeTrigger \/ RetryFires \/ ResignTick

Spec == Init /\ [][Next]_vars

(* Goroutines run, timers expire, the reconnect loop reconnects and time    *)
(* passes.  Nothing is assumed of writers or faults.                       *)
Fairness ==
    /\ WF_vars(Tick) /\ WF_vars(Connect) /\ WF_vars(StreamForward) /\ WF_vars(StreamSkip)
    /\ WF_vars(DebounceEvent) /\ WF_vars(DebounceFire)
    /\ \A p \in Rebuilder : WF_vars(Rebuild(p))
    /\ WF_vars(TakeTrigger \/ RetryFires) /\ WF_vars(ResignTick)

FairSpec == Spec /\ Fairness

-----------------------------------------------------------------------------
(* Properties.                                                             *)

(* What rebuild accepts, the serial aside.                                *)
Acceptable(z) == Parses(z) /\ z \in SaneZones /\ Cardinality(Present(z)) <= MaxRecords

(* Something the master's own goroutines will act on without a new change. *)
StreamPending == stream = "down" \/ wire > 0 \/ queued > 0 \/ burst \/ trigger

Quiescent == ~StreamPending /\ ~retry /\ MainIdle

(* No change to the zone is lost: when no stream, event, debounce timer,    *)
(* trigger, retry or rebuild of the main loop is outstanding, the main     *)
(* loop's last swap installed exactly the decodable records of the store,  *)
(* whatever streams broke, rebuilds failed or restarts happened before     *)
(* (master.go MainLoop and doRebuild, watch.go, debounce.go).  An empty    *)
(* zone is excepted: a reconnect replays nothing for it, and SanityChecks  *)
(* would reject it.                                                        *)
NoLostUpdate ==
    Quiescent /\ Readable(store) # EmptyZone => lastMain = Readable(store)

(* Whatever is served passed the checks of rebuild: a stale or failed       *)
(* rebuild of either goroutine never installs a database that the limit    *)
(* or SanityChecks would reject, nor a partly decoded one (db.go rebuild). *)
ServesOnlyAccepted == current # NoDB => Accepts(current) /\ Parses(current.zone)

(* Why NoLostUpdate is preserved: each place the main loop can be in, with *)
(* what still covers a change that its last list did not contain.          *)
InitialCovered ==
    phase = "initial" =>
        /\ ~retry
        /\ Readable(store) = EmptyZone \/ stream = "down" \/ wire > 0 \/ queued > 0

WorkCovered ==
    pc["main"] \in {"build", "sign", "swap"} =>
        Readable(store) = EmptyZone \/ StreamPending \/ work["main"].zone = Readable(store)

IdleCovered ==
    MainIdle =>
        Readable(store) = EmptyZone \/ StreamPending \/ retry \/ lastMain = Readable(store)

(* What each rebuilder holds has passed the checks it is past.             *)
WorkAccepted ==
    \A p \in Rebuilder :
        /\ pc[p] \in {"build", "sign", "swap"} => Parses(work[p].zone)
        /\ pc[p] \in {"sign", "swap"} => Accepts(work[p])

(* Once changes and faults are over, an acceptable zone is served for good, *)
(* also when a slow resign put an older database back after the main loop  *)
(* (rebuild runs unsynchronised in two goroutines, db.go): later resigns   *)
(* repair it.                                                              *)
Converges == <>[](Acceptable(store) => current # NoDB /\ current.zone = store)
=============================================================================
