----------------------------- MODULE MasterProofs -----------------------------
(***************************************************************************)
(* Proofs about Master for every set of records, every channel capacity    *)
(* and every bound on changes and faults.                                  *)
(***************************************************************************)
EXTENDS Master, FiniteSetTheorems, TLAPS

(* The number of lines a stream replays on connect (watch/stream.go) is a  *)
(* natural number, and is not zero when a decodable record exists.         *)
LEMMA ReplayCount ==
  ASSUME NEW z \in Zone
  PROVE  /\ Cardinality(Present(Readable(z))) \in Nat
         /\ Readable(z) # EmptyZone => Cardinality(Present(Readable(z))) > 0
         /\ Cardinality({r \in Rec : z[r] = BadRecord}) \in Nat
<1> DEFINE P == Present(Readable(z))
<1> DEFINE B == {r \in Rec : z[r] = BadRecord}
<1>1. IsFiniteSet(P) /\ IsFiniteSet(B)
  <2>1. P \subseteq Rec /\ B \subseteq Rec BY DEF Present
  <2> HIDE DEF P, B
  <2> QED BY <2>1, MasterAssumption, FS_Subset
<1>2. Cardinality(P) \in Nat /\ Cardinality(B) \in Nat
  <2> HIDE DEF P, B
  <2> QED BY <1>1, FS_CardinalityType
<1>3. ASSUME Readable(z) # EmptyZone PROVE Cardinality(P) > 0
  <2>1. PICK r \in Rec : Readable(z)[r] # EmptyZone[r]
    BY <1>3 DEF Readable, EmptyZone
  <2>2. P # {} BY <2>1 DEF EmptyZone, Present
  <2> HIDE DEF P, B
  <2>3. Cardinality(P) # 0 BY <2>2, <1>1, FS_EmptySet
  <2> QED BY <2>3, <1>2
<1> QED BY <1>2, <1>3

(* Every zone the rebuilders handle is a zone, and a zone without          *)
(* undecodable records reads as itself (client/query.go decodes all or     *)
(* fails).                                                                 *)
LEMMA ReadableZone ==
  ASSUME NEW z \in Zone
  PROVE  Readable(z) \in Zone /\ (Parses(z) => Readable(z) = z)
BY DEF Readable, Parses, Zone

LEMMA NoWorkType == NoWork \in DB
<1>1. EmptyZone \in Zone BY DEF EmptyZone, Zone
<1>2. 0 \in 0..SerialMod - 1 BY BoundAssumption
<1> QED BY <1>1, <1>2 DEF NoWork, DB

(* A step of rebuild keeps the types of what it works on.                  *)
LEMMA StampedType ==
  ASSUME TypeOK, NEW p \in Rebuilder
  PROVE  Stamped(p) \in DB /\ Stamped(p).zone = work[p].zone
<1>1. clock % SerialMod \in 0..SerialMod - 1
  BY BoundAssumption DEF TypeOK
<1>2. work[p] \in DB BY DEF TypeOK
<1> QED BY <1>1, <1>2 DEF Stamped, DB

(* The variables always have their types (master.go Master, MainLoop).     *)
THEOREM TypeCorrect == Spec => []TypeOK
<1> USE DEF Debouncer!TriggerTypeOK
<1>1. Init => TypeOK
  <2> SUFFICES ASSUME Init PROVE TypeOK
    OBVIOUS
  <2> USE DEF Init, Debouncer!TriggerInit
  <2>1. /\ writes \in 0..MaxWrites /\ faults \in 0..MaxFaults /\ clock \in 0..MaxClock
        /\ wire \in Nat /\ junk \in Nat /\ queued \in 0..ChanCap
    BY BoundAssumption
  <2>2. work \in [Rebuilder -> DB]
    BY NoWorkType
  <2>3. pc \in [Rebuilder -> {"idle", "list", "build", "sign", "swap"}]
    OBVIOUS
  <2> QED BY <2>1, <2>2, <2>3 DEF TypeOK
<1>2. TypeOK /\ [Next]_vars => TypeOK'
  <2> SUFFICES ASSUME TypeOK, [Next]_vars PROVE TypeOK'
    OBVIOUS
  <2> USE DEF envVars, streamVars, debounceVars, loopVars
  <2>1. ASSUME NEW r \in Rec, NEW v \in Val \cup {NoRecord, BadRecord}, StoreWrite(r, v)
        PROVE TypeOK'
    BY <2>1, BoundAssumption DEF StoreWrite, TypeOK, Zone
  <2>2. CASE Tick
    BY <2>2, BoundAssumption DEF Tick, TypeOK
  <2>3. CASE StreamLost
    BY <2>3, BoundAssumption DEF StreamLost, TypeOK
  <2>4. CASE Restart
    <3> USE <2>4 DEF Restart, Startup
    <3>1. /\ writes' \in 0..MaxWrites /\ faults' \in 0..MaxFaults /\ clock' \in 0..MaxClock
          /\ wire' \in Nat /\ junk' \in Nat /\ queued' \in 0..ChanCap
      BY BoundAssumption DEF TypeOK
    <3>2. work' \in [Rebuilder -> DB]
      BY NoWorkType
    <3>3. pc' \in [Rebuilder -> {"idle", "list", "build", "sign", "swap"}]
      OBVIOUS
    <3> QED BY <3>1, <3>2, <3>3 DEF TypeOK
  <2>5. CASE Connect
    <3>1. wire' \in Nat /\ junk' \in Nat
      BY <2>5, ReplayCount DEF Connect, TypeOK
    <3> QED BY <2>5, <3>1 DEF Connect, TypeOK
  <2>6. CASE StreamForward
    BY <2>6, BoundAssumption DEF StreamForward, TypeOK, Debouncer!Send
  <2>7. CASE StreamSkip
    BY <2>7 DEF StreamSkip, TypeOK
  <2>8. CASE DebounceEvent
    BY <2>8, BoundAssumption DEF DebounceEvent, TypeOK, Debouncer!Recv
  <2>9. CASE DebounceFire
    BY <2>9 DEF DebounceFire, TypeOK, Debouncer!Fire
  <2>10. ASSUME NEW p \in Rebuilder, Rebuild(p) \/ RebuildFault(p) PROVE TypeOK'
    <3> USE DEF RebuildStep, Return
    <3>1. CASE List(p)
      <4>1. [NoWork EXCEPT !.zone = store] \in DB
        BY BoundAssumption DEF NoWork, DB, TypeOK
      <4> QED BY <3>1, <4>1 DEF List, TypeOK
    <3>2. CASE ListUnreadable(p)
      BY <3>2 DEF ListUnreadable, TypeOK
    <3>3. CASE Build(p)
      BY <3>3, StampedType DEF Build, TypeOK
    <3>4. CASE BuildRejected(p)
      BY <3>4 DEF BuildRejected, TypeOK
    <3>5. CASE Sign(p)
      BY <3>5 DEF Sign, TypeOK
    <3>6. CASE Swap(p)
      BY <3>6 DEF Swap, TypeOK, DB
    <3>7. CASE RebuildFault(p)
      <4>1. faults' \in 0..MaxFaults
        BY <3>7, BoundAssumption DEF RebuildFault, TypeOK
      <4> QED BY <3>7, <4>1 DEF RebuildFault, TypeOK
    <3> QED BY <2>10, <3>1, <3>2, <3>3, <3>4, <3>5, <3>6, <3>7 DEF Rebuild
  <2>11. CASE TakeTrigger
    BY <2>11 DEF TakeTrigger, TypeOK, Debouncer!Take, Rebuilder
  <2>12. CASE RetryFires
    BY <2>12 DEF RetryFires, TypeOK, Rebuilder
  <2>13. CASE ResignTick
    BY <2>13 DEF ResignTick, RebuildStep, TypeOK, Rebuilder
  <2>14. CASE UNCHANGED vars
    BY <2>14 DEF vars, TypeOK
  <2> QED
    BY <2>1, <2>2, <2>3, <2>4, <2>5, <2>6, <2>7, <2>8, <2>9, <2>10, <2>11, <2>12,
       <2>13, <2>14 DEF Next
<1> QED BY <1>1, <1>2, PTL DEF Spec

-----------------------------------------------------------------------------

(* A change the readable part of the zone notices is announced by a line   *)
(* on an open stream, when undecodable records only ever appear as new     *)
(* objects (watch/stream.go drops a line it cannot decode).                *)
LEMMA ChangeAnnounced ==
  ASSUME TypeOK, ~BadEdits, NEW r \in Rec, NEW v \in Val \cup {NoRecord, BadRecord},
         StoreWrite(r, v)
  PROVE  /\ Readable(store') = Readable(store) \/ stream' = "down" \/ wire' > 0
         /\ stream' = stream /\ wire' >= wire
<1>1. CASE stream = "down"
  BY <1>1 DEF StoreWrite, TypeOK
<1>2. CASE stream # "down" /\ (IF v = NoRecord THEN store[r] ELSE v) = BadRecord
  <2>1. {v, store[r]} = {NoRecord, BadRecord}
    BY <1>2, MasterAssumption DEF StoreWrite, TypeOK, Zone
  <2>2. \A q \in Rec : Readable(store')[q] = Readable(store)[q]
    BY <2>1 DEF StoreWrite, Readable, TypeOK, Zone
  <2>3. Readable(store') = Readable(store)
    BY <2>2 DEF Readable
  <2> QED BY <1>2, <2>3 DEF StoreWrite, TypeOK
<1>3. CASE stream # "down" /\ (IF v = NoRecord THEN store[r] ELSE v) # BadRecord
  BY <1>3 DEF StoreWrite, TypeOK
<1> QED BY <1>1, <1>2, <1>3

(* No change is lost: at rest the main loop has installed the decodable    *)
(* records of the store (master.go MainLoop, watch, debounce), as long as  *)
(* no good record is overwritten by an undecodable one.                    *)
THEOREM UpdatesKept ==
  ASSUME ~BadEdits
  PROVE  Spec => []NoLostUpdate
<1> DEFINE Covered == InitialCovered /\ WorkCovered /\ IdleCovered
<1>1. Init => Covered
  BY DEF Init, InitialCovered, WorkCovered, IdleCovered, MainIdle, Rebuilder
<1>2. TypeOK /\ Covered /\ [Next]_vars => Covered'
  <2> SUFFICES ASSUME TypeOK, Covered, [Next]_vars PROVE Covered'
    OBVIOUS
  <2> USE DEF InitialCovered, WorkCovered, IdleCovered, MainIdle, StreamPending
  <2> USE DEF envVars, streamVars, debounceVars, loopVars
  <2>1. ASSUME NEW r \in Rec, NEW v \in Val \cup {NoRecord, BadRecord}, StoreWrite(r, v)
        PROVE Covered'
    <3>1. /\ Readable(store') = Readable(store) \/ stream' = "down" \/ wire' > 0
          /\ stream' = stream /\ wire' >= wire
      BY <2>1, ChangeAnnounced
    <3>2. UNCHANGED <<debounceVars, loopVars>>
      BY <2>1 DEF StoreWrite
    <3>3. CASE stream' = "down" \/ wire' > 0
      BY <3>2, <3>3
    <3>4. CASE stream' # "down" /\ ~(wire' > 0)
      <4>1. Readable(store') = Readable(store) /\ stream # "down" /\ ~(wire > 0)
        BY <3>1, <3>4, <2>1 DEF StoreWrite, TypeOK
      <4> QED BY <3>2, <4>1
    <3> QED BY <3>3, <3>4
  <2>2. CASE Tick
    BY <2>2 DEF Tick
  <2>3. CASE StreamLost
    BY <2>3 DEF StreamLost
  <2>4. CASE Restart
    BY <2>4 DEF Restart, Startup, Rebuilder
  <2>5. CASE Connect
    <3>1. Readable(store) # EmptyZone => wire' > 0
      BY <2>5, ReplayCount DEF Connect, TypeOK
    <3>2. UNCHANGED <<store, debounceVars, loopVars>>
      BY <2>5 DEF Connect
    <3> QED BY <3>1, <3>2
  <2>6. CASE StreamForward
    <3>1. queued' > 0 /\ UNCHANGED <<store, stream, burst, trigger, loopVars>>
      BY <2>6 DEF StreamForward, Debouncer!Send, TypeOK, Debouncer!TriggerTypeOK
    <3> QED BY <3>1
  <2>7. CASE StreamSkip
    BY <2>7 DEF StreamSkip
  <2>8. CASE DebounceEvent
    BY <2>8 DEF DebounceEvent, Debouncer!Recv
  <2>9. CASE DebounceFire
    BY <2>9 DEF DebounceFire, Debouncer!Fire
  <2>10. ASSUME NEW p \in Rebuilder, Rebuild(p) \/ RebuildFault(p) PROVE Covered'
    <3> USE DEF RebuildStep, Return, Rebuilder
    <3>0. UNCHANGED <<store, streamVars, debounceVars>>
      BY <2>10 DEF Rebuild, List, ListUnreadable, Build, BuildRejected, Sign, Swap, RebuildFault
    <3>1. CASE List(p)
      <4>1. Readable(store) = store
        BY <3>1, ReadableZone DEF List, TypeOK
      <4>2. work'[p].zone = store
        BY <3>1 DEF List, TypeOK, NoWork
      <4> QED BY <3>0, <3>1, <4>1, <4>2 DEF List, TypeOK
    <3>2. CASE ListUnreadable(p) \/ BuildRejected(p) \/ RebuildFault(p)
      <4>1. Return(p, FALSE) /\ UNCHANGED <<work, lastMain>>
        BY <3>2 DEF ListUnreadable, BuildRejected, RebuildFault
      <4> QED BY <3>0, <4>1 DEF TypeOK
    <3>3. CASE Build(p)
      <4>1. Stamped(p).zone = work[p].zone
        BY StampedType
      <4>2. work'["main"].zone = work["main"].zone
        BY <3>3, <4>1 DEF Build, TypeOK
      <4> QED BY <3>0, <3>3, <4>2 DEF Build, TypeOK
    <3>4. CASE Sign(p)
      BY <3>0, <3>4 DEF Sign, TypeOK
    <3>5. CASE Swap(p)
      BY <3>0, <3>5 DEF Swap, TypeOK
    <3> QED BY <2>10, <3>1, <3>2, <3>3, <3>4, <3>5 DEF Rebuild
  <2>11. CASE TakeTrigger
    BY <2>11 DEF TakeTrigger, Debouncer!Take, TypeOK, Rebuilder
  <2>12. CASE RetryFires
    BY <2>12 DEF RetryFires, TypeOK, Rebuilder
  <2>13. CASE ResignTick
    BY <2>13 DEF ResignTick, RebuildStep, TypeOK, Rebuilder
  <2>14. CASE UNCHANGED vars
    BY <2>14 DEF vars
  <2> QED
    BY <2>1, <2>2, <2>3, <2>4, <2>5, <2>6, <2>7, <2>8, <2>9, <2>10, <2>11, <2>12,
       <2>13, <2>14 DEF Next
<1>3. Covered => NoLostUpdate
  BY DEF IdleCovered, NoLostUpdate, Quiescent
<1> QED BY <1>1, <1>2, <1>3, TypeCorrect, PTL DEF Spec

-----------------------------------------------------------------------------

(* Only databases that passed the record limit and the sanity checks are   *)
(* ever served, however the two rebuilders interleave (db.go rebuild).     *)
THEOREM OnlyAcceptedServed == Spec => []ServesOnlyAccepted
<1> DEFINE I == WorkAccepted /\ ServesOnlyAccepted
<1>1. Init => I
  BY DEF Init, WorkAccepted, ServesOnlyAccepted, Rebuilder
<1>2. TypeOK /\ I /\ [Next]_vars => I'
  <2> SUFFICES ASSUME TypeOK, I, [Next]_vars PROVE I'
    OBVIOUS
  <2> USE DEF WorkAccepted, ServesOnlyAccepted
  <2> USE DEF envVars, streamVars, debounceVars, loopVars
  <2>1. CASE UNCHANGED <<pc, work, current>>
    BY <2>1
  <2>2. CASE Restart
    BY <2>2 DEF Restart, Startup, Rebuilder
  <2>3. ASSUME NEW p \in Rebuilder, Rebuild(p) \/ RebuildFault(p) PROVE I'
    <3> USE DEF RebuildStep
    <3>1. CASE List(p)
      <4>1. Parses(work'[p].zone)
        BY <3>1 DEF List, TypeOK, NoWork
      <4> QED BY <3>1, <4>1 DEF List, TypeOK
    <3>2. CASE ListUnreadable(p) \/ BuildRejected(p) \/ RebuildFault(p)
      BY <3>2 DEF ListUnreadable, BuildRejected, RebuildFault, Return, TypeOK
    <3>3. CASE Build(p)
      <4>1. Accepts(work'[p]) /\ Parses(work'[p].zone)
        BY <3>3, StampedType DEF Build, TypeOK
      <4> QED BY <3>3, <4>1 DEF Build, TypeOK
    <3>4. CASE Sign(p)
      BY <3>4 DEF Sign, TypeOK
    <3>5. CASE Swap(p)
      BY <3>5 DEF Swap, Return, TypeOK
    <3> QED BY <2>3, <3>1, <3>2, <3>3, <3>4, <3>5 DEF Rebuild
  <2>4. CASE TakeTrigger \/ RetryFires \/ ResignTick
    BY <2>4 DEF TakeTrigger, RetryFires, ResignTick, RebuildStep, TypeOK, Rebuilder
  <2> QED
    BY <2>1, <2>2, <2>3, <2>4
    DEF Next, vars, StoreWrite, Tick, StreamLost, Connect, StreamForward, StreamSkip,
        DebounceEvent, DebounceFire
<1> QED BY <1>1, <1>2, TypeCorrect, PTL DEF Spec
=============================================================================
