---------------------------- MODULE DebounceProofs ----------------------------
(***************************************************************************)
(* Proofs about Debounce for every quiet window, deadline and channel      *)
(* capacity.                                                               *)
(***************************************************************************)
EXTENDS Debounce, TLAPS

(* The types and the agreement of the two timers, which the results below  *)
(* rest on.                                                                *)
LEMMA TimersInvariant == Spec => [](TypeOK /\ TimersAgree)
<1> USE DebounceAssumption DEF Off
<1>1. Init => TypeOK /\ TimersAgree
  BY DEF Init, TypeOK, TimersAgree
<1>2. TypeOK /\ TimersAgree /\ [Next]_vars => (TypeOK /\ TimersAgree)'
  <2> SUFFICES ASSUME TypeOK, TimersAgree, [Next]_vars PROVE (TypeOK /\ TimersAgree)'
    OBVIOUS
  <2> USE DEF TypeOK, TimersAgree
  <2>1. CASE Arrive
    BY <2>1 DEF Arrive
  <2>2. CASE Event
    BY <2>2 DEF Event
  <2>3. CASE QuietFires \/ DeadlineFires
    BY <2>3 DEF QuietFires, DeadlineFires, fire
  <2>4. CASE Receive
    BY <2>4 DEF Receive
  <2>5. CASE Tick
    BY <2>5 DEF Tick, Lapse, Running
  <2>6. CASE UNCHANGED vars
    BY <2>6 DEF vars
  <2> QED BY <2>1, <2>2, <2>3, <2>4, <2>5, <2>6 DEF Next
<1> QED BY <1>1, <1>2, PTL DEF Spec

(* The events channel never holds more than its capacity, out never more   *)
(* than one token, and no timer runs longer than its setting or past its   *)
(* end (debounce.go).                                                      *)
THEOREM TypeCorrect == Spec => []TypeOK
BY TimersInvariant, PTL

(* No burst is held longer than the deadline (debounce.go).                *)
THEOREM DeadlineKept == Spec => []DeadlineBound
<1>1. TypeOK /\ TimersAgree => DeadlineBound
  BY DebounceAssumption DEF TypeOK, TimersAgree, DeadlineBound, Off
<1> QED BY <1>1, TimersInvariant, PTL

(* A token is produced neither early nor by a timer of an earlier burst    *)
(* (debounce.go fire).                                                     *)
THEOREM TokensOnTime == Spec => FiresOnTime
<1> DEFINE A == (quietTimer # Off /\ quietTimer' = Off) =>
                    sinceLast >= Quiet \/ sinceFirst >= Deadline
<1>1. TypeOK /\ TimersAgree /\ [Next]_vars => [A]_vars
  <2> SUFFICES ASSUME TypeOK, TimersAgree, Next, quietTimer # Off, quietTimer' = Off
               PROVE  sinceLast >= Quiet \/ sinceFirst >= Deadline
    OBVIOUS
  <2> USE DebounceAssumption DEF TypeOK, TimersAgree, Off
  <2>1. CASE QuietFires \/ DeadlineFires
    BY <2>1 DEF QuietFires, DeadlineFires
  <2>2. CASE Arrive \/ Receive \/ Event \/ Tick
    BY <2>2 DEF Arrive, Receive, Event, Tick, Lapse, Running
  <2> QED BY <2>1, <2>2 DEF Next
<1> QED BY <1>1, TimersInvariant, PTL DEF Spec, FiresOnTime

(* Every step of the timed debouncer is a step of the untimed trigger or   *)
(* leaves it unchanged (debounce.go, with the mapping of Abstract).        *)
THEOREM TriggerSafety ==
  Spec => Abstract!TriggerInit /\ [][Abstract!TriggerNext]_(Abstract!triggerVars)
<1> USE DebounceAssumption DEF Off
<1>1. Init => Abstract!TriggerInit
  BY DEF Init, Abstract!TriggerInit
<1>2. TypeOK /\ TimersAgree /\ [Next]_vars =>
        [Abstract!TriggerNext]_(Abstract!triggerVars)
  <2> SUFFICES ASSUME TypeOK, TimersAgree, [Next]_vars
               PROVE  [Abstract!TriggerNext]_(Abstract!triggerVars)
    OBVIOUS
  <2> USE DEF Abstract!TriggerNext, Abstract!triggerVars
  <2>1. CASE Arrive
    BY <2>1 DEF Arrive, Abstract!Send
  <2>2. CASE Event
    <3>1. quietTimer' # Off
      BY <2>2 DEF Event
    <3> QED BY <2>2, <3>1 DEF Event, Abstract!Recv
  <2>3. CASE QuietFires \/ DeadlineFires
    <3>1. quietTimer # Off /\ quietTimer' = Off /\ out' > 0
      BY <2>3 DEF QuietFires, DeadlineFires, fire, TypeOK, TimersAgree
    <3>2. UNCHANGED queued
      BY <2>3 DEF QuietFires, DeadlineFires, fire
    <3> QED BY <3>1, <3>2, Zenon DEF Abstract!Fire
  <2>4. CASE Receive
    <3>1. out > 0 /\ ~(out' > 0)
      BY <2>4 DEF Receive, TypeOK
    <3>2. queued' = queued /\ quietTimer' = quietTimer
      BY <2>4 DEF Receive
    <3> QED BY <3>1, <3>2, SMT DEF Abstract!Take
  <2>5. CASE Tick
    <3>1. (quietTimer' # Off) = (quietTimer # Off)
      BY <2>5 DEF Tick, Lapse, Running, TypeOK
    <3> QED BY <2>5, <3>1 DEF Tick
  <2>6. CASE UNCHANGED vars
    BY <2>6 DEF vars
  <2> QED BY <2>1, <2>2, <2>3, <2>4, <2>5, <2>6 DEF Next
<1> QED BY <1>1, <1>2, TimersInvariant, PTL DEF Spec
=============================================================================
