------------------------------- MODULE Debounce -------------------------------
(***************************************************************************)
(* internal/master/debounce.go with its two timers.  Time is discrete and  *)
(* a running timer holds the ticks it has left; Off is the nil timer.      *)
(* Debounce implements Trigger: a burst of any length becomes one token.   *)
(***************************************************************************)
EXTENDS Integers

CONSTANTS Quiet,          \* 5 s in the code
          Deadline,       \* 30 s in the code
          ChanCap         \* capacity of the events channel

ASSUME DebounceAssumption ==
    /\ Quiet \in Nat \ {0} /\ Deadline \in Nat \ {0} /\ Quiet <= Deadline
    /\ ChanCap \in Nat \ {0}

VARIABLES queued,         \* events in the channel
          quietTimer, deadlineTimer,
          out,            \* tokens in the out channel, which has room for one
          sinceFirst,     \* history: ticks since the burst's first event
          sinceLast       \* history: ticks since the burst's last event

vars == <<queued, quietTimer, deadlineTimer, out, sinceFirst, sinceLast>>

Off == -1

TypeOK ==
    /\ queued \in 0..ChanCap
    /\ quietTimer \in -1..Quiet /\ deadlineTimer \in -1..Deadline
    /\ out \in 0..1
    /\ sinceFirst \in Nat /\ sinceLast \in Nat

Init ==
    /\ queued = 0 /\ out = 0
    /\ quietTimer = Off /\ deadlineTimer = Off
    /\ sinceFirst = 0 /\ sinceLast = 0

(* streamOnce sends an event; the send blocks while the channel is full.   *)
Arrive ==
    /\ queued < ChanCap /\ queued' = queued + 1
    /\ UNCHANGED <<quietTimer, deadlineTimer, out, sinceFirst, sinceLast>>

(* Mutant of Event: every event also restarts the deadline.                *)
EventRestartsDeadline ==
    /\ queued > 0 /\ queued' = queued - 1
    /\ quietTimer' = Quiet /\ deadlineTimer' = Deadline
    /\ sinceFirst' = IF deadlineTimer = Off THEN 0 ELSE sinceFirst
    /\ sinceLast' = 0
    /\ UNCHANGED out

(* Mutant of Event: the quiet timer is not restarted within a burst.       *)
EventKeepsQuiet ==
    /\ queued > 0 /\ queued' = queued - 1
    /\ quietTimer' = IF quietTimer = Off THEN Quiet ELSE quietTimer
    /\ deadlineTimer' = IF deadlineTimer = Off THEN Deadline ELSE deadlineTimer
    /\ sinceFirst' = IF deadlineTimer = Off THEN 0 ELSE sinceFirst
    /\ sinceLast' = 0
    /\ UNCHANGED out

(* An event restarts the quiet timer and starts the deadline of a burst.   *)
Event ==
    /\ queued > 0 /\ queued' = queued - 1
    /\ quietTimer' = Quiet
    /\ deadlineTimer' = IF deadlineTimer = Off THEN Deadline ELSE deadlineTimer
    /\ sinceFirst' = IF deadlineTimer = Off THEN 0 ELSE sinceFirst
    /\ sinceLast' = 0
    /\ UNCHANGED out

(* Mutant of fire: the send waits for room in out, holding the burst.      *)
fireBlocking ==
    /\ out < 1 /\ out' = out + 1
    /\ quietTimer' = Off /\ deadlineTimer' = Off
    /\ sinceFirst' = 0 /\ sinceLast' = 0
    /\ UNCHANGED queued

(* Mutant of fire: out is made with room for two tokens.                   *)
fireTwo ==
    /\ quietTimer' = Off /\ deadlineTimer' = Off
    /\ out' = IF out < 2 THEN out + 1 ELSE out
    /\ sinceFirst' = 0 /\ sinceLast' = 0
    /\ UNCHANGED queued

(* fire stops both timers; the send is dropped when out is full.           *)
fire ==
    /\ quietTimer' = Off /\ deadlineTimer' = Off
    /\ out' = IF out < 1 THEN out + 1 ELSE out
    /\ sinceFirst' = 0 /\ sinceLast' = 0
    /\ UNCHANGED queued

QuietFires == quietTimer = 0 /\ fire

DeadlineFires == deadlineTimer = 0 /\ fire

(* The main loop receives the token.                                       *)
Receive ==
    /\ out > 0 /\ out' = out - 1
    /\ UNCHANGED <<queued, quietTimer, deadlineTimer, sinceFirst, sinceLast>>

Running(t) == t # Off

Lapse(t) == IF Running(t) THEN t - 1 ELSE t

(* A tick of time.  An expired timer is served before the next tick.       *)
Tick ==
    /\ quietTimer # 0 /\ deadlineTimer # 0
    /\ quietTimer' = Lapse(quietTimer) /\ deadlineTimer' = Lapse(deadlineTimer)
    /\ sinceFirst' = IF Running(deadlineTimer) THEN sinceFirst + 1 ELSE 0
    /\ sinceLast' = IF Running(deadlineTimer) THEN sinceLast + 1 ELSE 0
    /\ UNCHANGED <<queued, out>>

Next == Arrive \/ Event \/ QuietFires \/ DeadlineFires \/ Receive \/ Tick

Spec == Init /\ [][Next]_vars

(* The debounce goroutine is scheduled and time passes; events and the     *)
(* main loop may do as they like, an endless stream of events included.    *)
FairSpec ==
    /\ Spec
    /\ WF_vars(Event) /\ WF_vars(Tick)
    /\ WF_vars(QuietFires) /\ WF_vars(DeadlineFires)

-----------------------------------------------------------------------------
(* Properties.                                                             *)

(* The two timers run together, and each has left what its history says.   *)
TimersAgree ==
    /\ quietTimer = Off <=> deadlineTimer = Off
    /\ quietTimer # Off => sinceLast + quietTimer = Quiet
    /\ deadlineTimer # Off => sinceFirst + deadlineTimer = Deadline
    /\ deadlineTimer = Off => sinceFirst = 0

(* A burst is never held longer than the deadline counted from its first   *)
(* event, however many events follow (debounce.go: the deadline timer is   *)
(* started only by the first event of a burst).                            *)
DeadlineBound == sinceFirst <= Deadline

(* A token is produced only after Quiet ticks without an event or Deadline *)
(* ticks after the first one (the doc comment of debounce): a stopped      *)
(* timer of an earlier burst never fires into a later one.                 *)
FiresOnTime ==
    [][(quietTimer # Off /\ quietTimer' = Off) =>
            sinceLast >= Quiet \/ sinceFirst >= Deadline]_vars

Abstract == INSTANCE Trigger
    WITH burst <- quietTimer # Off, trigger <- out > 0

(* The debouncer implements the untimed trigger that Master is built on,   *)
(* its liveness included: a burst always ends in a token, also when events *)
(* never stop coming (debounce.go).                                        *)
ImplementsTrigger == Abstract!TriggerSpec
=============================================================================
