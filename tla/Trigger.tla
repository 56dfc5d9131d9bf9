------------------------------- MODULE Trigger -------------------------------
(***************************************************************************)
(* What the debouncer of the master promises, without time: watch events   *)
(* taken from a bounded channel open a burst, a burst eventually becomes   *)
(* one token in a one-place trigger channel, and the main loop takes the   *)
(* token.  Debounce.tla refines this module with the two timers of         *)
(* internal/master/debounce.go; Master.tla is built on these actions.      *)
(***************************************************************************)
EXTENDS Naturals

CONSTANT ChanCap          \* capacity of the watch event channel

VARIABLES queued,         \* events in the channel returned by watch.Watch
          burst,          \* the debouncer's two timers are running
          trigger         \* the out channel (capacity 1) holds its token

triggerVars == <<queued, burst, trigger>>

TriggerTypeOK ==
    /\ queued \in 0..ChanCap
    /\ burst \in BOOLEAN
    /\ trigger \in BOOLEAN

TriggerInit == queued = 0 /\ burst = FALSE /\ trigger = FALSE

(* Mutant of Send: the channel grows without bound.                        *)
SendUnbounded == queued' = queued + 1 /\ UNCHANGED <<burst, trigger>>

(* streamOnce's send blocks while the channel is full.                     *)
Send == queued < ChanCap /\ queued' = queued + 1 /\ UNCHANGED <<burst, trigger>>

(* An event restarts the quiet timer, and the deadline timer if none runs. *)
Recv == queued > 0 /\ queued' = queued - 1 /\ burst' = TRUE /\ UNCHANGED trigger

(* fire: stop both timers; the send on out is dropped when out is full.    *)
Fire == burst /\ burst' = FALSE /\ trigger' = TRUE /\ UNCHANGED queued

(* The main loop receives from triggers.                                   *)
Take == trigger /\ trigger' = FALSE /\ UNCHANGED <<queued, burst>>

TriggerNext == Send \/ Recv \/ Fire \/ Take

(* Go's runtime keeps both goroutines running, and time passes.            *)
TriggerSpec ==
    /\ TriggerInit /\ [][TriggerNext]_triggerVars
    /\ WF_triggerVars(Recv) /\ WF_triggerVars(Fire)
=============================================================================
