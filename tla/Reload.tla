-------------------------------- MODULE Reload --------------------------------
(***************************************************************************)
(* The process around a component (cmd/master, cmd/slave, cmd/router and   *)
(* internal/runtime): the configuration is read once, a watch reports its  *)
(* later changes, and each change makes runtime.Run return so that the     *)
(* loop can run the component again in the same process.  The router also  *)
(* reloads when its TLS certificate changes.  A configuration and a        *)
(* certificate are version numbers; certificate 0 is none, the nil tlsCfg. *)
(***************************************************************************)
EXTENDS Naturals, Sequences

CONSTANTS HasCert,        \* the router with TLS; FALSE for master and slave
          QueueCap,       \* watch buffer, the watcher's hand and cfgCh: 3
          MaxEdits,       \* bound: changes of the configuration
          MaxRotations,   \* bound: number of the last certificate
          MaxFaults       \* bound: lost streams and failures

ASSUME ReloadAssumption ==
    /\ HasCert \in BOOLEAN /\ QueueCap \in Nat \ {0}
    /\ MaxEdits \in Nat /\ MaxRotations \in Nat \ {0} /\ MaxFaults \in Nat

Version == 0..MaxEdits
None == MaxEdits + 1      \* an empty reloadCh

VARIABLES
    spec, cert,           \* the DNSConfig object; the certificate files
    faults, sigSent,      \* SIGTERM has been sent
    stream,               \* config watch: "off", "down", "up"
    wire,                 \* its undelivered MODIFIED and DELETED lines
    queue,                \* delivered ones, up to cfgCh
    main,                 \* "load", "start", "boot", "run", "select", "exited"
    cfg,                  \* the running configuration
    bridge,               \* the goroutine that waits for a change
    newCfg, reloadCh, cancelCh,
    done,                 \* the context of Run is cancelled
    handler, sigCh,       \* goroutine of CancelOnSignal and its channel
    certWatch, certCh, tls,
    dot,                  \* this round's serveDoT (serveDoH is the same)
    port,                 \* who listens on its port: "free", "current", "stale"
    late,                 \* serveDoT goroutines of earlier rounds yet to listen
    missed, certMissed,   \* history: a change nobody was told of
    failed,               \* history: this process met a failure
    reloaded              \* history: this process has reloaded

envVars    == <<spec, cert, faults, sigSent>>
watchVars  == <<stream, wire, queue>>
bridgeVars == <<bridge, newCfg, reloadCh, cancelCh>>
runVars    == <<done, handler, sigCh>>
lnVars     == <<dot, port, late>>
certVars   == <<certWatch, certCh, tls, lnVars>>
history    == <<missed, certMissed, failed, reloaded>>
vars == <<envVars, watchVars, main, cfg, bridgeVars, runVars, certVars, history>>

TypeOK ==
    /\ spec \in Version /\ cert \in 0..MaxRotations /\ tls \in 0..MaxRotations
    /\ faults \in 0..MaxFaults /\ sigSent \in BOOLEAN
    /\ stream \in {"off", "down", "up"}
    /\ wire \in Seq(Version) /\ queue \in Seq(Version) /\ Len(queue) <= QueueCap
    /\ main \in {"load", "start", "boot", "run", "select", "exited"}
    /\ cfg \in Version /\ newCfg \in Version /\ reloadCh \in Version \cup {None}
    /\ bridge \in {"none", "wait", "took", "sent"} /\ cancelCh \in BOOLEAN
    /\ done \in BOOLEAN /\ sigCh \in BOOLEAN
    /\ handler \in {"off", "starting", "on", "stopped"}
    /\ certWatch \in {"off", "starting", "on"} /\ certCh \in BOOLEAN
    /\ dot \in {"off", "starting", "serving", "failed"}
    /\ port \in {"free", "current", "stale"} /\ late \in Nat
    /\ missed \in BOOLEAN /\ certMissed \in BOOLEAN
    /\ failed \in BOOLEAN /\ reloaded \in BOOLEAN

(* A process that is about to read its configuration.                      *)
Init ==
    /\ spec = 0 /\ cert \in {0, 1} /\ faults = 0 /\ sigSent = FALSE
    /\ main = "load" /\ cfg = 0 /\ failed = FALSE /\ reloaded = FALSE
    /\ stream = "off" /\ wire = <<>> /\ queue = <<>>
    /\ bridge = "none" /\ newCfg = 0 /\ reloadCh = None /\ cancelCh = FALSE
    /\ done = FALSE /\ handler = "off" /\ sigCh = FALSE
    /\ certWatch = "off" /\ certCh = FALSE /\ tls = 0
    /\ dot = "off" /\ port = "free" /\ late = 0
    /\ missed = FALSE /\ certMissed = FALSE

Fault == faults < MaxFaults /\ faults' = faults + 1

-----------------------------------------------------------------------------
(* The environment.                                                        *)

(* A user edits the DNSConfig; an open watch sends the new spec.           *)
Edit ==
    /\ spec < MaxEdits /\ spec' = spec + 1
    /\ IF stream = "up" THEN wire' = Append(wire, spec') /\ missed' = FALSE
       ELSE missed' = TRUE /\ UNCHANGED wire
    /\ UNCHANGED <<cert, faults, sigSent, stream, queue, main, cfg, bridgeVars, runVars,
                   certVars, certMissed, failed, reloaded>>

(* A user deletes the DNSConfig and creates another: the DELETED line       *)
(* carries the old spec, the ADDED line is skipped.                        *)
Replace ==
    /\ spec < MaxEdits /\ spec' = spec + 1
    /\ wire' = IF stream = "up" THEN Append(wire, spec) ELSE wire
    /\ missed' = TRUE
    /\ UNCHANGED <<cert, faults, sigSent, stream, queue, main, cfg, bridgeVars, runVars,
                   certVars, certMissed, failed, reloaded>>

(* A certificate that comes late uses up the bound.                        *)
NextCert == IF cert = 0 THEN MaxRotations ELSE cert + 1

(* Mutant of Rotate: a mask that lacks the events of a symlink swap.       *)
RotateUnseen ==
    /\ HasCert /\ cert < MaxRotations /\ cert' = NextCert
    /\ certMissed' = (certMissed \/ certWatch # "on")
    /\ UNCHANGED <<spec, faults, sigSent, watchVars, main, cfg, bridgeVars, runVars,
                   certVars, missed, failed, reloaded>>

(* The kubelet swaps the certificate files; inotify reports it to a watch. *)
Rotate ==
    /\ HasCert /\ cert < MaxRotations /\ cert' = NextCert
    /\ IF certWatch = "on" THEN certCh' = TRUE /\ UNCHANGED certMissed
       ELSE certMissed' = TRUE /\ UNCHANGED certCh
    /\ UNCHANGED <<spec, faults, sigSent, watchVars, main, cfg, bridgeVars, runVars,
                   certWatch, tls, lnVars, missed, failed, reloaded>>

-----------------------------------------------------------------------------
(* The configuration watch.                                                *)

(* A new stream replays ADDED lines, which are skipped.                    *)
Connect ==
    /\ stream = "down" /\ stream' = "up"
    /\ UNCHANGED <<envVars, wire, queue, main, cfg, bridgeVars, runVars, certVars, history>>

StreamLost ==
    /\ Fault /\ stream = "up" /\ stream' = "down"
    /\ wire' = <<>> /\ missed' = (missed \/ wire # <<>>)
    /\ UNCHANGED <<spec, cert, sigSent, queue, main, cfg, bridgeVars, runVars, certVars,
                   certMissed, failed, reloaded>>

(* Mutant of Deliver: channels without a capacity.                         *)
DeliverUnbounded ==
    /\ wire # <<>>
    /\ queue' = Append(queue, Head(wire)) /\ wire' = Tail(wire)
    /\ UNCHANGED <<envVars, stream, main, cfg, bridgeVars, runVars, certVars, history>>

(* A line reaches the event channel, the watcher or cfgCh, when one has    *)
(* room; streamOnce blocks otherwise.                                      *)
Deliver ==
    /\ wire # <<>> /\ Len(queue) < QueueCap
    /\ queue' = Append(queue, Head(wire)) /\ wire' = Tail(wire)
    /\ UNCHANGED <<envVars, stream, main, cfg, bridgeVars, runVars, certVars, history>>

-----------------------------------------------------------------------------
(* The bridge goroutine of one round of the loop.                          *)

BridgeTakes ==
    /\ bridge = "wait" /\ queue # <<>>
    /\ bridge' = "took" /\ newCfg' = Head(queue) /\ queue' = Tail(queue)
    /\ UNCHANGED <<envVars, stream, wire, main, cfg, reloadCh, cancelCh, runVars, certVars, history>>

(* Mutant of BridgeTakesCert: the zero cfg of the reload is taken too.     *)
BridgeTakesCertZero ==
    /\ bridge = "wait" /\ certCh /\ certCh' = FALSE
    /\ bridge' = "took" /\ newCfg' = 0
    /\ UNCHANGED <<envVars, watchVars, main, cfg, reloadCh, cancelCh, runVars,
                   certWatch, tls, lnVars, history>>

(* A new certificate: the configuration stays.                             *)
BridgeTakesCert ==
    /\ bridge = "wait" /\ certCh /\ certCh' = FALSE
    /\ bridge' = "took" /\ newCfg' = cfg
    /\ UNCHANGED <<envVars, watchVars, main, cfg, reloadCh, cancelCh, runVars,
                   certWatch, tls, lnVars, history>>

(* runtimeDone is closed.                                                  *)
BridgeEnds ==
    /\ bridge = "wait" /\ main = "select" /\ bridge' = "none"
    /\ UNCHANGED <<envVars, watchVars, main, cfg, newCfg, reloadCh, cancelCh, runVars,
                   certVars, history>>

(* Mutant of BridgeSends: cancelCh is closed before reloadCh is filled.    *)
BridgeSendsLate ==
    /\ \/ bridge = "took" /\ ~cancelCh /\ cancelCh' = TRUE /\ UNCHANGED <<bridge, reloadCh>>
       \/ bridge = "took" /\ cancelCh /\ reloadCh' = newCfg /\ bridge' = "sent" /\ UNCHANGED cancelCh
    /\ UNCHANGED <<envVars, watchVars, main, cfg, newCfg, runVars, certVars, history>>

BridgeSends ==
    /\ bridge = "took" /\ bridge' = "sent" /\ reloadCh' = newCfg
    /\ UNCHANGED <<envVars, watchVars, main, cfg, newCfg, cancelCh, runVars, certVars, history>>

BridgeCancels ==
    /\ bridge = "sent" /\ bridge' = "none" /\ cancelCh' = TRUE
    /\ UNCHANGED <<envVars, watchVars, main, cfg, newCfg, reloadCh, runVars, certVars, history>>

Bridge == BridgeTakes \/ BridgeTakesCert \/ BridgeEnds \/ BridgeSends \/ BridgeCancels

-----------------------------------------------------------------------------
(* runtime.Run.                                                            *)

(* The goroutine behind WithCancelChannel.                                 *)
CancelSeen ==
    /\ main \in {"boot", "run"} /\ cancelCh /\ ~done /\ done' = TRUE
    /\ UNCHANGED <<envVars, watchVars, main, cfg, bridgeVars, handler, sigCh, certVars, history>>

(* CancelOnSignal: register, then wait for a signal or for the context.    *)
Register ==
    /\ handler = "starting" /\ handler' = "on"
    /\ UNCHANGED <<envVars, watchVars, main, cfg, bridgeVars, done, sigCh, certVars, history>>

OnSignal ==
    /\ handler = "on" /\ sigCh
    /\ handler' = "stopped" /\ sigCh' = FALSE /\ done' = TRUE
    /\ UNCHANGED <<envVars, watchVars, main, cfg, bridgeVars, certVars, history>>

(* signal.Stop; a signal still in the channel is gone.                     *)
OnDone ==
    /\ handler = "on" /\ done
    /\ handler' = "stopped" /\ sigCh' = FALSE
    /\ UNCHANGED <<envVars, watchVars, main, cfg, bridgeVars, done, certVars, history>>

(* loadTLS: the current files, or nothing when they cannot be read.        *)
loadTLS ==
    \/ tls' = cert /\ certMissed' = FALSE /\ UNCHANGED faults
    \/ Fault /\ UNCHANGED <<tls, certMissed>>

(* MainLoop starts; the router loads its certificate and starts serveDoT,  *)
(* while the inotify watch on the files starts in a goroutine of its own.  *)
LoadTLS ==
    /\ main = "boot" /\ main' = "run"
    /\ loadTLS
    /\ dot' = IF HasCert THEN "starting" ELSE "off"
    /\ UNCHANGED <<spec, cert, sigSent, watchVars, cfg, bridgeVars, runVars, certWatch,
                   certCh, port, late, missed, failed, reloaded>>

(* Mutant of RetryTLS: serveDoT gives up when there is no certificate.     *)
RetryTLSNever ==
    /\ dot = "starting" /\ tls = 0 /\ dot' = "off"
    /\ UNCHANGED <<envVars, watchVars, main, cfg, bridgeVars, runVars, certWatch, certCh,
                   tls, port, late, history>>

(* The ticker of serveDoT's loop, as long as there is no certificate ...   *)
RetryTLS ==
    /\ dot = "starting" /\ tls = 0
    /\ loadTLS
    /\ UNCHANGED <<spec, cert, sigSent, watchVars, main, cfg, bridgeVars, runVars, certWatch,
                   certCh, lnVars, missed, failed, reloaded>>

(* ... which also ends with the round.                                     *)
RetryEnds ==
    /\ dot = "starting" /\ tls = 0 /\ done /\ dot' = "off"
    /\ UNCHANGED <<envVars, watchVars, main, cfg, bridgeVars, runVars, certWatch, certCh,
                   tls, port, late, history>>

CertWatchStarts ==
    /\ certWatch = "starting" /\ certWatch' = "on"
    /\ UNCHANGED <<envVars, watchVars, main, cfg, bridgeVars, runVars, certCh, tls, lnVars, history>>

(* inotify fails, or the directory is missing: the round has no watch.     *)
CertWatchFails ==
    /\ Fault /\ certWatch = "starting" /\ certWatch' = "off"
    /\ UNCHANGED <<spec, cert, sigSent, watchVars, main, cfg, bridgeVars, runVars, certCh,
                   tls, lnVars, history>>

(* tls.Listen, once: serveDoT returns when the port is taken.              *)
DotListens ==
    /\ dot = "starting" /\ tls # 0
    /\ dot' = IF port = "free" THEN "serving" ELSE "failed"
    /\ port' = IF port = "free" THEN "current" ELSE port
    /\ UNCHANGED <<envVars, watchVars, main, cfg, bridgeVars, runVars, certWatch, certCh,
                   tls, late, history>>

(* Nothing waits for serveDoT: one of an earlier round may listen later,   *)
(* and its listener is closed by a goroutine that waits for the context.   *)
(* One that has no certificate may end instead.                            *)
LateListens ==
    /\ late > 0 /\ late' = late - 1
    /\ port' \in {port, IF port = "free" THEN "stale" ELSE port}
    /\ UNCHANGED <<envVars, watchVars, main, cfg, bridgeVars, runVars, certWatch, certCh,
                   tls, dot, history>>

ListenerCloses ==
    /\ \/ port = "stale" /\ UNCHANGED dot
       \/ port = "current" /\ done /\ dot' = "off"
    /\ port' = "free"
    /\ UNCHANGED <<envVars, watchVars, main, cfg, bridgeVars, runVars, certWatch, certCh,
                   tls, late, history>>

(* The health or metrics server fails: Run is cancelled and returns nil.   *)
ServerFails ==
    /\ Fault /\ main \in {"boot", "run"} /\ ~done
    /\ done' = TRUE /\ failed' = TRUE
    /\ UNCHANGED <<spec, cert, sigSent, watchVars, main, cfg, bridgeVars, handler, sigCh,
                   certVars, missed, certMissed, reloaded>>

(* MainLoop has returned and wg.Wait is over; runtimeDone is closed and    *)
(* the certificate watch cancelled.                                        *)
RunReturns ==
    /\ main = "run" /\ done /\ handler = "stopped"
    /\ main' = "select" /\ handler' = "off" /\ certWatch' = "off"
    /\ UNCHANGED <<envVars, watchVars, cfg, bridgeVars, done, sigCh, certCh, tls, lnVars, history>>

-----------------------------------------------------------------------------
(* main.                                                                   *)

LoadConfig ==
    /\ main = "load" /\ main' = "start"
    /\ cfg' = spec /\ missed' = FALSE /\ stream' = "down"
    /\ UNCHANGED <<envVars, wire, queue, bridgeVars, runVars, certVars, certMissed, failed, reloaded>>

(* One round of the loop: new channels, a new bridge, a new Run.  What a   *)
(* bridge of the round before still closes is that round's cancelCh.       *)
StartRun ==
    /\ main = "start" /\ main' = "boot"
    /\ bridge' = "wait" /\ newCfg' = 0 /\ reloadCh' = None /\ cancelCh' = FALSE
    /\ done' = FALSE /\ handler' = "starting" /\ sigCh' = FALSE
    /\ certWatch' = (IF HasCert THEN "starting" ELSE "off") /\ certCh' = FALSE
    /\ dot' = "off" /\ port' = (IF port = "current" THEN "stale" ELSE port)
    /\ late' = IF dot = "starting" THEN late + 1 ELSE late
    /\ tls' = 0
    /\ UNCHANGED <<envVars, watchVars, cfg, history>>

Reloads ==
    /\ main = "select" /\ reloadCh # None
    /\ main' = "start" /\ cfg' = reloadCh /\ reloaded' = TRUE
    /\ UNCHANGED <<envVars, watchVars, bridgeVars, runVars, certVars, missed, certMissed, failed>>

(* The process is gone, its goroutines and channels with it.               *)
Exit ==
    /\ main' = "exited"
    /\ stream' = "off" /\ wire' = <<>> /\ queue' = <<>>
    /\ bridge' = "none" /\ newCfg' = 0 /\ reloadCh' = None /\ cancelCh' = FALSE
    /\ done' = FALSE /\ handler' = "off" /\ sigCh' = FALSE
    /\ certWatch' = "off" /\ certCh' = FALSE /\ tls' = 0
    /\ dot' = "off" /\ port' = "free" /\ late' = 0
    /\ missed' = FALSE /\ certMissed' = FALSE /\ reloaded' = FALSE
    /\ UNCHANGED <<cfg, spec, cert>>

Terminates ==
    /\ main = "select" /\ reloadCh = None
    /\ Exit
    /\ UNCHANGED <<faults, sigSent, failed>>

(* log.Fatal: the configuration cannot be read or MainLoop returns an error.*)
Fatal ==
    /\ Fault /\ main \in {"load", "boot", "run"}
    /\ Exit /\ failed' = TRUE
    /\ UNCHANGED sigSent

(* SIGTERM goes to the channel of CancelOnSignal while one is registered,  *)
(* and ends the process otherwise.                                         *)
Signal ==
    /\ ~sigSent /\ sigSent' = TRUE /\ main # "exited"
    /\ IF handler = "on"
       THEN /\ sigCh' = TRUE
            /\ UNCHANGED <<spec, cert, watchVars, main, cfg, bridgeVars, done, handler,
                           certVars, missed, certMissed, reloaded>>
       ELSE Exit
    /\ UNCHANGED <<faults, failed>>

(* Kubernetes starts the container again unless it is stopping the pod.    *)
Restart ==
    /\ main = "exited" /\ ~sigSent
    /\ main' = "load" /\ failed' = FALSE
    /\ UNCHANGED <<envVars, watchVars, cfg, bridgeVars, runVars, certVars, missed, certMissed, reloaded>>

Main == LoadConfig \/ StartRun \/ LoadTLS \/ RunReturns \/ Reloads \/ Terminates

Next ==
    \/ Edit \/ Replace \/ Rotate \/ Connect \/ StreamLost \/ Deliver
    \/ BridgeTakes \/ BridgeTakesCert \/ BridgeEnds \/ BridgeSends \/ BridgeCancels
    \/ CancelSeen \/ Register \/ OnSignal \/ OnDone \/ CertWatchStarts \/ CertWatchFails
    \/ ServerFails \/ RetryTLS \/ RetryEnds \/ DotListens \/ LateListens \/ ListenerCloses
    \/ LoadConfig \/ StartRun \/ LoadTLS \/ RunReturns \/ Reloads \/ Terminates
    \/ Fatal \/ Signal \/ Restart

Spec == Init /\ [][Next]_vars

(* Every goroutine runs and a container is started again; nothing is       *)
(* assumed of users, signals and failures.                                 *)
FairSpec ==
    /\ Spec
    /\ WF_vars(Connect) /\ WF_vars(Deliver) /\ WF_vars(Bridge) /\ WF_vars(CancelSeen)
    /\ WF_vars(Register) /\ WF_vars(OnSignal \/ OnDone) /\ WF_vars(CertWatchStarts)
    /\ WF_vars(RetryTLS) /\ WF_vars(DotListens) /\ WF_vars(LateListens) /\ WF_vars(ListenerCloses)
    /\ WF_vars(Main) /\ WF_vars(Restart)

-----------------------------------------------------------------------------
(* Properties.                                                             *)

(* A reload never ends the process: it exits only because of a signal or a *)
(* failure (the loop of main.go: reloadCh is filled before cancelCh is     *)
(* closed, so the select after Run finds it).                              *)
ExitsForCause == main = "exited" => sigSent \/ failed

(* Every change the watch could report is running in the end, however      *)
(* changes, certificates, failures and reloads overlap; only changes made  *)
(* while no stream was up, and re-created objects, are not followed        *)
(* (main.go skips ADDED).                                                  *)
FollowsConfig == <>[](main = "exited" \/ missed \/ cfg = spec)

(* The same for the router's certificate: a rotation is loaded in the end, *)
(* also when loading fails at first, unless it falls where no inotify      *)
(* watch is: between loading the files and adding it, or after that has    *)
(* failed (cert_watch_linux.go, router.go loadTLS).                        *)
FollowsCert == <>[](main = "exited" \/ certMissed \/ tls = cert)

(* A router that has a certificate serves DoT in the end, also when the    *)
(* certificate comes or becomes readable only later, when the watch fails  *)
(* and when failures restart the process (the loop of serveDoT).  Where it *)
(* does not, the process has reloaded: the listener of the round before    *)
(* can still hold the port, and serveDoT does not try again (dot.go        *)
(* serveDoT, runnable.go Run).                                             *)
DoTServed ==
    HasCert => <>[](\/ main = "exited" \/ cert = 0 \/ dot = "serving"
                    \/ dot = "failed" /\ reloaded)
=============================================================================
