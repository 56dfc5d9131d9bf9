-------------------------------- MODULE Router --------------------------------
(***************************************************************************)
(* One round of the router (internal/router): how a query travels through  *)
(* the connection cap, the rate limit, the lookup of the slaves, the race  *)
(* of forward between their answers and its timer, and back to the client. *)
(* A query is a member of Request, and so is what an answer is about.      *)
(* Time is counted down in ticks.                                          *)
(***************************************************************************)
EXTENDS Naturals, Sequences, FiniteSets

CONSTANTS Request,
          Mixes,          \* bound: the transports of the requests to look at
          Slave,
          Cap,            \* size of tcpSem, dotSem and dohSem
          Timeout,        \* forwardTimeout, also the deadline of a stream
          HTTPTimeout,    \* ReadTimeout and WriteTimeout of the DoH server
          LookupTime      \* bound: how long LookupHost may take

Conn == {"tcp", "dot", "doh"}      \* transports with a semaphore
Stream == {"tcp", "dot"}           \* those that outlive the end of the round

ASSUME RouterAssumption ==
    /\ Mixes \subseteq [Request -> Conn \cup {"udp"}] /\ IsFiniteSet(Request)
    /\ Cap \in Nat \ {0} /\ Timeout \in Nat \ {0}
    /\ HTTPTimeout \in Nat \ {0} /\ LookupTime \in Nat

VARIABLES
    Proto,                \* the transport of each request, never changed
    stopped,              \* the context is cancelled, listeners are closed
    sem,                  \* slots taken, for each transport in Conn
    st,                   \* where the handler of a request is
    raw,                  \* the query its buffer holds
    deadline,             \* time left until reads and writes of the connection fail
    looking, timer,       \* time left to LookupHost and to forward's timer
    worker, ch,           \* forwardTo goroutines and the channel they fill
    resp,                 \* what the response a forwardTo has read is about
    late,                 \* slaves whose answer is on its way to a closed UDP socket
    reply,                \* what the client has got
    held                  \* history: ticks the slot has been held

wire == <<resp, late>>
vars == <<Proto, stopped, sem, st, raw, deadline, looking, timer, worker, ch, reply, held, wire>>

Replies == [kind : {"none", "lost", "slip", "refused", "servfail", "answer"},
            about : Request]

ReadLimit(q) == IF Proto[q] = "doh" THEN HTTPTimeout ELSE Timeout

TypeOK ==
    /\ Proto \in Mixes /\ stopped \in BOOLEAN /\ sem \in [Conn -> 0..Cap]
    /\ st \in [Request -> {"idle", "reading", "lookup", "race", "done"}]
    /\ raw \in [Request -> Request]
    /\ deadline \in [Request -> Nat] /\ looking \in [Request -> 0..LookupTime]
    /\ timer \in [Request -> 0..Timeout]
    /\ worker \in [Request -> [Slave -> {"off", "run", "send", "ended"}]]
    /\ ch \in [Request -> Seq(Request)]
    /\ resp \in [Request -> [Slave -> Request]] /\ late \in [Request -> SUBSET Slave]
    /\ reply \in [Request -> Replies] /\ held \in [Request -> Nat]

Init ==
    /\ Proto \in Mixes /\ stopped = FALSE /\ sem = [p \in Conn |-> 0]
    /\ st = [q \in Request |-> "idle"] /\ raw = [q \in Request |-> q]
    /\ deadline = [q \in Request |-> 0] /\ looking = [q \in Request |-> 0]
    /\ timer = [q \in Request |-> 0]
    /\ worker = [q \in Request |-> [s \in Slave |-> "off"]]
    /\ ch = [q \in Request |-> <<>>]
    /\ resp = [q \in Request |-> [s \in Slave |-> q]] /\ late = [q \in Request |-> {}]
    /\ reply = [q \in Request |-> [kind |-> "none", about |-> q]] /\ held = [q \in Request |-> 0]

Acquired(q) == [sem EXCEPT ![Proto[q]] = @ + 1]
Released(q) == IF Proto[q] \in Conn THEN [sem EXCEPT ![Proto[q]] = @ - 1] ELSE sem

(* A write reaches the client before the deadline of its connection, which *)
(* is the WriteTimeout for DoH, and while the UDP socket and the HTTP      *)
(* server are open.                                                        *)
Expired(q) == Proto[q] \in Conn /\ deadline[q] = 0
Closed(q) == Proto[q] \notin Stream /\ stopped

Delivered(q, kind) == IF Expired(q) \/ Closed(q) THEN "lost" ELSE kind

(* The handler writes a reply and returns, which frees its slot; its       *)
(* connection and its timer are gone.                                      *)
Finish(q, kind, about) ==
    /\ deadline' = [deadline EXCEPT ![q] = 0] /\ timer' = [timer EXCEPT ![q] = 0]
    /\ looking' = [looking EXCEPT ![q] = 0]
    /\ ch' = [ch EXCEPT ![q] = <<>>] /\ held' = [held EXCEPT ![q] = 0]
    /\ st' = [st EXCEPT ![q] = "done"] /\ sem' = Released(q)
    /\ reply' = [reply EXCEPT ![q] = [kind |-> kind, about |-> about]]

-----------------------------------------------------------------------------
(* Arrival.                                                                *)

(* Mutant of ReadUDP: the goroutines share the buffer of the read loop.    *)
ReadUDPShared(q) ==
    /\ st[q] = "idle" /\ Proto[q] = "udp" /\ ~stopped
    /\ raw' = [o \in Request |-> IF Proto[o] = "udp" THEN q ELSE raw[o]]
    /\ \/ /\ st' = [st EXCEPT ![q] = "done"]
          /\ UNCHANGED <<reply, looking, wire>>
       \/ /\ st' = [st EXCEPT ![q] = "lookup"]
          /\ looking' = [looking EXCEPT ![q] = LookupTime]
          /\ UNCHANGED reply
    /\ UNCHANGED <<Proto, stopped, sem, deadline, timer, worker, ch, held, wire>>

(* The read loop of serveUDP: a malformed or limited query is dropped or   *)
(* answered with TC, a refused one answered, any other forwarded by a      *)
(* goroutine that owns a copy of the packet.                               *)
ReadUDP(q) ==
    /\ st[q] = "idle" /\ Proto[q] = "udp" /\ ~stopped
    /\ raw' = [raw EXCEPT ![q] = q]
    /\ \/ \E kind \in {"none", "slip", "refused"} :
             /\ st' = [st EXCEPT ![q] = "done"]
             /\ reply' = [reply EXCEPT ![q].kind = kind]
             /\ UNCHANGED looking
       \/ /\ st' = [st EXCEPT ![q] = "lookup"]
          /\ looking' = [looking EXCEPT ![q] = LookupTime]
          /\ UNCHANGED reply
    /\ UNCHANGED <<Proto, stopped, sem, deadline, timer, worker, ch, held, wire>>

(* A connection is accepted but the semaphore is full: closed, or a 503    *)
(* (errors of HTTP are no DNS replies).                                    *)
OverCap(q) ==
    /\ st[q] = "idle" /\ Proto[q] \in Conn /\ ~stopped
    /\ sem[Proto[q]] = Cap
    /\ st' = [st EXCEPT ![q] = "done"]
    /\ UNCHANGED <<Proto, stopped, sem, raw, deadline, looking, timer, worker, ch, reply, held, wire>>

(* Mutant of Admit: the cap is checked before the slot is taken, by a      *)
(* comparison that lets one more in.                                       *)
AdmitOneMore(q) ==
    /\ st[q] = "idle" /\ Proto[q] \in Conn /\ ~stopped
    /\ sem[Proto[q]] <= Cap /\ sem' = Acquired(q)
    /\ st' = [st EXCEPT ![q] = "reading"]
    /\ deadline' = [deadline EXCEPT ![q] = ReadLimit(q)]
    /\ UNCHANGED <<Proto, stopped, raw, looking, timer, worker, ch, reply, held, wire>>

(* Mutant of Admit: half of the timeout.                                   *)
AdmitHalf(q) ==
    /\ st[q] = "idle" /\ Proto[q] \in Conn /\ ~stopped
    /\ sem[Proto[q]] < Cap /\ sem' = Acquired(q)
    /\ st' = [st EXCEPT ![q] = "reading"]
    /\ deadline' = [deadline EXCEPT ![q] = ReadLimit(q) \div 2]
    /\ UNCHANGED <<Proto, stopped, raw, looking, timer, worker, ch, reply, held, wire>>

Admit(q) ==
    /\ st[q] = "idle" /\ Proto[q] \in Conn /\ ~stopped
    /\ sem[Proto[q]] < Cap /\ sem' = Acquired(q)
    /\ st' = [st EXCEPT ![q] = "reading"]
    /\ deadline' = [deadline EXCEPT ![q] = ReadLimit(q)]
    /\ UNCHANGED <<Proto, stopped, raw, looking, timer, worker, ch, reply, held, wire>>

(* Mutant of Limited: the slot is not given back.                          *)
LimitedLeaks(q) ==
    /\ st[q] = "reading" /\ st' = [st EXCEPT ![q] = "done"]
    /\ deadline' = [deadline EXCEPT ![q] = 0] /\ held' = [held EXCEPT ![q] = 0]
    /\ UNCHANGED <<Proto, stopped, sem, raw, looking, timer, worker, ch, reply, wire>>

(* Over the rate limit, which is asked while the slot is held.             *)
Limited(q) ==
    /\ st[q] = "reading" /\ Finish(q, "none", q)
    /\ UNCHANGED <<Proto, stopped, raw, worker, wire>>

(* The message does not come in time, or is malformed.                     *)
ReadFails(q) ==
    /\ st[q] = "reading" /\ Finish(q, "none", q)
    /\ UNCHANGED <<Proto, stopped, raw, worker, wire>>

(* checkReject: not a query, or a zone transfer.                           *)
Reject(q) ==
    /\ st[q] = "reading" /\ deadline[q] > 0 /\ Finish(q, Delivered(q, "refused"), q)
    /\ UNCHANGED <<Proto, stopped, raw, worker, wire>>

Read(q) ==
    /\ st[q] = "reading" /\ deadline[q] > 0
    /\ st' = [st EXCEPT ![q] = "lookup"]
    /\ raw' = [raw EXCEPT ![q] = q] /\ looking' = [looking EXCEPT ![q] = LookupTime]
    /\ UNCHANGED <<Proto, stopped, sem, deadline, timer, worker, ch, reply, held, wire>>

-----------------------------------------------------------------------------
(* forward.                                                                *)

(* LookupHost fails, finds nobody or is cancelled.                         *)
LookupFails(q) ==
    /\ st[q] = "lookup" /\ Finish(q, Delivered(q, "servfail"), q)
    /\ UNCHANGED <<Proto, stopped, raw, worker, wire>>

(* Mutant of Race: the time to dial and the time to read add up.           *)
RaceSlow(q) ==
    /\ st[q] = "lookup" /\ st' = [st EXCEPT ![q] = "race"]
    /\ \E addrs \in (SUBSET Slave) \ {{}} :
          worker' = [worker EXCEPT ![q] =
                        [s \in Slave |-> IF s \in addrs THEN "run" ELSE "off"]]
    /\ timer' = [timer EXCEPT ![q] = 2 * Timeout]
    /\ UNCHANGED <<Proto, stopped, sem, raw, deadline, looking, ch, reply, held, wire>>

(* One goroutine for each address, then the timer.                         *)
Race(q) ==
    /\ st[q] = "lookup" /\ st' = [st EXCEPT ![q] = "race"]
    /\ \E addrs \in (SUBSET Slave) \ {{}} :
          worker' = [worker EXCEPT ![q] =
                        [s \in Slave |-> IF s \in addrs THEN "run" ELSE "off"]]
    /\ timer' = [timer EXCEPT ![q] = Timeout]
    /\ UNCHANGED <<Proto, stopped, sem, raw, deadline, looking, ch, reply, held, wire>>

TakeAnswer(q) ==
    /\ st[q] = "race" /\ ch[q] # <<>>
    /\ Finish(q, Delivered(q, "answer"), Head(ch[q]))
    /\ UNCHANGED <<Proto, stopped, raw, worker, wire>>

(* Mutant of TimesOut: forward waits for an answer only.                   *)
TimesOutNever(q) ==
    /\ st[q] = "race" /\ stopped /\ Finish(q, Delivered(q, "servfail"), q)
    /\ UNCHANGED <<Proto, stopped, raw, worker, wire>>

(* The timer fires or the context is cancelled.                            *)
TimesOut(q) ==
    /\ st[q] = "race" /\ (timer[q] = 0 \/ stopped)
    /\ Finish(q, Delivered(q, "servfail"), q)
    /\ UNCHANGED <<Proto, stopped, raw, worker, wire>>

(* What a forwardTo that waits for slave s can read: the answer to the     *)
(* query it has sent and, on a UDP socket, which may have got the port of  *)
(* a closed one, a late answer of s to another query.                      *)
Readable(q, s) ==
    {raw[q]} \cup (IF Proto[q] = "udp" THEN {o \in Request : s \in late[o]} ELSE {})

(* The answer that a closed UDP socket has not read is still on its way.   *)
LeaveBehind(q, s) ==
    late' = IF Proto[q] = "udp" THEN [late EXCEPT ![raw[q]] = @ \cup {s}] ELSE late

(* forwardTo returns whatever it has read first, whatever its DNS ID ...   *)
WorkerReceives(q, s) ==
    /\ worker[q][s] = "run" /\ worker' = [worker EXCEPT ![q][s] = "send"]
    /\ \E o \in Readable(q, s) :
          /\ resp' = [resp EXCEPT ![q][s] = o]
          /\ IF o = raw[q] THEN UNCHANGED late ELSE LeaveBehind(q, s)
    /\ UNCHANGED <<Proto, stopped, sem, st, raw, deadline, looking, timer, ch, reply, held>>

(* ... or an error, such as a timeout of its own.                          *)
WorkerFails(q, s) ==
    /\ worker[q][s] = "run" /\ worker' = [worker EXCEPT ![q][s] = "ended"]
    /\ LeaveBehind(q, s)
    /\ UNCHANGED <<Proto, stopped, sem, st, raw, deadline, looking, timer, ch, reply, held, resp>>

(* Mutant of WorkerSends: an unbuffered channel without a default.         *)
WorkerSendsBlocking(q, s) ==
    /\ worker[q][s] = "send" /\ st[q] = "race"
    /\ worker' = [worker EXCEPT ![q][s] = "ended"]
    /\ ch' = [ch EXCEPT ![q] = Append(@, resp[q][s])]
    /\ UNCHANGED <<Proto, stopped, sem, st, raw, deadline, looking, timer, reply, held, wire>>

(* The channel has a place for every address, so that a worker never       *)
(* waits; after forward has returned nobody reads the channel.             *)
WorkerSends(q, s) ==
    /\ worker[q][s] = "send" /\ worker' = [worker EXCEPT ![q][s] = "ended"]
    /\ ch' = IF st[q] = "race" THEN [ch EXCEPT ![q] = Append(@, resp[q][s])] ELSE ch
    /\ resp' = [resp EXCEPT ![q][s] = q]
    /\ UNCHANGED <<Proto, stopped, sem, st, raw, deadline, looking, timer, reply, held, late>>

-----------------------------------------------------------------------------
(* A reload or a signal ends the round; open connections stay.             *)
Stop ==
    /\ ~stopped /\ stopped' = TRUE
    /\ UNCHANGED <<Proto, sem, st, raw, deadline, looking, timer, worker, ch, reply, held, wire>>

Holding(q) == Proto[q] \in Conn /\ st[q] \in {"reading", "lookup", "race"}

(* Time waits for a handler whose wait is over.                            *)
Due(q) ==
    \/ st[q] = "reading" /\ deadline[q] = 0
    \/ st[q] = "lookup" /\ (looking[q] = 0 \/ stopped)
    \/ st[q] = "race" /\ (timer[q] = 0 \/ ch[q] # <<>> \/ stopped)

CountDown(f) == [q \in Request |-> IF f[q] > 0 THEN f[q] - 1 ELSE 0]

Tick ==
    /\ \A q \in Request : ~Due(q)
    /\ \E q \in Request : st[q] \in {"reading", "lookup", "race"}
    /\ deadline' = CountDown(deadline) /\ looking' = CountDown(looking)
    /\ timer' = [q \in Request |-> IF st[q] = "race" THEN timer[q] - 1 ELSE timer[q]]
    /\ held' = [q \in Request |-> IF Holding(q) THEN held[q] + 1 ELSE held[q]]
    /\ UNCHANGED <<Proto, stopped, sem, st, raw, worker, ch, reply, wire>>

Handle(q) ==
    \/ ReadFails(q) \/ Reject(q) \/ Read(q)
    \/ LookupFails(q) \/ Race(q) \/ TakeAnswer(q) \/ TimesOut(q)

Next ==
    \/ \E q \in Request :
          \/ ReadUDP(q) \/ OverCap(q) \/ Admit(q)
          \/ Limited(q) \/ ReadFails(q) \/ Reject(q) \/ Read(q)
          \/ LookupFails(q) \/ Race(q) \/ TakeAnswer(q) \/ TimesOut(q)
          \/ \E s \in Slave : WorkerReceives(q, s) \/ WorkerFails(q, s) \/ WorkerSends(q, s)
    \/ Stop \/ Tick

Spec == Init /\ [][Next]_vars

(* Time passes, handlers whose wait is over and forwardTo goroutines run.  *)
FairSpec ==
    /\ Spec /\ WF_vars(Tick)
    /\ \A q \in Request :
          /\ WF_vars(Due(q) /\ Handle(q))
          /\ \A s \in Slave :
                /\ WF_vars(WorkerReceives(q, s) \/ WorkerFails(q, s))
                /\ WF_vars(WorkerSends(q, s))

-----------------------------------------------------------------------------
(* Properties.                                                             *)

(* A late answer of some slave to another UDP query can have reached q.    *)
Strayed(q, o) ==
    Proto[q] = "udp" /\ Proto[o] = "udp" /\ late[o] # {}

(* A client gets the answer to its own query, whatever other queries the   *)
(* read loop has taken since (serveUDP copies the packet), whichever slave *)
(* is first and however late the others are.  The one exception is the     *)
(* missing check of the ID in forwardTo: over UDP, never over TCP, DoT or  *)
(* DoH, it can be the late answer to a UDP query whose own forwardTo has   *)
(* given up on that slave (forward.go).                                    *)
AnswersOwn ==
    \A q \in Request : reply[q].kind = "answer" =>
        reply[q].about = q \/ Strayed(q, reply[q].about)

(* Every way out of a handler gives its slot back, once (the deferred      *)
(* receives of tcp.go, dot.go and doh.go).                                 *)
SlotsBalanced ==
    \A p \in Conn : sem[p] = Cardinality({q \in Request : Proto[q] = p /\ Holding(q)})

(* A slot is held for two timeouts and a lookup at most: reading and the   *)
(* race are bounded, whatever clients and slaves do.                       *)
HeldBriefly == \A q \in Request : held[q] <= ReadLimit(q) + LookupTime + Timeout

(* An answer that is written is lost only when its connection has been     *)
(* held for the full timeout (the deadline set when it was accepted, or    *)
(* the HTTP server's write timeout), or when the round has ended and took  *)
(* the UDP socket or the HTTP server with it.                              *)
LostOnlyLate ==
    [][\A q \in Request : reply'[q].kind = "lost" /\ reply[q].kind # "lost" =>
          \/ Proto[q] \in Conn /\ held[q] >= ReadLimit(q)
          \/ Closed(q)]_vars

(* Every handler ends, also when every slave fails.                        *)
HandlersEnd == <>[](\A q \in Request : st[q] \in {"idle", "done"})

(* Every goroutine of forward ends, also when nobody reads its channel any *)
(* more.                                                                   *)
WorkersEnd == <>[](\A q \in Request, s \in Slave : worker[q][s] \in {"off", "ended"})
=============================================================================
