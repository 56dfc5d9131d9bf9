-------------------------------- MODULE Gateway --------------------------------
(***************************************************************************)
(* The RFC 2136 gateway (internal/rfc2136): DNS UPDATE messages become     *)
(* DNSRecord objects.  Every message has a goroutine of its own that       *)
(* parses it, checks its TSIG and turns its updates, one by one, into API  *)
(* calls; each call may fail, before or after the API server has acted on  *)
(* it.  A domain name is a sequence of characters, because what CRName     *)
(* makes of it matters; rdata, keys and types are opaque.                  *)
(***************************************************************************)
EXTENDS Naturals, Sequences, SequencesExt, FiniteSets

CONSTANTS
    Msg,                  \* the messages clients may send, a function
    Zone,                 \* cfg.Global.Zone
    Lower,                \* ToLower on characters: the upper case ones it changes
    KnownTypes,           \* keys of RRtypeFromWire
    Parsable(_, _),       \* rdata that ParseRdata decodes, for a type
    Keys,                 \* the keys the Secret holds over time
    Manual,               \* objects of other sources, which lack the label
    Slots,                \* bound: messages in flight
    MaxName,              \* maxCRNameLen, less the fixed parts of a name
    DefaultFudge,         \* tsigFudgeDefault
    MaxTime               \* bound of the clock

VARIABLES
    phase,                \* where MainLoop and the process are
    tsigKey,              \* the key loaded at startup
    objs,                 \* DNSRecord objects in the cluster
    now,                  \* the clock, in the unit of fudge
    hd,                   \* the goroutines of processMessage
    owed                  \* history: what the acknowledged updates promise

vars == <<phase, tsigKey, objs, now, hd, owed>>

-----------------------------------------------------------------------------
(* Names.                                                                  *)

Fold(s) == [i \in DOMAIN s |-> IF s[i] \in DOMAIN Lower THEN Lower[s[i]] ELSE s[i]]

TrimDot(s) == IF s # <<>> /\ Last(s) = "." THEN Front(s) ELSE s

TrimLeft(s) ==
    LET kept == {i \in DOMAIN s : s[i] # "-"}
    IN IF kept = {} THEN <<>>
       ELSE SubSeq(s, CHOOSE i \in kept : \A j \in kept : i <= j, Len(s))

sanitizeFQDN(fqdn) ==
    LET s == TrimDot(Fold(fqdn))
    IN TrimLeft([i \in DOMAIN s |-> IF s[i] \in {".", "_"} THEN "-" ELSE s[i]])

(* The hash in the name is eight hex digits of the rdata's SHA-256, taken  *)
(* to tell the rdata of an instance apart.                                 *)
CRName(rrtype, fqdn, rdata) == <<rrtype, sanitizeFQDN(fqdn), rdata>>
Overflows(cr) == Len(cr[2]) > MaxName

(* The API server accepts only DNS-1123 names, so no wildcard owner.       *)
ValidName(cr) == \A i \in DOMAIN cr[2] : cr[2][i] # "*"

matchesZone(name) == Fold(TrimDot(name)) = Fold(TrimDot(Zone))

-----------------------------------------------------------------------------
(* Messages.  m.parses is FALSE for bytes that are cut off or have a bad   *)
(* name.  ParseMessage takes for the TSIG a TSIG that is the last          *)
(* additional record, and the first zone entry for the zone.               *)

HasTSIG(m) == m.additional # <<>> /\ Last(m.additional).type = "TSIG"
TSIG(m) == Last(m.additional)

(* What the MAC covers: the message without its TSIG, and the variables of *)
(* the TSIG, with the fudge as it was sent.                                *)
Covered(m, t) ==
    <<m.opcode, m.zones, m.prerequisites, m.updates, Front(m.additional),
      t.alg, t.time, t.fudge>>

computeMAC(key, m, t) == [key |-> key, over |-> Covered(m, t)]

Window(t) == IF t.fudge = 0 THEN DefaultFudge ELSE t.fudge

(* Mutant of ValidateTSIG: a message that is too old is let in.            *)
ValidateTSIGAnyAge(m, key) ==
    /\ HasTSIG(m)
    /\ LET t == TSIG(m)
       IN /\ t.rdataParses /\ t.alg = "hmac-sha256."
          /\ ~(t.time > now /\ t.time - now > Window(t))
          /\ t.mac = computeMAC(key, m, t)

(* Mutant of ValidateTSIG: a message from the future is let in.            *)
ValidateTSIGNoFuture(m, key) ==
    /\ HasTSIG(m)
    /\ LET t == TSIG(m)
       IN /\ t.rdataParses /\ t.alg = "hmac-sha256."
          /\ now <= t.time + Window(t)
          /\ t.mac = computeMAC(key, m, t)

ValidateTSIG(m, key) ==
    /\ HasTSIG(m)
    /\ LET t == TSIG(m)
       IN /\ t.rdataParses /\ t.alg = "hmac-sha256."
          /\ now <= t.time + Window(t)
          /\ ~(t.time > now /\ t.time - now > Window(t))
          /\ t.mac = computeMAC(key, m, t)

(* What processUpdate does with an update.                                 *)
Kind(u) ==
    IF u.class = "ANY" /\ u.ttl = 0 /\ u.type = "ANY" /\ u.rdata = <<>> THEN "deleteAllAtName"
    ELSE IF u.type \notin KnownTypes THEN "skip"
    ELSE IF u.class = "IN" THEN "addRR"
    ELSE IF u.class = "ANY" /\ u.ttl = 0 /\ u.rdata = <<>> THEN "deleteRRset"
    ELSE IF u.class = "NONE" /\ u.ttl = 0 THEN "deleteRR"
    ELSE "skip"

(* The records the messages are about: owners compare without case.        *)
Updates == UNION {Range(Msg[i].updates) : i \in DOMAIN Msg}
RecordOf(u) == [name |-> Fold(u.name), type |-> u.type, rdata |-> u.rdata]
Record == {RecordOf(u) : u \in {v \in Updates : Kind(v) \in {"addRR", "deleteRR"}}}

(* Times and fudges are unsigned fields of the message.  Objects of other  *)
(* sources have names without the prefix of CRName.                        *)
ASSUME GatewayAssumption ==
    /\ DefaultFudge \in Nat \ {0} /\ MaxTime \in Nat /\ MaxName \in Nat
    /\ \A i \in DOMAIN Msg :
          /\ Msg[i].updates \in Seq(Updates)
          /\ HasTSIG(Msg[i]) => TSIG(Msg[i]).time \in Nat /\ TSIG(Msg[i]).fudge \in Nat
    /\ \A o \in Manual :
          /\ o.labelled = FALSE /\ \A p \in Manual : p.cr = o.cr => p = o
          /\ \A u \in Updates : o.cr # CRName(u.type, u.name, u.rdata)

(* The effect RFC 2136 gives an update on a record.                        *)
Adds(u, r) == Kind(u) = "addRR" /\ RecordOf(u) = r
Deletes(u, r) ==
    \/ Kind(u) = "deleteRR" /\ RecordOf(u) = r
    \/ Kind(u) = "deleteRRset" /\ Fold(u.name) = r.name /\ u.type = r.type
    \/ Kind(u) = "deleteAllAtName" /\ Fold(u.name) = r.name

(* The updates of a message that add a record and those that delete it,    *)
(* the effects it has, and the one that lasts.                             *)
Adding == [i \in DOMAIN Msg |-> [r \in Record |->
              {j \in DOMAIN Msg[i].updates : Adds(Msg[i].updates[j], r)}]]
Deleting == [i \in DOMAIN Msg |-> [r \in Record |->
                {j \in DOMAIN Msg[i].updates : Deletes(Msg[i].updates[j], r)}]]
Effects == [i \in DOMAIN Msg |-> [r \in Record |->
    (IF Adding[i][r] # {} THEN {"in"} ELSE {}) \cup (IF Deleting[i][r] # {} THEN {"out"} ELSE {})]]
Says(i, r) == Effects[i][r]
Outcome == [i \in DOMAIN Msg |-> [r \in Record |->
    IF \E j \in Adding[i][r] : \A k \in Deleting[i][r] : k < j THEN "in" ELSE "out"]]

(* Two messages disagree on a record one adds and the other deletes.       *)
Disputed == [i \in DOMAIN Msg |-> [k \in DOMAIN Msg |->
    {r \in Record : /\ Says(i, r) # {} /\ Says(k, r) # {}
                    /\ Says(i, r) \cup Says(k, r) = {"in", "out"}}]]

Goroutine(pc, id, rcode, tsig) ==
    [pc |-> pc, id |-> id, i |-> 1, todo |-> {}, rcode |-> rcode, tsig |-> tsig, clash |-> {}]
Idle == Goroutine("idle", 0, "none", "none")

NoKey == "none"

CRNames == {CRName(u.type, u.name, u.rdata) : u \in Updates} \cup {o.cr : o \in Manual}

Handler ==
    [pc : {"idle", "reading", "process", "update", "delete", "reply"},
     id : DOMAIN Msg \cup {0}, i : Nat \ {0}, todo : SUBSET CRNames,
     rcode : {"none", "NOERROR", "SERVFAIL", "NOTIMP", "REFUSED", "NOTZONE"},
     tsig : {"none", "error", "signed"}, clash : SUBSET Record]

TypeOK ==
    /\ phase \in {"starting", "listening", "serving", "stopping", "exited"}
    /\ tsigKey \in Keys \cup {NoKey} /\ now \in 0..MaxTime
    /\ \A o \in objs : o.cr \in CRNames /\ \A p \in objs : p.cr = o.cr => p = o
    /\ hd \in [Slots -> Handler]
    /\ owed \in [Record -> {"in", "out", "any"}]

Init ==
    /\ phase = "starting" /\ tsigKey = NoKey
    /\ objs = Manual /\ now = 0
    /\ hd = [h \in Slots |-> Idle] /\ owed = [r \in Record |-> "any"]

-----------------------------------------------------------------------------
(* MainLoop.                                                               *)

(* The key is the one the Secret holds now.  Without a Secret, a field     *)
(* tsigKey in it and base64 in that, MainLoop returns an error and the     *)
(* process ends.                                                           *)
loadTSIGKey ==
    /\ phase = "starting"
    /\ \/ tsigKey' \in Keys /\ phase' = "listening"
       \/ phase' = "exited" /\ UNCHANGED tsigKey
    /\ UNCHANGED <<objs, now, hd, owed>>

Listen ==
    /\ phase = "listening" /\ phase' \in {"serving", "exited"}
    /\ UNCHANGED <<tsigKey, objs, now, hd, owed>>

(* The context is cancelled or a listener fails: MainLoop returns without  *)
(* waiting for the goroutines it has started.                              *)
Stop ==
    /\ phase = "serving" /\ phase' = "stopping"
    /\ UNCHANGED <<tsigKey, objs, now, hd, owed>>

(* The process ends and takes the goroutines with it, wherever they are.   *)
Exit ==
    /\ phase = "stopping" /\ phase' = "exited"
    /\ hd' = [h \in Slots |-> Idle]
    /\ UNCHANGED <<tsigKey, objs, now, owed>>

Restart ==
    /\ phase = "exited" /\ phase' = "starting" /\ tsigKey' = NoKey
    /\ UNCHANGED <<objs, now, hd, owed>>

Tick ==
    /\ now < MaxTime /\ now' = now + 1
    /\ UNCHANGED <<phase, tsigKey, objs, hd, owed>>

-----------------------------------------------------------------------------
(* Listeners.  A datagram may come late and more than once.                *)

Alive == phase \in {"serving", "stopping"}

serveUDP(h, id) ==
    /\ phase = "serving" /\ hd[h].pc = "idle"
    /\ hd' = [hd EXCEPT ![h] = Goroutine("process", id, "none", "none")]
    /\ UNCHANGED <<phase, tsigKey, objs, now, owed>>

serveTCP(h) ==
    /\ phase = "serving" /\ hd[h].pc = "idle"
    /\ hd' = [hd EXCEPT ![h].pc = "reading"]
    /\ UNCHANGED <<phase, tsigKey, objs, now, owed>>

(* A connection that ends early, sends length zero or runs into its        *)
(* deadline is closed without an answer.                                   *)
handleTCP(h) ==
    /\ Alive /\ hd[h].pc = "reading"
    /\ \/ \E id \in DOMAIN Msg :
             hd' = [hd EXCEPT ![h].pc = "process", ![h].id = id]
       \/ hd' = [hd EXCEPT ![h] = Idle]
    /\ UNCHANGED <<phase, tsigKey, objs, now, owed>>

-----------------------------------------------------------------------------
(* processMessage and HandleUpdate.                                        *)

(* Mutant of Rejection: another rcode for what cannot be parsed.           *)
RejectionFormErr(m) ==
    IF ~m.parses THEN "FORMERR"
    ELSE IF m.opcode # "UPDATE" THEN "NOTIMP"
    ELSE IF ~ValidateTSIG(m, tsigKey) THEN "REFUSED"
    ELSE IF m.prerequisites # <<>> THEN "NOTIMP"
    ELSE IF m.zones # <<>> /\ ~matchesZone(Head(m.zones)) THEN "NOTZONE"
    ELSE "none"

Rejection(m) ==
    IF ~m.parses THEN "SERVFAIL"
    ELSE IF m.opcode # "UPDATE" THEN "NOTIMP"
    ELSE IF ~ValidateTSIG(m, tsigKey) THEN "REFUSED"
    ELSE IF m.prerequisites # <<>> THEN "NOTIMP"
    ELSE IF m.zones # <<>> /\ ~matchesZone(Head(m.zones)) THEN "NOTZONE"
    ELSE "none"

(* What processMessage hands to the listener: an answer, signed once the   *)
(* TSIG is known to be good, with an error TSIG when it is bad.            *)
Answer(h, rcode, tsig) ==
    hd' = [hd EXCEPT ![h] = Goroutine("reply", 0, rcode, tsig)]

Reject(h) ==
    LET m == Msg[hd[h].id]
        why == Rejection(m)
    IN
    /\ Alive /\ hd[h].pc = "process" /\ why # "none"
    /\ Answer(h, why, CASE why = "REFUSED" /\ HasTSIG(m) -> "error"
                        [] why = "NOTZONE" \/ (why = "NOTIMP" /\ m.opcode = "UPDATE") -> "signed"
                        [] OTHER -> "none")
    /\ UNCHANGED <<phase, tsigKey, objs, now, owed>>

(* The handlers that make API calls.                                       *)
Busy == {h \in Slots : hd[h].pc \in {"update", "delete"}}

(* An admitted message is at odds with the others in flight it disagrees   *)
(* with, and reopens what was owed of the records it changes.              *)
Admit(h) ==
    LET id == hd[h].id
        odds == [g \in Busy |-> Disputed[id][hd[g].id]]
    IN
    /\ Alive /\ hd[h].pc = "process" /\ Rejection(Msg[id]) = "none"
    /\ hd' = [g \in Slots |->
          IF g = h THEN [hd[h] EXCEPT !.pc = "update", !.clash = UNION Range(odds)]
          ELSE IF g \in Busy THEN [hd[g] EXCEPT !.clash = @ \cup odds[g]] ELSE hd[g]]
    /\ owed' = [r \in Record |-> IF Says(id, r) \subseteq {owed[r]} THEN owed[r] ELSE "any"]
    /\ UNCHANGED <<phase, tsigKey, objs, now>>

(* HandleUpdate returns SERVFAIL at the first error, and the calls made    *)
(* before it stay made.                                                    *)
Update(h) == Msg[hd[h].id].updates[hd[h].i]
At(h, kind) ==
    /\ Alive /\ hd[h].pc = "update" /\ hd[h].i <= Len(Msg[hd[h].id].updates)
    /\ Kind(Update(h)) = kind
Proceed(h) == hd' = [hd EXCEPT ![h].pc = "update", ![h].i = @ + 1, ![h].todo = {}]
Fail(h) == Answer(h, "SERVFAIL", "signed")

(* A call that changes the cluster to after.  It may fail undone, and it   *)
(* may be done while the gateway sees an error: a timeout, a lost answer.  *)
Call(h, after, then) ==
    \/ objs' = after /\ then
    \/ objs' \in {objs, after} /\ Fail(h)

Without(cr) == {o \in objs : o.cr # cr}

(* ApplyOrUpdate: create the object or replace the one of that name.       *)
ObjectOf(u) == [cr |-> CRName(u.type, u.name, u.rdata), labelled |-> TRUE,
                name |-> u.name, type |-> u.type, rdata |-> u.rdata]

addRR(h) ==
    LET u == Update(h)
        cr == CRName(u.type, u.name, u.rdata)
    IN
    /\ At(h, "addRR")
    /\ IF Overflows(cr) \/ ~Parsable(u.type, u.rdata) \/ ~ValidName(cr)
       THEN Fail(h) /\ UNCHANGED objs
       ELSE Call(h, Without(cr) \cup {ObjectOf(u)}, Proceed(h))
    /\ UNCHANGED <<phase, tsigKey, now, owed>>

deleteRR(h) ==
    LET u == Update(h)
        cr == CRName(u.type, u.name, u.rdata)
    IN
    /\ At(h, "deleteRR")
    /\ IF Overflows(cr) THEN Fail(h) /\ UNCHANGED objs
       ELSE Call(h, Without(cr), Proceed(h))
    /\ UNCHANGED <<phase, tsigKey, now, owed>>

(* Both deletions of several records list the labelled objects first and   *)
(* then delete the matching ones of that list.                             *)
ListMatching(h, matching) ==
    /\ \/ hd' = [hd EXCEPT ![h].pc = "delete",
                           ![h].todo = {o.cr : o \in {p \in matching : p.labelled}}]
       \/ Fail(h)
    /\ UNCHANGED <<phase, tsigKey, objs, now, owed>>

deleteRRset(h) ==
    /\ At(h, "deleteRRset")
    /\ ListMatching(h, {o \in objs : /\ Fold(o.name) = Fold(Update(h).name)
                                     /\ o.type = Update(h).type})

(* Mutant of deleteAllAtName: the owner is compared with its case.         *)
deleteAllAtNameExactCase(h) ==
    /\ At(h, "deleteAllAtName")
    /\ ListMatching(h, {o \in objs : o.name = Update(h).name})

(* Mutant of deleteAllAtName: the list has no label selector.              *)
deleteAllAtNameOfAnySource(h) ==
    /\ At(h, "deleteAllAtName")
    /\ \/ hd' = [hd EXCEPT ![h].pc = "delete",
               ![h].todo = {o.cr : o \in {p \in objs : Fold(p.name) = Fold(Update(h).name)}}]
       \/ Fail(h)
    /\ UNCHANGED <<phase, tsigKey, objs, now, owed>>

deleteAllAtName(h) ==
    /\ At(h, "deleteAllAtName")
    /\ ListMatching(h, {o \in objs : Fold(o.name) = Fold(Update(h).name)})

(* One deletion of the loop; an object that is gone already is no error.   *)
deleteCR(h) ==
    /\ Alive /\ hd[h].pc = "delete"
    /\ \/ hd[h].todo = {} /\ Proceed(h) /\ UNCHANGED objs
       \/ \E cr \in hd[h].todo : Call(h, Without(cr), hd' = [hd EXCEPT ![h].todo = @ \ {cr}])
    /\ UNCHANGED <<phase, tsigKey, now, owed>>

(* Types the server does not know and odd combinations are passed over.    *)
Skip(h) ==
    /\ At(h, "skip") /\ Proceed(h)
    /\ UNCHANGED <<phase, tsigKey, objs, now, owed>>

(* All updates are done.  From now on the message is owed its effect on    *)
(* every record nobody else was changing.                                  *)
HandleUpdateDone(h) ==
    LET id == hd[h].id IN
    /\ Alive /\ hd[h].pc = "update" /\ hd[h].i > Len(Msg[id].updates)
    /\ Answer(h, "NOERROR", "signed")
    /\ owed' = [r \in Record |->
                   IF Says(id, r) # {} /\ r \notin hd[h].clash THEN Outcome[id][r] ELSE owed[r]]
    /\ UNCHANGED <<phase, tsigKey, objs, now>>

(* The answer is written, or lost; the goroutine ends either way.          *)
Reply(h) ==
    /\ Alive /\ hd[h].pc = "reply" /\ hd' = [hd EXCEPT ![h] = Idle]
    /\ UNCHANGED <<phase, tsigKey, objs, now, owed>>

Step(h) ==
    \/ handleTCP(h) \/ Reject(h) \/ Admit(h)
    \/ addRR(h) \/ deleteRR(h) \/ deleteRRset(h) \/ deleteAllAtName(h)
    \/ deleteCR(h) \/ Skip(h) \/ HandleUpdateDone(h) \/ Reply(h)

Next ==
    \/ loadTSIGKey \/ Listen \/ Stop \/ Exit \/ Restart \/ Tick
    \/ \E h \in Slots :
         \/ \E id \in DOMAIN Msg : serveUDP(h, id)
         \/ serveTCP(h) \/ Step(h)

Spec == Init /\ [][Next]_vars

-----------------------------------------------------------------------------
Present == {[name |-> Fold(o.name), type |-> o.type, rdata |-> o.rdata] :
                o \in {p \in objs : p.labelled}}

(* An update that was answered NOERROR holds: every record it added is     *)
(* there and every record it deleted is gone, until a message that says    *)
(* otherwise is admitted, whatever duplicates, failing calls, retries and  *)
(* restarts come in between (HandleUpdate, addRR and the deletions).       *)
Settled ==
    \A r \in Record :
        /\ owed[r] = "in" => r \in Present
        /\ owed[r] = "out" => r \notin Present

(* Objects of other sources are never replaced or deleted, also when they  *)
(* hold records of the same owner (the label selector of the lists, the    *)
(* source prefix of CRName).                                               *)
ManualKept == Manual \subseteq objs

(* A record in the cluster was put there by a message that the holder of a *)
(* key of the Secret has signed as a whole, for our zone, and not before   *)
(* that message's window opened (processMessage, ValidateTSIG).            *)
Authentic ==
    \A r \in Present : \E i \in DOMAIN Msg :
        LET m == Msg[i] t == TSIG(Msg[i]) IN
        /\ m.parses /\ HasTSIG(m) /\ "in" \in Says(i, r)
        /\ m.zones # <<>> => matchesZone(Head(m.zones))
        /\ \E k \in Keys : t.mac = [key |-> k, over |-> Covered(m, t)]
        /\ t.time <= now + Window(t)

(* Records that may still appear, and those that the TSIG window of every  *)
(* message that adds them forbids to appear.                               *)
Revivable == Present \cup {r \in Record : \E h \in Busy : "in" \in Says(hd[h].id, r)}
Adders == [r \in Record |-> {i \in DOMAIN Msg : HasTSIG(Msg[i]) /\ "in" \in Says(i, r)}]
Expired(r) == \A i \in Adders[r] : now > TSIG(Msg[i]).time + Window(TSIG(Msg[i]))

(* A message that is delivered again after its window cannot bring back a  *)
(* record that is gone (ValidateTSIG).                                     *)
StaysGone == [][\A r \in Revivable' \ Revivable : ~Expired(r)]_vars

(* A record only goes when a message that is being applied deletes it: a   *)
(* deletion takes away the record of its own owner, type and rdata, and an *)
(* addition replaces none but the record it adds (deleteRR, addRR).        *)
DeletesOnlyNamed ==
    [][\A r \in Present \ Present' : \E h \in Busy : "out" \in Says(hd[h].id, r)]_vars
===============================================================================
