----------------------------- MODULE GatewayProofs -----------------------------
(***************************************************************************)
(* Proofs about Gateway for every set of messages, every number of them in *)
(* flight, every window of time and every set of foreign objects.          *)
(***************************************************************************)
EXTENDS Gateway, SequenceTheorems, TLAPS

CR(u) == CRName(u.type, u.name, u.rdata)
Additions == {u \in Updates : Kind(u) = "addRR"}
RecordIn(o) == [name |-> Fold(o.name), type |-> o.type, rdata |-> o.rdata]

(* No two records of the messages share an object name.  The run           *)
(* gateway_collision shows what happens without it.                        *)
NoCollision ==
    \A u, v \in {w \in Updates : Kind(w) \in {"addRR", "deleteRR"}} :
        CR(u) = CR(v) => RecordOf(u) = RecordOf(v)

-----------------------------------------------------------------------------
(* The inductive invariant, in parts.                                      *)

(* Every object is foreign or was written for an addition.                 *)
ObjectsKnown == objs \subseteq Manual \cup {ObjectOf(u) : u \in Additions}

(* A goroutine runs in a living process, has a message once it has read    *)
(* one and starts at its first update; a process that listens has a key.   *)
HandlersKnown ==
    /\ \A h \in Slots :
          /\ hd[h].pc \in {"process", "update", "delete"} => hd[h].id \in DOMAIN Msg
          /\ hd[h].pc = "delete" => hd[h].i <= Len(Msg[hd[h].id].updates)
          /\ hd[h].pc \notin {"update", "delete"} => hd[h].i = 1
          /\ ~Alive => hd[h].pc = "idle"
    /\ phase \in {"listening", "serving", "stopping"} => tsigKey \in Keys

(* What is left to delete was listed because the update deletes it.        *)
TodoListed ==
    \A h \in Slots : hd[h].pc = "delete" =>
        /\ Kind(Update(h)) \in {"deleteRRset", "deleteAllAtName"}
        /\ \A cr \in hd[h].todo : \E u \in Additions : cr = CR(u) /\ Deletes(Update(h), RecordOf(u))

BasicInv == TypeOK /\ ObjectsKnown /\ HandlersKnown /\ TodoListed /\ ManualKept

(* A message whose updates are applied was signed, for our zone, and its   *)
(* window had opened.                                                      *)
Genuine(m, at) ==
    LET t == TSIG(m) IN
    /\ m.parses /\ HasTSIG(m)
    /\ m.zones # <<>> => matchesZone(Head(m.zones))
    /\ \E k \in Keys : t.mac = [key |-> k, over |-> Covered(m, t)]
    /\ t.time <= at + Window(t)

BusyGenuine == \A h \in Busy : Genuine(Msg[hd[h].id], now)

(* What is owed is not contradicted by a message being applied.            *)
OwedAgreed ==
    \A r \in Record, h \in Busy : owed[r] # "any" => Says(hd[h].id, r) \subseteq {owed[r]}

(* Two messages that are being applied know what they disagree on.         *)
ClashKnown ==
    \A g, h \in Busy : g # h => Disputed[hd[g].id][hd[h].id] \subseteq hd[g].clash

(* The updates done so far have their effect on a record that nobody       *)
(* disputes; during a deletion what is still there is still to delete.     *)
Before(g, S) == {j \in S : j < g.i}
AddedLast(g, r) ==
    \E j \in Before(g, Adding[g.id][r]) : \A k \in Before(g, Deleting[g.id][r]) : k < j
DeletingNow(g, r) == g.pc = "delete" /\ Deletes(Msg[g.id].updates[g.i], r)
Applied(g, P, r) ==
    IF DeletingNow(g, r)
    THEN r \in P => \A u \in Additions : RecordOf(u) = r => CR(u) \in g.todo
    ELSE Before(g, Adding[g.id][r]) \cup Before(g, Deleting[g.id][r]) # {} =>
            (r \in P <=> AddedLast(g, r))

Progress == \A h \in Busy : \A r \in Record \ hd[h].clash : Applied(hd[h], Present, r)

-----------------------------------------------------------------------------
(* Names, objects and updates.                                             *)

(* The object name depends on the record alone.                            *)
LEMMA SameName ==
  ASSUME NEW u, NEW v, RecordOf(u) = RecordOf(v)
  PROVE  CR(u) = CR(v)
<1>1. Fold(u.name) = Fold(v.name) /\ u.type = v.type /\ u.rdata = v.rdata BY DEF RecordOf
<1>2. sanitizeFQDN(u.name) = sanitizeFQDN(v.name) BY <1>1 DEF sanitizeFQDN
<1> QED BY <1>1, <1>2 DEF CR, CRName

LEMMA ObjectFacts ==
  ASSUME NEW u
  PROVE  /\ ObjectOf(u).cr = CR(u) /\ ObjectOf(u).labelled = TRUE
         /\ RecordIn(ObjectOf(u)) = RecordOf(u)
         /\ ObjectOf(u).name = u.name /\ ObjectOf(u).type = u.type
BY DEF ObjectOf, CR, RecordIn, RecordOf

LEMMA AdditionRecord ==
  ASSUME NEW u \in Additions
  PROVE  RecordOf(u) \in Record /\ CR(u) \in CRNames /\ u \in Updates
BY DEF Additions, Record, CRNames, CR

(* The records of a set of known objects are those of the additions whose  *)
(* object is there.                                                        *)
RecordsIn(S) == {RecordIn(o) : o \in {p \in S : p.labelled}}

LEMMA PresentFacts ==
  ASSUME NEW S \in SUBSET (Manual \cup {ObjectOf(u) : u \in Additions}), NEW r
  PROVE  r \in RecordsIn(S) <=> \E u \in Additions : ObjectOf(u) \in S /\ RecordOf(u) = r
<1>1. ASSUME r \in RecordsIn(S)
      PROVE  \E u \in Additions : ObjectOf(u) \in S /\ RecordOf(u) = r
  <2>1. PICK o \in S : o.labelled /\ r = RecordIn(o) BY <1>1 DEF RecordsIn
  <2>2. o \notin Manual BY <2>1, GatewayAssumption
  <2>3. PICK u \in Additions : o = ObjectOf(u) BY <2>1, <2>2
  <2> QED BY <2>1, <2>3, ObjectFacts
<1>2. ASSUME NEW u \in Additions, ObjectOf(u) \in S, RecordOf(u) = r
      PROVE  r \in RecordsIn(S)
  <2>1. ObjectOf(u).labelled /\ RecordIn(ObjectOf(u)) = r BY <1>2, ObjectFacts
  <2> QED BY <1>2, <2>1 DEF RecordsIn
<1> QED BY <1>1, <1>2

LEMMA PresentIs == Present = RecordsIn(objs) /\ Present' = RecordsIn(objs')
BY DEF Present, RecordsIn, RecordIn

(* The update a goroutine is at.                                           *)
LEMMA UpdateFacts ==
  ASSUME NEW h \in Slots, hd[h].id \in DOMAIN Msg, hd[h].i \in Nat \ {0},
         hd[h].i <= Len(Msg[hd[h].id].updates)
  PROVE  /\ Update(h) \in Updates /\ hd[h].i \in DOMAIN Msg[hd[h].id].updates
         /\ \A r \in Record :
               /\ Adds(Update(h), r) <=> hd[h].i \in Adding[hd[h].id][r]
               /\ Deletes(Update(h), r) <=> hd[h].i \in Deleting[hd[h].id][r]
<1> DEFINE s == Msg[hd[h].id].updates
<1>1. s \in Seq(Updates) BY GatewayAssumption
<1>2. DOMAIN s = 1..Len(s) /\ Len(s) \in Nat BY <1>1, LenProperties
<1>3. hd[h].i \in 1..Len(s) BY <1>2
<1>4. s[hd[h].i] \in Updates BY <1>1, <1>3, ElementOfSeq
<1> QED BY <1>2, <1>3, <1>4 DEF Update, Adding, Deleting

(* A message with an update that adds or deletes a record says so.         *)
LEMMA SaysFacts ==
  ASSUME NEW i \in DOMAIN Msg, NEW r \in Record
  PROVE  /\ Says(i, r) \subseteq {"in", "out"}
         /\ "in" \in Says(i, r) <=> Adding[i][r] # {}
         /\ "out" \in Says(i, r) <=> Deleting[i][r] # {}
BY DEF Says, Effects

-----------------------------------------------------------------------------
(* How the actions change the goroutines.                                  *)

LEMMA AnswerHd ==
  ASSUME hd \in [Slots -> Handler], NEW h \in Slots,
         NEW rcode \in {"none", "NOERROR", "SERVFAIL", "NOTIMP", "REFUSED", "NOTZONE"},
         NEW tsig \in {"none", "error", "signed"}, Answer(h, rcode, tsig)
  PROVE  /\ hd' \in [Slots -> Handler] /\ hd'[h].pc = "reply" /\ hd'[h].i = 1
         /\ \A g \in Slots \ {h} : hd'[g] = hd[g]
BY DEF Answer, Goroutine, Handler

LEMMA ProceedHd ==
  ASSUME hd \in [Slots -> Handler], NEW h \in Slots, Proceed(h)
  PROVE  /\ hd' \in [Slots -> Handler]
         /\ hd'[h].pc = "update" /\ hd'[h].id = hd[h].id /\ hd'[h].i = hd[h].i + 1
         /\ hd'[h].todo = {} /\ hd'[h].clash = hd[h].clash
         /\ \A g \in Slots \ {h} : hd'[g] = hd[g]
BY DEF Proceed, Handler

LEMMA TodoHd ==
  ASSUME hd \in [Slots -> Handler], NEW h \in Slots, NEW S \in SUBSET CRNames,
         hd' = [hd EXCEPT ![h].todo = S] \/ hd' = [hd EXCEPT ![h].pc = "delete", ![h].todo = S],
         hd[h].pc \in {"update", "delete"}
  PROVE  /\ hd' \in [Slots -> Handler]
         /\ hd'[h].pc \in {hd[h].pc, "delete"} /\ hd'[h].id = hd[h].id /\ hd'[h].i = hd[h].i
         /\ hd'[h].todo = S /\ hd'[h].clash = hd[h].clash
         /\ \A g \in Slots \ {h} : hd'[g] = hd[g]
BY DEF Handler

-----------------------------------------------------------------------------
(* What a step does, by its effect on objects and goroutines.              *)

Applying(h) == h \in Busy /\ hd[h].id \in DOMAIN Msg /\ hd[h].i <= Len(Msg[hd[h].id].updates)
Apart(h) == \A g \in Slots \ {h} : hd'[g] = hd[g]
Same(h) == hd'[h].id = hd[h].id /\ hd'[h].clash = hd[h].clash /\ Apart(h) /\ UNCHANGED <<owed, now>>

Writes(h) == /\ hd[h].pc = "update" /\ Kind(Update(h)) = "addRR"
             /\ objs' = Without(CR(Update(h))) \cup {ObjectOf(Update(h))}
Removes(h) == /\ hd[h].pc = "update" /\ Kind(Update(h)) = "deleteRR"
              /\ objs' = Without(CR(Update(h)))
Drops(h, cr) == hd[h].pc = "delete" /\ cr \in hd[h].todo /\ objs' = Without(cr)

(* Nothing but time passes, or goroutines that make no calls move.         *)
Quiet == /\ UNCHANGED <<objs, owed>> /\ now' >= now
         /\ \A g \in Slots : hd'[g].pc \in {"update", "delete"} => hd'[g] = hd[g]

(* A goroutine that makes calls fails, with or without an effect.          *)
Fails(h) == /\ Applying(h) /\ hd'[h].pc = "reply" /\ hd'[h].i = 1 /\ Apart(h) /\ UNCHANGED <<owed, now>>
            /\ \/ UNCHANGED objs \/ Writes(h) \/ Removes(h)
               \/ \E cr \in hd[h].todo : Drops(h, cr)

(* It ends an update, lists what the update deletes, deletes one of them.  *)
Advances(h) == /\ Applying(h) /\ hd'[h].pc = "update" /\ hd'[h].i = hd[h].i + 1
               /\ hd'[h].todo = {} /\ Same(h)
               /\ \/ Writes(h) \/ Removes(h)
                  \/ UNCHANGED objs /\ hd[h].pc = "update" /\ Kind(Update(h)) = "skip"
                  \/ UNCHANGED objs /\ hd[h].pc = "delete" /\ hd[h].todo = {}
Lists(h) == /\ Applying(h) /\ hd[h].pc = "update" /\ hd'[h].pc = "delete" /\ hd'[h].i = hd[h].i
            /\ Kind(Update(h)) \in {"deleteRRset", "deleteAllAtName"}
            /\ hd'[h].todo = {CR(u) : u \in {v \in Additions :
                                  ObjectOf(v) \in objs /\ Deletes(Update(h), RecordOf(v))}}
            /\ Same(h) /\ UNCHANGED objs
Erases(h) == /\ Applying(h) /\ hd[h].pc = "delete" /\ hd'[h].pc = "delete" /\ hd'[h].i = hd[h].i
             /\ \E cr \in hd[h].todo : Drops(h, cr) /\ hd'[h].todo = hd[h].todo \ {cr}
             /\ Same(h)

Acts(h) == /\ Alive /\ UNCHANGED <<phase, tsigKey>> /\ hd' \in [Slots -> Handler]
           /\ \/ Fails(h) \/ Advances(h) \/ Lists(h) \/ Erases(h) \/ Admit(h) \/ HandleUpdateDone(h)

(* The types of the main loop's variables.                                 *)
LoopTyped == /\ phase \in {"starting", "listening", "serving", "stopping", "exited"}
             /\ tsigKey \in Keys \cup {NoKey} /\ now \in 0..MaxTime

LEMMA IdleTyped == Idle \in Handler /\ Idle.pc = "idle" /\ Idle.i = 1
BY DEF Idle, Goroutine, Handler

LEMMA QuietSteps ==
  ASSUME BasicInv, [Next]_vars
  PROVE  \/ /\ Quiet /\ LoopTyped' /\ hd' \in [Slots -> Handler] /\ HandlersKnown'
         \/ \E h \in Slots : \/ addRR(h) \/ deleteRR(h) \/ deleteRRset(h) \/ deleteAllAtName(h)
                            \/ deleteCR(h) \/ Skip(h) \/ HandleUpdateDone(h) \/ Admit(h)
<1> DEFINE Goal == Quiet /\ LoopTyped' /\ hd' \in [Slots -> Handler] /\ HandlersKnown'
<1> USE IdleTyped
<1>0. LoopTyped /\ hd \in [Slots -> Handler] /\ HandlersKnown /\ now \in Nat /\ MaxTime \in Nat
  BY GatewayAssumption DEF BasicInv, TypeOK, LoopTyped
<1>1. CASE UNCHANGED vars
  BY <1>0, <1>1 DEF vars, Quiet, LoopTyped, HandlersKnown, Alive
<1>2. CASE loadTSIGKey
  <2>1. hd' = hd /\ objs' = objs /\ owed' = owed /\ now' = now BY <1>2 DEF loadTSIGKey
  <2>2. ~Alive BY <1>2 DEF loadTSIGKey, Alive
  <2> QED BY <1>0, <1>2, <2>1, <2>2 DEF loadTSIGKey, Quiet, LoopTyped, HandlersKnown, Alive
<1>3. CASE Listen
  BY <1>0, <1>3 DEF Listen, Quiet, LoopTyped, HandlersKnown, Alive
<1>4. CASE Stop
  BY <1>0, <1>4 DEF Stop, Quiet, LoopTyped, HandlersKnown, Alive
<1>5. CASE Exit
  BY <1>0, <1>5 DEF Exit, Quiet, LoopTyped, HandlersKnown, Alive
<1>6. CASE Restart
  BY <1>0, <1>6 DEF Restart, Quiet, LoopTyped, HandlersKnown, Alive
<1>7. CASE Tick
  <2>1. hd' = hd /\ objs' = objs /\ owed' = owed /\ now' >= now /\ now' \in 0..MaxTime
    BY <1>0, <1>7 DEF Tick
  <2> QED BY <1>0, <1>7, <2>1 DEF Tick, Quiet, LoopTyped, HandlersKnown, Alive
<1>8. ASSUME NEW h \in Slots, hd' \in [Slots -> Handler], Alive, Apart(h),
             UNCHANGED <<phase, tsigKey, objs, now, owed>>,
             hd'[h].pc \notin {"update", "delete"}, hd'[h].i = 1, hd'[h].pc = "process" => hd'[h].id \in DOMAIN Msg
      PROVE  Goal
  BY <1>0, <1>8 DEF Apart, Quiet, LoopTyped, HandlersKnown, Alive
<1>9. ASSUME NEW h \in Slots, NEW id \in DOMAIN Msg, serveUDP(h, id) PROVE Goal
  <2>1. Goroutine("process", id, "none", "none") \in Handler
        /\ Goroutine("process", id, "none", "none").pc = "process"
        /\ Goroutine("process", id, "none", "none").id = id
        /\ Goroutine("process", id, "none", "none").i = 1
    BY DEF Goroutine, Handler
  <2> QED BY <1>0, <1>8, <1>9, <2>1 DEF serveUDP, Apart, Alive
<1>10. ASSUME NEW h \in Slots, serveTCP(h) PROVE Goal
  <2>1. hd' \in [Slots -> Handler] /\ hd'[h].pc = "reading" /\ hd'[h].i = 1 /\ Apart(h)
    BY <1>0, <1>10 DEF serveTCP, Apart, Handler, HandlersKnown
  <2> QED BY <1>8, <1>10, <2>1 DEF serveTCP, Alive
<1>11. ASSUME NEW h \in Slots, handleTCP(h) PROVE Goal
  <2>1. CASE hd' = [hd EXCEPT ![h] = Idle]
    BY <1>0, <1>8, <1>11, <2>1 DEF handleTCP, Apart
  <2>2. ASSUME NEW id \in DOMAIN Msg, hd' = [hd EXCEPT ![h].pc = "process", ![h].id = id]
        PROVE  Goal
    <3>1. hd' \in [Slots -> Handler] /\ hd'[h].pc = "process" /\ hd'[h].id = id /\ hd'[h].i = 1 /\ Apart(h)
      BY <1>0, <1>11, <2>2 DEF handleTCP, Apart, Handler, HandlersKnown
    <3> QED BY <1>8, <1>11, <3>1 DEF handleTCP
  <2> QED BY <1>11, <2>1, <2>2 DEF handleTCP
<1>12. ASSUME NEW h \in Slots, Reject(h) PROVE Goal
  <2> DEFINE m == Msg[hd[h].id]
             sig == CASE Rejection(m) = "REFUSED" /\ HasTSIG(m) -> "error"
                      [] Rejection(m) = "NOTZONE" \/ (Rejection(m) = "NOTIMP" /\ m.opcode = "UPDATE") -> "signed"
                      [] OTHER -> "none"
  <2>1. Answer(h, Rejection(m), sig) /\ Alive /\ UNCHANGED <<phase, tsigKey, objs, now, owed>>
    BY <1>12 DEF Reject
  <2>2. Rejection(m) \in {"none", "NOERROR", "SERVFAIL", "NOTIMP", "REFUSED", "NOTZONE"}
    BY DEF Rejection
  <2>3. sig \in {"none", "error", "signed"} OBVIOUS
  <2> HIDE DEF sig, m
  <2> QED BY <1>0, <1>8, <2>1, <2>2, <2>3, AnswerHd DEF Apart
<1>13. ASSUME NEW h \in Slots, Reply(h) PROVE Goal
  BY <1>0, <1>8, <1>13 DEF Reply, Apart
<1> QED BY <1>1, <1>2, <1>3, <1>4, <1>5, <1>6, <1>7, <1>9, <1>10, <1>11, <1>12, <1>13 DEF Next, Step

LEMMA FailHd ==
  ASSUME hd \in [Slots -> Handler], NEW h \in Slots, Fail(h)
  PROVE  hd' \in [Slots -> Handler] /\ hd'[h].pc = "reply" /\ hd'[h].i = 1 /\ Apart(h)
BY AnswerHd DEF Fail, Apart

LEMMA ActSteps ==
  ASSUME BasicInv, NEW h \in Slots,
         \/ addRR(h) \/ deleteRR(h) \/ deleteRRset(h) \/ deleteAllAtName(h)
         \/ deleteCR(h) \/ Skip(h) \/ HandleUpdateDone(h) \/ Admit(h)
  PROVE  Acts(h)
<1>0. /\ hd \in [Slots -> Handler] /\ HandlersKnown /\ ObjectsKnown
      /\ hd[h] \in Handler /\ hd[h].i \in Nat \ {0} /\ hd[h].todo \in SUBSET CRNames
  BY DEF BasicInv, TypeOK, Handler
<1>1. ASSUME NEW k, At(h, k)
      PROVE  Applying(h) /\ Alive /\ hd[h].pc = "update" /\ Kind(Update(h)) = k
  BY <1>0, <1>1 DEF At, Applying, Busy, HandlersKnown
<1>2. ASSUME hd[h].pc = "delete" PROVE Applying(h)
  BY <1>0, <1>2 DEF Applying, Busy, HandlersKnown
<1>3. ASSUME Proceed(h), UNCHANGED <<owed, now>>
      PROVE  /\ hd' \in [Slots -> Handler] /\ hd'[h].pc = "update" /\ hd'[h].i = hd[h].i + 1
             /\ hd'[h].todo = {} /\ Same(h)
  BY <1>0, <1>3, ProceedHd DEF Same, Apart
<1>4. ASSUME addRR(h) PROVE Acts(h)
  <2> DEFINE u == Update(h)
  <2>1. At(h, "addRR") /\ UNCHANGED <<phase, tsigKey, now, owed>> BY <1>4 DEF addRR
  <2>2. \/ Fail(h) /\ UNCHANGED objs
        \/ objs' = Without(CR(u)) \cup {ObjectOf(u)} /\ (Proceed(h) \/ Fail(h))
    BY <1>4 DEF addRR, Call, CR
  <2>3. CASE Fail(h)
    <3>1. UNCHANGED objs \/ Writes(h) BY <1>1, <2>1, <2>2 DEF Writes
    <3>2. Fails(h) BY <1>0, <1>1, <2>1, <2>3, <3>1, FailHd DEF Fails
    <3> QED BY <1>0, <1>1, <2>1, <2>3, <3>2, FailHd DEF Acts
  <2>4. CASE objs' = Without(CR(u)) \cup {ObjectOf(u)} /\ Proceed(h)
    <3>1. Writes(h) BY <1>1, <2>1, <2>4 DEF Writes
    <3>2. Advances(h) BY <1>1, <1>3, <2>1, <2>4, <3>1 DEF Advances
    <3> QED BY <1>1, <1>3, <2>1, <2>4, <3>2 DEF Acts
  <2> QED BY <2>2, <2>3, <2>4
<1>5. ASSUME deleteRR(h) PROVE Acts(h)
  <2> DEFINE u == Update(h)
  <2>1. At(h, "deleteRR") /\ UNCHANGED <<phase, tsigKey, now, owed>> BY <1>5 DEF deleteRR
  <2>2. \/ Fail(h) /\ UNCHANGED objs
        \/ objs' = Without(CR(u)) /\ (Proceed(h) \/ Fail(h))
    BY <1>5 DEF deleteRR, Call, CR
  <2>3. CASE Fail(h)
    <3>1. UNCHANGED objs \/ Removes(h) BY <1>1, <2>1, <2>2 DEF Removes
    <3>2. Fails(h) BY <1>0, <1>1, <2>1, <2>3, <3>1, FailHd DEF Fails
    <3> QED BY <1>0, <1>1, <2>1, <2>3, <3>2, FailHd DEF Acts
  <2>4. CASE objs' = Without(CR(u)) /\ Proceed(h)
    <3>1. Removes(h) BY <1>1, <2>1, <2>4 DEF Removes
    <3>2. Advances(h) BY <1>1, <1>3, <2>1, <2>4, <3>1 DEF Advances
    <3> QED BY <1>1, <1>3, <2>1, <2>4, <3>2 DEF Acts
  <2> QED BY <2>2, <2>3, <2>4
<1>6. ASSUME NEW k \in {"deleteRRset", "deleteAllAtName"}, At(h, k), NEW S, ListMatching(h, S),
             S = {o \in objs : Fold(o.name) = Fold(Update(h).name)
                               /\ (k = "deleteRRset" => o.type = Update(h).type)}
      PROVE  Acts(h)
  <2> DEFINE doomed == {v \in Additions : ObjectOf(v) \in objs /\ Deletes(Update(h), RecordOf(v))}
             todo == {o.cr : o \in {p \in S : p.labelled}}
  <2>1. UNCHANGED <<phase, tsigKey, objs, now, owed>> BY <1>6 DEF ListMatching
  <2>2. CASE Fail(h)
    <3>1. Fails(h) BY <1>0, <1>1, <1>6, <2>1, <2>2, FailHd DEF Fails
    <3> QED BY <1>0, <1>1, <1>6, <2>1, <2>2, <3>1, FailHd DEF Acts
  <2>3. CASE hd' = [hd EXCEPT ![h].pc = "delete", ![h].todo = todo]
    <3>1. ASSUME NEW cr \in todo PROVE \E u \in doomed : cr = CR(u)
      <4>1. PICK o \in S : o.labelled /\ cr = o.cr OBVIOUS
      <4>2. o \in objs /\ o \notin Manual BY <1>6, <4>1, GatewayAssumption
      <4>3. PICK u \in Additions : o = ObjectOf(u) BY <1>0, <4>2 DEF ObjectsKnown
      <4>4. Fold(u.name) = Fold(Update(h).name) /\ (k = "deleteRRset" => u.type = Update(h).type)
        BY <1>6, <4>1, <4>3, ObjectFacts
      <4>5. Deletes(Update(h), RecordOf(u)) BY <1>1, <1>6, <4>4 DEF Deletes, RecordOf
      <4> QED BY <4>1, <4>2, <4>3, <4>5, ObjectFacts
    <3>2. ASSUME NEW u \in doomed PROVE CR(u) \in todo
      <4>1. ObjectOf(u) \in objs /\ Deletes(Update(h), RecordOf(u)) OBVIOUS
      <4>2. Fold(u.name) = Fold(Update(h).name) /\ (k = "deleteRRset" => u.type = Update(h).type)
        BY <1>1, <1>6, <4>1 DEF Deletes, RecordOf
      <4>3. ObjectOf(u) \in S BY <1>6, <4>1, <4>2, ObjectFacts
      <4> QED BY <4>3, ObjectFacts
    <3>3. todo = {CR(u) : u \in doomed} BY <3>1, <3>2
    <3>4. todo \in SUBSET CRNames BY <3>1, AdditionRecord
    <3> HIDE DEF todo, doomed
    <3>5. /\ hd' \in [Slots -> Handler] /\ hd'[h].pc = "delete" /\ hd'[h].id = hd[h].id
          /\ hd'[h].i = hd[h].i /\ hd'[h].todo = todo /\ hd'[h].clash = hd[h].clash /\ Apart(h)
      BY <1>0, <2>3, <3>4 DEF Handler, Apart
    <3>6. Lists(h) BY <1>1, <1>6, <2>1, <3>3, <3>5 DEF Lists, Same, doomed
    <3> QED BY <1>1, <1>6, <2>1, <3>5, <3>6 DEF Acts
  <2> QED BY <1>6, <2>2, <2>3 DEF ListMatching
<1>7. ASSUME deleteRRset(h) PROVE Acts(h)
  BY <1>6, <1>7 DEF deleteRRset
<1>8. ASSUME deleteAllAtName(h) PROVE Acts(h)
  BY <1>6, <1>8 DEF deleteAllAtName
<1>9. ASSUME deleteCR(h) PROVE Acts(h)
  <2>1. hd[h].pc = "delete" /\ Alive /\ UNCHANGED <<phase, tsigKey, now, owed>> BY <1>9 DEF deleteCR
  <2>2. CASE hd[h].todo = {} /\ Proceed(h) /\ UNCHANGED objs
    <3>1. Advances(h) BY <1>2, <1>3, <2>1, <2>2 DEF Advances
    <3> QED BY <1>3, <2>1, <2>2, <3>1 DEF Acts
  <2>3. ASSUME NEW cr \in hd[h].todo, objs' = Without(cr), hd' = [hd EXCEPT ![h].todo = @ \ {cr}]
        PROVE  Acts(h)
    <3>1. hd' = [hd EXCEPT ![h].todo = hd[h].todo \ {cr}] BY <1>0, <2>3
    <3>2. hd[h].todo \ {cr} \in SUBSET CRNames BY <1>0
    <3>3. /\ hd' \in [Slots -> Handler] /\ hd'[h].pc = "delete" /\ hd'[h].id = hd[h].id
          /\ hd'[h].i = hd[h].i /\ hd'[h].todo = hd[h].todo \ {cr}
          /\ hd'[h].clash = hd[h].clash /\ Apart(h)
      BY <1>0, <2>1, <3>1, <3>2, TodoHd DEF Apart
    <3>4. Erases(h) BY <1>2, <2>1, <2>3, <3>3 DEF Erases, Drops, Same
    <3> QED BY <2>1, <3>3, <3>4 DEF Acts
  <2>4. ASSUME NEW cr \in hd[h].todo, objs' \in {objs, Without(cr)}, Fail(h) PROVE Acts(h)
    <3>1. UNCHANGED objs \/ Drops(h, cr) BY <2>1, <2>4 DEF Drops
    <3>2. Fails(h) BY <1>0, <1>2, <2>1, <2>4, <3>1, FailHd DEF Fails
    <3> QED BY <1>0, <2>1, <2>4, <3>2, FailHd DEF Acts
  <2> QED BY <1>9, <2>2, <2>3, <2>4 DEF deleteCR, Call
<1>10. ASSUME Skip(h) PROVE Acts(h)
  <2>1. At(h, "skip") /\ Proceed(h) /\ UNCHANGED <<phase, tsigKey, objs, now, owed>>
    BY <1>10 DEF Skip
  <2>2. Advances(h) BY <1>1, <1>3, <2>1 DEF Advances
  <2> QED BY <1>1, <1>3, <2>1, <2>2 DEF Acts
<1>11. ASSUME HandleUpdateDone(h) PROVE Acts(h)
  BY <1>0, <1>11, AnswerHd DEF HandleUpdateDone, Acts
<1>12. ASSUME Admit(h) PROVE Acts(h)
  <2>1. ASSUME NEW g \in Slots PROVE hd'[g] \in Handler
    <3>1. ASSUME NEW g1 \in Busy, NEW i \in DOMAIN Msg PROVE Disputed[i][hd[g1].id] \subseteq Record
      <4>1. hd[g1].id \in DOMAIN Msg BY <1>0, <3>1 DEF Busy, HandlersKnown
      <4> QED BY <4>1 DEF Disputed
    <3>2. hd[h].id \in DOMAIN Msg BY <1>0, <1>12 DEF Admit, HandlersKnown
    <3> DEFINE odds == [f \in Busy |-> Disputed[hd[h].id][hd[f].id]]
    <3>3. \A f \in Busy : odds[f] \subseteq Record BY <3>1, <3>2
    <3>4. UNION Range(odds) \subseteq Record BY <3>3 DEF Range
    <3>5. hd'[g] = IF g = h THEN [hd[h] EXCEPT !.pc = "update", !.clash = UNION Range(odds)]
                   ELSE IF g \in Busy THEN [hd[g] EXCEPT !.clash = @ \cup odds[g]] ELSE hd[g]
      BY <1>12 DEF Admit
    <3> HIDE DEF odds
    <3>6. hd[g] \in Handler BY <1>0
    <3>7. ASSUME NEW S \in SUBSET Record, NEW f \in Handler
          PROVE  /\ [f EXCEPT !.pc = "update", !.clash = S] \in Handler
                 /\ [f EXCEPT !.clash = f.clash \cup S] \in Handler
      BY DEF Handler
    <3>8. CASE g = h
      <4> DEFINE S == UNION Range(odds)
      <4>1. hd'[g] = [hd[g] EXCEPT !.pc = "update", !.clash = S] BY <3>5, <3>8
      <4>2. S \in SUBSET Record BY <3>4
      <4> HIDE DEF S
      <4> QED BY <3>6, <3>7, <4>1, <4>2
    <3>9. CASE g # h /\ g \in Busy
      <4>1. hd'[g] = [hd[g] EXCEPT !.clash = hd[g].clash \cup odds[g]] BY <3>5, <3>9
      <4> QED BY <3>3, <3>6, <3>7, <3>9, <4>1
    <3> QED BY <3>5, <3>6, <3>8, <3>9
  <2>2. hd' \in [Slots -> Handler]
    <3>1. DOMAIN hd' = Slots /\ hd' = [g \in Slots |-> hd'[g]] BY <1>12 DEF Admit
    <3> QED BY <2>1, <3>1
  <2> QED BY <1>12, <2>2 DEF Admit, Acts
<1> QED BY <1>4, <1>5, <1>7, <1>8, <1>9, <1>10, <1>11, <1>12

LEMMA AdmitHd ==
  ASSUME BasicInv, NEW h \in Slots, Admit(h)
  PROVE  /\ h \notin Busy /\ Busy' = Busy \cup {h} /\ hd[h].id \in DOMAIN Msg
         /\ hd'[h].pc = "update" /\ hd'[h].id = hd[h].id /\ hd'[h].i = 1
         /\ \A g \in Busy : Disputed[hd[h].id][hd[g].id] \subseteq hd'[h].clash
         /\ \A g \in Slots \ {h} :
               /\ hd'[g].pc = hd[g].pc /\ hd'[g].id = hd[g].id /\ hd'[g].i = hd[g].i
               /\ hd'[g].todo = hd[g].todo /\ hd[g].clash \subseteq hd'[g].clash
               /\ g \in Busy => Disputed[hd[h].id][hd[g].id] \subseteq hd'[g].clash
<1> DEFINE odds == [f \in Busy |-> Disputed[hd[h].id][hd[f].id]]
<1>0. /\ hd \in [Slots -> Handler] /\ \A g \in Slots : hd[g] \in Handler
      /\ hd[h].pc = "process" /\ hd[h].id \in DOMAIN Msg /\ hd[h].i = 1 /\ h \notin Busy
  BY DEF BasicInv, TypeOK, HandlersKnown, Admit, Busy
<1>1. ASSUME NEW g \in Slots
      PROVE  hd'[g] = IF g = h THEN [hd[h] EXCEPT !.pc = "update", !.clash = UNION Range(odds)]
                      ELSE IF g \in Busy THEN [hd[g] EXCEPT !.clash = @ \cup odds[g]] ELSE hd[g]
  BY DEF Admit
<1>2. \A g \in Busy : odds[g] \subseteq UNION Range(odds) BY DEF Range
<1>3. \A g \in Busy : odds[g] = Disputed[hd[h].id][hd[g].id] OBVIOUS
<1> HIDE DEF odds
<1>4. /\ hd'[h].pc = "update" /\ hd'[h].id = hd[h].id /\ hd'[h].i = 1
      /\ hd'[h].clash = UNION Range(odds)
  <2> DEFINE S == UNION Range(odds)
  <2>1. hd'[h] = [hd[h] EXCEPT !.pc = "update", !.clash = S] BY <1>1
  <2> HIDE DEF S
  <2>2. /\ hd'[h].pc = "update" /\ hd'[h].id = hd[h].id /\ hd'[h].i = 1 /\ hd'[h].clash = S
    BY <1>0, <2>1 DEF Handler
  <2> QED BY <2>2 DEF S
<1>5. ASSUME NEW g \in Slots \ {h}
      PROVE  /\ hd'[g].pc = hd[g].pc /\ hd'[g].id = hd[g].id /\ hd'[g].i = hd[g].i
             /\ hd'[g].todo = hd[g].todo /\ hd[g].clash \subseteq hd'[g].clash
             /\ g \in Busy => Disputed[hd[h].id][hd[g].id] \subseteq hd'[g].clash
  <2>1. CASE g \notin Busy
    <3>1. hd'[g] = hd[g] BY <1>1, <2>1
    <3> QED BY <2>1, <3>1
  <2>2. CASE g \in Busy
    <3>1. hd'[g] = [hd[g] EXCEPT !.clash = hd[g].clash \cup odds[g]] BY <1>1, <2>2
    <3>2. /\ hd'[g].pc = hd[g].pc /\ hd'[g].id = hd[g].id /\ hd'[g].i = hd[g].i
          /\ hd'[g].todo = hd[g].todo /\ hd'[g].clash = hd[g].clash \cup odds[g]
      BY <1>0, <3>1 DEF Handler
    <3> QED BY <1>3, <2>2, <3>2
  <2> QED BY <2>1, <2>2
<1>6. Busy' = Busy \cup {h}
  <2>1. \A g \in Slots : hd'[g].pc \in {"update", "delete"} <=> g \in Busy \cup {h}
    BY <1>4, <1>5 DEF Busy
  <2> QED BY <2>1 DEF Busy
<1> QED BY <1>0, <1>2, <1>3, <1>4, <1>5, <1>6

(* Calls write and remove only objects of additions, so foreign objects    *)
(* stay.                                                                   *)
LEMMA ObjectsStep ==
  ASSUME BasicInv, NEW h \in Slots, Applying(h),
         \/ UNCHANGED objs \/ Writes(h) \/ Removes(h) \/ \E cr \in hd[h].todo : Drops(h, cr)
  PROVE  /\ \A o \in objs' : o.cr \in CRNames /\ \A p \in objs' : p.cr = o.cr => p = o
         /\ ObjectsKnown' /\ ManualKept'
<1>0. /\ \A o \in objs : o.cr \in CRNames /\ \A p \in objs : p.cr = o.cr => p = o
      /\ ObjectsKnown /\ ManualKept /\ TodoListed /\ hd[h].i \in Nat \ {0}
  BY DEF BasicInv, TypeOK, Handler
<1>1. Update(h) \in Updates BY <1>0, UpdateFacts DEF Applying
<1>2. \A u \in Updates : CR(u) \in CRNames /\ \A o \in Manual : o.cr # CR(u)
  BY GatewayAssumption DEF CRNames, CR
<1>3. ASSUME NEW u \in Updates, objs' = Without(CR(u))
      PROVE  /\ \A o \in objs' : o.cr \in CRNames /\ \A p \in objs' : p.cr = o.cr => p = o
             /\ ObjectsKnown' /\ ManualKept'
  BY <1>0, <1>2, <1>3 DEF Without, ObjectsKnown, ManualKept
<1>4. CASE UNCHANGED objs
  BY <1>0, <1>4 DEF ObjectsKnown, ManualKept
<1>5. CASE Writes(h)
  <2> DEFINE u == Update(h)
  <2>1. u \in Additions /\ objs' = Without(CR(u)) \cup {ObjectOf(u)} BY <1>1, <1>5 DEF Writes, Additions
  <2>2. ObjectOf(u).cr = CR(u) BY ObjectFacts
  <2>3. ObjectsKnown' BY <1>0, <2>1 DEF Without, ObjectsKnown
  <2>4. ManualKept' BY <1>0, <1>1, <1>2, <2>1 DEF Without, ManualKept
  <2> HIDE DEF u
  <2> QED BY <1>0, <1>1, <1>2, <2>1, <2>2, <2>3, <2>4, AdditionRecord DEF Without
<1>6. CASE Removes(h)
  BY <1>1, <1>3, <1>6 DEF Removes
<1>7. ASSUME NEW cr \in hd[h].todo, Drops(h, cr)
      PROVE  /\ \A o \in objs' : o.cr \in CRNames /\ \A p \in objs' : p.cr = o.cr => p = o
             /\ ObjectsKnown' /\ ManualKept'
  <2>1. PICK u \in Additions : cr = CR(u) BY <1>0, <1>7 DEF TodoListed, Drops
  <2> QED BY <1>3, <1>7, <2>1, AdditionRecord DEF Drops
<1> QED BY <1>4, <1>5, <1>6, <1>7

(* A step keeps the basic invariant.                                       *)
LEMMA BasicStep == BasicInv /\ [Next]_vars => BasicInv'
<1> SUFFICES ASSUME BasicInv, [Next]_vars PROVE BasicInv'
  OBVIOUS
<1>0. /\ LoopTyped /\ hd \in [Slots -> Handler] /\ HandlersKnown /\ TodoListed
      /\ ObjectsKnown /\ ManualKept /\ owed \in [Record -> {"in", "out", "any"}]
      /\ \A o \in objs : o.cr \in CRNames /\ \A p \in objs : p.cr = o.cr => p = o
      /\ \A h \in Slots : hd[h].i \in Nat \ {0}
  BY DEF BasicInv, TypeOK, LoopTyped, Handler
<1>1. ASSUME NEW g \in Slots, hd'[g].id = hd[g].id, hd'[g].i = hd[g].i
      PROVE  Update(g)' = Update(g)
  BY <1>1 DEF Update
<1>2. CASE Quiet /\ LoopTyped' /\ hd' \in [Slots -> Handler] /\ HandlersKnown'
  <2>1. TodoListed' BY <1>0, <1>1, <1>2 DEF Quiet, TodoListed
  <2>2. ObjectsKnown' /\ ManualKept' BY <1>0, <1>2 DEF Quiet, ObjectsKnown, ManualKept
  <2>3. TypeOK' BY <1>0, <1>2 DEF Quiet, TypeOK, LoopTyped
  <2> QED BY <1>2, <2>1, <2>2, <2>3 DEF BasicInv
<1>3. ASSUME NEW h \in Slots, Acts(h) PROVE BasicInv'
  <2>0. Alive /\ Alive' /\ UNCHANGED <<phase, tsigKey>> /\ hd' \in [Slots -> Handler] /\ now' = now
    BY <1>3 DEF Acts, Alive, Fails, Advances, Lists, Erases, Same, Admit, HandleUpdateDone
  <2>1. LoopTyped' BY <1>0, <2>0 DEF LoopTyped
  <2>2. /\ \A o \in objs' : o.cr \in CRNames /\ \A p \in objs' : p.cr = o.cr => p = o
        /\ ObjectsKnown' /\ ManualKept'
    <3>1. CASE UNCHANGED objs BY <1>0, <3>1 DEF ObjectsKnown, ManualKept
    <3>2. CASE Fails(h) \/ Advances(h) \/ Erases(h)
      BY <3>2, ObjectsStep DEF Fails, Advances, Erases
    <3> QED BY <1>3, <3>1, <3>2 DEF Acts, Lists, Admit, HandleUpdateDone
  <2>3. owed' \in [Record -> {"in", "out", "any"}]
    <3>1. CASE owed' = owed BY <1>0, <3>1
    <3>2. CASE Admit(h) BY <1>0, <3>2 DEF Admit
    <3>3. CASE HandleUpdateDone(h)
      <4>1. hd[h].id \in DOMAIN Msg BY <1>0, <3>3 DEF HandleUpdateDone, HandlersKnown
      <4>2. \A r \in Record : Outcome[hd[h].id][r] \in {"in", "out"} BY <4>1 DEF Outcome
      <4> QED BY <1>0, <3>3, <4>2 DEF HandleUpdateDone
    <3> QED BY <1>3, <3>1, <3>2, <3>3 DEF Acts, Fails, Advances, Lists, Erases, Same
  <2>4. TypeOK' BY <2>0, <2>1, <2>2, <2>3 DEF TypeOK, LoopTyped
  <2>5. ASSUME NEW g \in Slots
        PROVE  /\ hd'[g].pc \in {"process", "update", "delete"} => hd'[g].id \in DOMAIN Msg
               /\ hd'[g].pc = "delete" => hd'[g].i <= Len(Msg[hd'[g].id].updates)
               /\ hd'[g].pc \notin {"update", "delete"} => hd'[g].i = 1
    <3>1. CASE hd'[g] = hd[g] BY <1>0, <3>1 DEF HandlersKnown
    <3>2. CASE Admit(h) BY <1>0, <3>2, AdmitHd DEF HandlersKnown
    <3>3. CASE g = h /\ Fails(h) BY <3>3 DEF Fails
    <3>4. CASE g = h /\ (Advances(h) \/ Lists(h) \/ Erases(h))
      BY <1>0, <3>4 DEF Advances, Lists, Erases, Same, Applying
    <3>5. CASE HandleUpdateDone(h)
      BY <1>0, <3>5, AnswerHd DEF HandleUpdateDone, HandlersKnown
    <3> QED BY <1>3, <3>1, <3>2, <3>3, <3>4, <3>5 DEF Acts, Fails, Advances, Lists, Erases, Same, Apart
  <2>6. HandlersKnown' BY <1>0, <2>0, <2>5 DEF HandlersKnown
  <2>7. ASSUME NEW g \in Slots, hd'[g].pc = "delete"
        PROVE  /\ Kind(Update(g)') \in {"deleteRRset", "deleteAllAtName"}
               /\ \A cr \in hd'[g].todo :
                     \E u \in Additions : cr = CR(u) /\ Deletes(Update(g)', RecordOf(u))
    <3>1. CASE hd'[g] = hd[g] BY <1>0, <1>1, <2>7, <3>1 DEF TodoListed
    <3>2. CASE Admit(h)
      <4>1. g # h BY <2>7, <3>2, AdmitHd
      <4>2. /\ hd'[g].pc = hd[g].pc /\ hd'[g].id = hd[g].id /\ hd'[g].i = hd[g].i
            /\ hd'[g].todo = hd[g].todo BY <3>2, <4>1, AdmitHd
      <4> QED BY <1>0, <1>1, <2>7, <4>2 DEF TodoListed
    <3>3. CASE g = h /\ Lists(h)
      BY <1>1, <2>7, <3>3 DEF Lists, Same
    <3>4. CASE g = h /\ Erases(h)
      BY <1>0, <1>1, <2>7, <3>4 DEF Erases, Same, TodoListed
    <3>5. CASE HandleUpdateDone(h) /\ g = h
      BY <1>0, <2>7, <3>5, AnswerHd DEF HandleUpdateDone
    <3>6. CASE g = h /\ (Fails(h) \/ Advances(h)) BY <2>7, <3>6 DEF Fails, Advances
    <3>7. CASE HandleUpdateDone(h) /\ g # h
      BY <1>0, <3>1, <3>7, AnswerHd DEF HandleUpdateDone
    <3> QED BY <1>3, <3>1, <3>2, <3>3, <3>4, <3>5, <3>6, <3>7
      DEF Acts, Fails, Advances, Lists, Erases, Same, Apart
  <2>8. TodoListed' BY <2>7 DEF TodoListed
  <2> QED BY <2>2, <2>4, <2>6, <2>8 DEF BasicInv
<1> QED BY <1>2, <1>3, QuietSteps, ActSteps

LEMMA BasicInit == Init => BasicInv
<1> SUFFICES ASSUME Init PROVE BasicInv
  OBVIOUS
<1>1. hd \in [Slots -> Handler] /\ \A h \in Slots : hd[h].pc = "idle" /\ hd[h].i = 1
  BY IdleTyped DEF Init
<1>2. TypeOK
  <2>1. 0 \in 0..MaxTime BY GatewayAssumption
  <2>2. \A o \in objs : o.cr \in CRNames /\ \A p \in objs : p.cr = o.cr => p = o
    BY GatewayAssumption DEF Init, CRNames
  <2>3. owed \in [Record -> {"in", "out", "any"}] BY DEF Init
  <2> QED BY <1>1, <2>1, <2>2, <2>3 DEF Init, TypeOK
<1>3. ObjectsKnown /\ ManualKept BY DEF Init, ObjectsKnown, ManualKept
<1>4. HandlersKnown BY <1>1 DEF Init, HandlersKnown
<1>5. TodoListed BY <1>1 DEF TodoListed
<1> QED BY <1>2, <1>3, <1>4, <1>5 DEF BasicInv

LEMMA BasicKept == Spec => []BasicInv
BY BasicInit, BasicStep, PTL DEF Spec

(* The state of the gateway stays well formed whatever is sent to it: every *)
(* answer carries a known rcode, an object name never holds two objects and *)
(* every goroutine works on a message that was sent.                        *)
THEOREM TypeCorrect == Spec => []TypeOK
<1>1. BasicInv => TypeOK BY DEF BasicInv
<1> QED BY <1>1, BasicKept, PTL

(* Objects of other sources are never replaced or deleted (the label        *)
(* selector of deleteRRset and deleteAllAtName, the prefix of CRName).      *)
THEOREM ForeignKept == Spec => []ManualKept
<1>1. BasicInv => ManualKept BY DEF BasicInv
<1> QED BY <1>1, BasicKept, PTL

-----------------------------------------------------------------------------
(* Only signed messages put records into the cluster.                      *)

LEMMA StepCases ==
  ASSUME BasicInv, [Next]_vars
  PROVE  Quiet \/ \E h \in Slots : Acts(h)
BY QuietSteps, ActSteps

(* The goroutines that make calls after a step made calls before it, with  *)
(* the same message, or were admitted by it.                               *)
LEMMA BusyStep ==
  ASSUME BasicInv, [Next]_vars, NEW g \in Busy'
  PROVE  g \in Slots /\ hd'[g].id \in DOMAIN Msg
         /\ \/ g \in Busy /\ hd'[g].id = hd[g].id
            \/ Admit(g) /\ hd'[g].id = hd[g].id
<1>0. g \in Slots /\ hd'[g].pc \in {"update", "delete"} BY DEF Busy
<1>1. hd'[g].id \in DOMAIN Msg
  <2>1. HandlersKnown' BY BasicStep DEF BasicInv
  <2> QED BY <1>0, <2>1 DEF HandlersKnown
<1>2. CASE hd'[g] = hd[g] BY <1>0, <1>1, <1>2 DEF Busy
<1>3. CASE Quiet BY <1>0, <1>2, <1>3 DEF Quiet
<1>4. ASSUME NEW h \in Slots, Acts(h), hd'[g] # hd[g]
      PROVE  \/ g \in Busy /\ hd'[g].id = hd[g].id
             \/ Admit(g) /\ hd'[g].id = hd[g].id
  <2>1. CASE Admit(h) BY <1>0, <2>1, AdmitHd
  <2>2. CASE HandleUpdateDone(h)
    <3>1. hd \in [Slots -> Handler] BY DEF BasicInv, TypeOK
    <3> QED BY <1>0, <1>4, <2>2, <3>1, AnswerHd DEF HandleUpdateDone
  <2>3. CASE Fails(h) BY <1>0, <1>4, <2>3 DEF Fails, Apart
  <2>4. CASE Advances(h) \/ Lists(h) \/ Erases(h)
    BY <1>0, <1>4, <2>4 DEF Advances, Lists, Erases, Same, Apart, Applying
  <2> QED BY <1>4, <2>1, <2>2, <2>3, <2>4 DEF Acts
<1> QED BY <1>0, <1>1, <1>2, <1>3, <1>4, StepCases

(* A record appears only through an update that adds it.                   *)
LEMMA Appears ==
  ASSUME BasicInv, [Next]_vars, NEW r \in Present' \ Present
  PROVE  \E h \in Busy : hd[h].id \in DOMAIN Msg /\ r \in Record /\ "in" \in Says(hd[h].id, r)
<1>0. ObjectsKnown /\ ObjectsKnown' BY BasicStep DEF BasicInv
<1>1. PICK u \in Additions : ObjectOf(u) \in objs' /\ RecordOf(u) = r
  BY <1>0, PresentFacts, PresentIs DEF ObjectsKnown
<1>2. ObjectOf(u) \notin objs BY <1>0, <1>1, PresentFacts, PresentIs DEF ObjectsKnown
<1>3. PICK h \in Slots : Acts(h) BY <1>1, <1>2, StepCases DEF Quiet
<1>4. Applying(h) /\ Writes(h)
  BY <1>1, <1>2, <1>3 DEF Acts, Fails, Advances, Lists, Erases, Admit, HandleUpdateDone,
                          Removes, Drops, Without
<1>5. ObjectOf(u) = ObjectOf(Update(h)) BY <1>1, <1>2, <1>4 DEF Writes, Without
<1>6. RecordOf(Update(h)) = r BY <1>1, <1>5, ObjectFacts
<1>7. Adds(Update(h), r) BY <1>4, <1>6 DEF Adds, Writes
<1>8. r \in Record BY <1>1, AdditionRecord
<1>9. hd[h].i \in Nat \ {0} BY DEF BasicInv, TypeOK, Handler
<1>10. hd[h].i \in Adding[hd[h].id][r] BY <1>4, <1>7, <1>8, <1>9, UpdateFacts DEF Applying
<1> QED BY <1>4, <1>8, <1>10, SaysFacts DEF Applying

LEMMA WindowNat ==
  ASSUME NEW i \in DOMAIN Msg, HasTSIG(Msg[i])
  PROVE  TSIG(Msg[i]).time \in Nat /\ Window(TSIG(Msg[i])) \in Nat
BY GatewayAssumption DEF Window

(* What Rejection lets through.                                            *)
LEMMA AdmitGenuine ==
  ASSUME BasicInv, NEW h \in Slots, Admit(h)
  PROVE  /\ Genuine(Msg[hd[h].id], now)
         /\ LET t == TSIG(Msg[hd[h].id]) IN now <= t.time + Window(t)
<1> DEFINE m == Msg[hd[h].id]
           t == TSIG(m)
<1>1. /\ m.parses /\ ValidateTSIG(m, tsigKey)
      /\ m.zones # <<>> => matchesZone(Head(m.zones))
  BY DEF Admit, Rejection
<1>2. /\ HasTSIG(m) /\ now <= t.time + Window(t)
      /\ ~(t.time > now /\ t.time - now > Window(t))
      /\ t.mac = [key |-> tsigKey, over |-> Covered(m, t)]
  BY <1>1 DEF ValidateTSIG, computeMAC
<1>3. tsigKey \in Keys BY DEF BasicInv, HandlersKnown, Admit, Alive
<1>4. hd[h].id \in DOMAIN Msg BY AdmitHd
<1>5. t.time \in Nat /\ Window(t) \in Nat BY <1>2, <1>4, WindowNat
<1>6. now \in Nat BY GatewayAssumption DEF BasicInv, TypeOK
<1>7. t.time <= now + Window(t) BY <1>2, <1>5, <1>6
<1> QED BY <1>1, <1>2, <1>3, <1>7 DEF Genuine

AuthenticInv == BasicInv /\ BusyGenuine /\ Authentic

LEMMA AuthenticStep == AuthenticInv /\ [Next]_vars => AuthenticInv'
<1> SUFFICES ASSUME AuthenticInv, [Next]_vars PROVE AuthenticInv'
  OBVIOUS
<1>0. BasicInv /\ BasicInv' BY BasicStep DEF AuthenticInv
<1>1. now \in Nat /\ now' \in Nat /\ now' >= now
  <2>1. now \in Nat /\ now' \in Nat BY <1>0, GatewayAssumption DEF BasicInv, TypeOK
  <2>2. now' >= now \/ now' = now
    BY <1>0, StepCases DEF Quiet, Acts, Fails, Advances, Lists, Erases, Same, Admit, HandleUpdateDone
  <2> QED BY <2>1, <2>2
<1>2. ASSUME NEW i \in DOMAIN Msg, Genuine(Msg[i], now) PROVE Genuine(Msg[i], now')
  <2> DEFINE m == Msg[i]
             t == TSIG(m)
  <2>1. HasTSIG(m) /\ t.time <= now + Window(t) BY <1>2 DEF Genuine
  <2>2. t.time \in Nat /\ Window(t) \in Nat BY <2>1, WindowNat
  <2>3. t.time <= now' + Window(t) BY <1>1, <2>1, <2>2
  <2> QED BY <1>2, <2>3 DEF Genuine
<1>3. ASSUME NEW g \in Busy' PROVE Genuine(Msg[hd'[g].id], now')
  <2>1. /\ g \in Slots /\ hd'[g].id \in DOMAIN Msg /\ hd'[g].id = hd[g].id
        /\ g \in Busy \/ Admit(g)
    BY <1>0, BusyStep
  <2>2. Genuine(Msg[hd[g].id], now) BY <1>0, <2>1, AdmitGenuine DEF AuthenticInv, BusyGenuine
  <2> QED BY <1>2, <2>1, <2>2
<1>4. BusyGenuine' BY <1>3 DEF BusyGenuine
<1>5. ASSUME NEW r \in Present'
      PROVE  \E i \in DOMAIN Msg : "in" \in Says(i, r) /\ Genuine(Msg[i], now)
  <2>1. CASE r \in Present BY <2>1 DEF AuthenticInv, Authentic, Genuine
  <2>2. CASE r \notin Present
    BY <1>0, <2>2, Appears DEF AuthenticInv, BusyGenuine
  <2> QED BY <2>1, <2>2
<1>6. Authentic'
  <2>1. ASSUME NEW r \in Present'
        PROVE  \E i \in DOMAIN Msg : "in" \in Says(i, r) /\ Genuine(Msg[i], now')
    BY <1>2, <1>5
  <2> QED BY <2>1 DEF Authentic, Genuine
<1> QED BY <1>0, <1>4, <1>6 DEF AuthenticInv

(* Every record in the cluster that the gateway put there was added by a    *)
(* message that parses, is for our zone, carries a MAC of a key of the      *)
(* Secret over all of it and whose window had opened (processMessage,       *)
(* ValidateTSIG), across restarts, failing calls and other messages.        *)
THEOREM OnlySigned == Spec => []Authentic
<1>1. Init => AuthenticInv
  <2> SUFFICES ASSUME Init PROVE AuthenticInv
    OBVIOUS
  <2>1. Busy = {} BY IdleTyped DEF Init, Busy
  <2>2. Present = {} BY GatewayAssumption DEF Init, Present
  <2> QED BY <2>1, <2>2, BasicInit DEF AuthenticInv, BusyGenuine, Authentic
<1>2. AuthenticInv => Authentic BY DEF AuthenticInv
<1> QED BY <1>1, <1>2, AuthenticStep, PTL DEF Spec

(* A message delivered again after its window never brings back a record    *)
(* that is gone: nothing that is not there and not being added becomes so   *)
(* once every message that adds it is too old (ValidateTSIG).               *)
THEOREM GoneForGood == Spec => StaysGone
<1>1. ASSUME BasicInv, [Next]_vars, NEW r \in Revivable' \ Revivable PROVE ~Expired(r)
  <2>1. r \notin Present' 
    <3>1. ASSUME r \in Present' PROVE FALSE
      BY <1>1, <3>1, Appears DEF Revivable
    <3> QED BY <3>1
  <2>2. PICK g \in Busy' : r \in Record /\ "in" \in Says(hd'[g].id, r) BY <1>1, <2>1 DEF Revivable
  <2>3. /\ g \in Slots /\ hd'[g].id \in DOMAIN Msg /\ hd'[g].id = hd[g].id /\ (g \in Busy \/ Admit(g))
    BY <1>1, BusyStep
  <2>4. Admit(g) BY <1>1, <2>2, <2>3 DEF Revivable
  <2> DEFINE i == hd[g].id
  <2>5. HasTSIG(Msg[i]) /\ now <= TSIG(Msg[i]).time + Window(TSIG(Msg[i]))
    BY <1>1, <2>3, <2>4, AdmitGenuine DEF Genuine
  <2>6. i \in Adders[r] BY <2>2, <2>3, <2>5 DEF Adders
  <2>7. TSIG(Msg[i]).time \in Nat /\ Window(TSIG(Msg[i])) \in Nat BY <2>3, <2>5, WindowNat
  <2>8. now \in Nat BY <1>1, GatewayAssumption DEF BasicInv, TypeOK
  <2>9. ~(now > TSIG(Msg[i]).time + Window(TSIG(Msg[i]))) BY <2>5, <2>7, <2>8
  <2> QED BY <2>6, <2>9 DEF Expired
<1>2. BasicInv /\ [Next]_vars => [\A r \in Revivable' \ Revivable : ~Expired(r)]_vars
  BY <1>1
<1> QED BY <1>2, BasicKept, PTL DEF Spec, StaysGone

-----------------------------------------------------------------------------
(* What was acknowledged holds, when no two records share an object name.  *)

(* What a call does to the records in the cluster.                         *)
LEMMA CallEffect ==
  ASSUME BasicInv, BasicInv', NoCollision,
         NEW v \in Updates, Kind(v) \in {"addRR", "deleteRR"}, NEW r
  PROVE  /\ objs' = Without(CR(v)) => (r \in Present' <=> r \in Present /\ r # RecordOf(v))
         /\ objs' = Without(CR(v)) \cup {ObjectOf(v)} /\ v \in Additions
               => (r \in Present' <=> r \in Present \/ r = RecordOf(v))
<1>1. /\ r \in Present <=> \E u \in Additions : ObjectOf(u) \in objs /\ RecordOf(u) = r
      /\ r \in Present' <=> \E u \in Additions : ObjectOf(u) \in objs' /\ RecordOf(u) = r
  <2>1. objs \in SUBSET (Manual \cup {ObjectOf(u) : u \in Additions})
        /\ objs' \in SUBSET (Manual \cup {ObjectOf(u) : u \in Additions})
    BY DEF BasicInv, ObjectsKnown
  <2> QED BY <2>1, PresentFacts, PresentIs
<1>2. ASSUME NEW u \in Additions
      PROVE  /\ ObjectOf(u).cr = CR(v) <=> RecordOf(u) = RecordOf(v)
             /\ ObjectOf(u) \in Without(CR(v)) <=> ObjectOf(u) \in objs /\ RecordOf(u) # RecordOf(v)
  <2>1. ObjectOf(u).cr = CR(u) BY ObjectFacts
  <2>2. CR(u) = CR(v) <=> RecordOf(u) = RecordOf(v) BY SameName DEF NoCollision, Additions
  <2> QED BY <2>1, <2>2 DEF Without
<1>3. ASSUME objs' = Without(CR(v))
      PROVE  r \in Present' <=> r \in Present /\ r # RecordOf(v)
  BY <1>1, <1>2, <1>3
<1>4. ASSUME objs' = Without(CR(v)) \cup {ObjectOf(v)}, v \in Additions
      PROVE  r \in Present' <=> r \in Present \/ r = RecordOf(v)
  <2>1. ASSUME NEW u \in Additions, ObjectOf(u) = ObjectOf(v) PROVE RecordOf(u) = RecordOf(v)
    BY <2>1, ObjectFacts
  <2> QED BY <1>1, <1>2, <1>4, <2>1
<1> QED BY <1>3, <1>4

(* A step of a goroutine changes a record only as its current update says. *)
LEMMA RecordStep ==
  ASSUME BasicInv, BasicInv', NoCollision, NEW h \in Slots, Applying(h),
         \/ UNCHANGED objs \/ Writes(h) \/ Removes(h) \/ \E cr \in hd[h].todo : Drops(h, cr),
         NEW r
  PROVE  \/ r \in Present' <=> r \in Present
         \/ r \in Present' /\ Adds(Update(h), r)
         \/ r \notin Present' /\ Deletes(Update(h), r)
<1>0. TodoListed /\ hd[h].i \in Nat \ {0} BY DEF BasicInv, TypeOK, Handler
<1>1. Update(h) \in Updates BY <1>0, UpdateFacts DEF Applying
<1>2. CASE UNCHANGED objs BY <1>2, PresentIs
<1>3. CASE Writes(h)
  <2>1. Update(h) \in Additions BY <1>1, <1>3 DEF Writes, Additions
  <2>2. r \in Present' <=> r \in Present \/ r = RecordOf(Update(h))
    BY <1>1, <1>3, <2>1, CallEffect DEF Writes
  <2> QED BY <1>3, <2>2 DEF Writes, Adds
<1>4. CASE Removes(h)
  <2>1. r \in Present' <=> r \in Present /\ r # RecordOf(Update(h))
    BY <1>1, <1>4, CallEffect DEF Removes
  <2> QED BY <1>4, <2>1 DEF Removes, Deletes
<1>5. ASSUME NEW cr \in hd[h].todo, Drops(h, cr)
      PROVE  \/ r \in Present' <=> r \in Present
             \/ r \notin Present' /\ Deletes(Update(h), r)
  <2>1. PICK u \in Additions : cr = CR(u) /\ Deletes(Update(h), RecordOf(u))
    BY <1>0, <1>5 DEF TodoListed, Drops
  <2>2. u \in Updates /\ Kind(u) = "addRR" BY <2>1 DEF Additions
  <2>3. r \in Present' <=> r \in Present /\ r # RecordOf(u)
    BY <1>5, <2>1, <2>2, CallEffect DEF Drops
  <2> QED BY <2>1, <2>3
<1> QED BY <1>2, <1>3, <1>4, <1>5

(* An update has one kind.                                                 *)
LEMMA OneEffect ==
  ASSUME NEW u, NEW r
  PROVE  /\ ~(Adds(u, r) /\ Deletes(u, r))
         /\ Kind(u) = "skip" => ~Adds(u, r) /\ ~Deletes(u, r)
         /\ Kind(u) = "addRR" => ~Deletes(u, r)
         /\ Kind(u) # "addRR" => ~Adds(u, r)
         /\ Kind(u) = "deleteRR" /\ Deletes(u, r) => r = RecordOf(u)
BY DEF Adds, Deletes

(* Messages that do not dispute a record say the same of it or one says    *)
(* nothing.                                                                *)
LEMMA Undisputed ==
  ASSUME NEW i \in DOMAIN Msg, NEW k \in DOMAIN Msg, NEW r \in Record
  PROVE  /\ Disputed[i][k] = Disputed[k][i]
         /\ r \notin Disputed[i][k] /\ "in" \in Says(k, r) => Says(i, r) \subseteq {"in"}
         /\ r \notin Disputed[i][k] /\ "out" \in Says(k, r) => Says(i, r) \subseteq {"out"}
<1>1. Disputed[i][k] = {q \in Record : /\ Says(i, q) # {} /\ Says(k, q) # {}
                                       /\ Says(i, q) \cup Says(k, q) = {"in", "out"}}
  BY DEF Disputed
<1>2. Disputed[k][i] = {q \in Record : /\ Says(k, q) # {} /\ Says(i, q) # {}
                                       /\ Says(k, q) \cup Says(i, q) = {"in", "out"}}
  BY DEF Disputed
<1>3. Says(i, r) \subseteq {"in", "out"} /\ Says(k, r) \subseteq {"in", "out"} BY SaysFacts
<1>4. \A q : Says(i, q) \cup Says(k, q) = Says(k, q) \cup Says(i, q) OBVIOUS
<1>5. Disputed[i][k] = Disputed[k][i] BY <1>1, <1>2, <1>4
<1>6. r \notin Disputed[i][k] => Says(i, r) = {} \/ Says(k, r) = {} \/ Says(i, r) \cup Says(k, r) # {"in", "out"}
  BY <1>1
<1>7. ASSUME r \notin Disputed[i][k], "in" \in Says(k, r) PROVE Says(i, r) \subseteq {"in"}
  BY <1>3, <1>6, <1>7
<1>8. ASSUME r \notin Disputed[i][k], "out" \in Says(k, r) PROVE Says(i, r) \subseteq {"out"}
  BY <1>3, <1>6, <1>8
<1> QED BY <1>5, <1>7, <1>8

SettledInv == BasicInv /\ OwedAgreed /\ ClashKnown /\ Progress /\ Settled

(* Goroutines that another one's step does not move keep their progress.   *)
LEMMA BystanderApplied ==
  ASSUME NEW g \in Handler, NEW f \in Handler, g.id \in DOMAIN Msg,
         f.pc = g.pc, f.id = g.id, f.i = g.i, f.todo = g.todo,
         g.pc = "delete" => g.i \in DOMAIN Msg[g.id].updates,
         NEW P, NEW Q, NEW r \in Record, Applied(g, P, r),
         \/ r \in Q <=> r \in P
         \/ r \in Q /\ Says(g.id, r) \subseteq {"in"}
         \/ r \notin Q /\ Says(g.id, r) \subseteq {"out"}
  PROVE  Applied(f, Q, r)
<1> DEFINE A == Adding[g.id][r]
           D == Deleting[g.id][r]
<1>1. /\ "in" \in Says(g.id, r) <=> A # {}
      /\ "out" \in Says(g.id, r) <=> D # {}
  BY SaysFacts
<1>2. /\ Before(f, A) = Before(g, A) /\ Before(f, D) = Before(g, D)
      /\ Adding[f.id][r] = A /\ Deleting[f.id][r] = D
      /\ AddedLast(f, r) <=> AddedLast(g, r)
      /\ DeletingNow(f, r) <=> DeletingNow(g, r)
  BY DEF Before, AddedLast, DeletingNow
<1>3. CASE r \in Q <=> r \in P
  BY <1>2, <1>3 DEF Applied
<1>4. DeletingNow(g, r) => g.i \in D
  BY DEF DeletingNow, Deleting
<1>5. CASE r \in Q /\ Says(g.id, r) \subseteq {"in"}
  <2>1. D = {} BY <1>1, <1>5
  <2>2. Before(g, A) # {} => AddedLast(g, r) BY <2>1 DEF Before, AddedLast
  <2>3. Before(g, D) = {} BY <2>1 DEF Before
  <2> QED BY <1>2, <1>4, <1>5, <2>1, <2>2, <2>3 DEF Applied
<1>6. CASE r \notin Q /\ Says(g.id, r) \subseteq {"out"}
  <2>1. A = {} BY <1>1, <1>6
  <2>2. ~AddedLast(g, r) BY <2>1 DEF Before, AddedLast
  <2> QED BY <1>2, <1>6, <2>2 DEF Applied
<1> QED BY <1>3, <1>5, <1>6

(* The goroutine itself goes on to its next update.                        *)
LEMMA AdvanceApplied ==
  ASSUME BasicInv, BasicInv', NoCollision, NEW h \in Slots, Advances(h),
         NEW r \in Record, Applied(hd[h], Present, r)
  PROVE  Applied(hd'[h], Present', r)
<1> DEFINE g == hd[h]
           f == hd'[h]
           A == Adding[g.id][r]
           D == Deleting[g.id][r]
           u == Update(h)
<1>0. /\ g \in Handler /\ f \in Handler /\ g.i \in Nat \ {0} /\ g.id \in DOMAIN Msg
      /\ f.id = g.id /\ f.i = g.i + 1 /\ f.pc = "update" /\ ObjectsKnown
  BY DEF BasicInv, TypeOK, Handler, Advances, Same, Applying
<1>1. /\ u \in Updates
      /\ Adds(u, r) <=> g.i \in A
      /\ Deletes(u, r) <=> g.i \in D
  BY <1>0, UpdateFacts DEF Advances, Applying
<1>2. A \subseteq Nat /\ D \subseteq Nat
  <2>1. Msg[g.id].updates \in Seq(Updates) BY <1>0, GatewayAssumption
  <2>2. DOMAIN Msg[g.id].updates \subseteq Nat BY <2>1, LenProperties
  <2> QED BY <1>0, <2>2 DEF Adding, Deleting
<1>3. /\ \A j \in A : j < f.i <=> (j < g.i \/ j = g.i)
      /\ \A j \in D : j < f.i <=> (j < g.i \/ j = g.i)
  BY <1>0, <1>2
<1>4. ~DeletingNow(f, r) BY <1>0 DEF DeletingNow
<1>5. DeletingNow(g, r) <=> g.pc = "delete" /\ Deletes(u, r) BY DEF DeletingNow, Update
<1>6. SUFFICES \/ r \in Present' <=> AddedLast(f, r)
               \/ Before(f, A) \cup Before(f, D) = {}
  BY <1>0, <1>4 DEF Applied
<1>7. CASE Adds(u, r)
  <2>1. g.i \in A /\ g.i \notin D BY <1>1, <1>7, OneEffect
  <2>2. g.i \in Before(f, A) BY <1>3, <2>1 DEF Before
  <2>3. \A k \in Before(f, D) : k < g.i BY <1>3, <2>1 DEF Before
  <2>4. AddedLast(f, r) BY <1>0, <2>2, <2>3 DEF AddedLast
  <2>5. Kind(u) = "addRR" /\ r = RecordOf(u) BY <1>7 DEF Adds
  <2>6. Writes(h)
    <3>1. g.pc # "delete" BY <2>5 DEF BasicInv, TodoListed
    <3> QED BY <2>5, <3>1 DEF Advances, Writes, Removes
  <2>7. u \in Additions BY <1>1, <2>5 DEF Additions
  <2>8. r \in Present' BY <1>1, <2>5, <2>6, <2>7, CallEffect DEF Writes
  <2> QED BY <2>4, <2>8
<1>8. CASE Deletes(u, r)
  <2>1. g.i \in D /\ g.i \notin A BY <1>1, <1>8, OneEffect
  <2>2. g.i \in Before(f, D) BY <1>3, <2>1 DEF Before
  <2>3. \A j \in Before(f, A) : j < g.i /\ j \in Nat BY <1>2, <1>3, <2>1 DEF Before
  <2>4. \A j \in Before(f, A) : ~(g.i < j) BY <1>0, <2>3
  <2>5. ~AddedLast(f, r) BY <1>0, <2>2, <2>4 DEF AddedLast
  <2>6. ~Writes(h) /\ Kind(u) # "skip" BY <1>8, OneEffect DEF Writes
  <2>7. CASE Removes(h)
    <3>1. Kind(u) = "deleteRR" /\ r = RecordOf(u) BY <1>8, <2>7, OneEffect DEF Removes
    <3>2. r \notin Present' BY <1>1, <2>7, <3>1, CallEffect DEF Removes
    <3> QED BY <2>5, <3>2
  <2>8. CASE UNCHANGED objs /\ g.pc = "delete" /\ g.todo = {}
    <3>1. r \in Present => \A v \in Additions : RecordOf(v) # r
      BY <1>5, <1>8, <2>8 DEF Applied
    <3>2. r \notin Present
      <4>1. objs \in SUBSET (Manual \cup {ObjectOf(v) : v \in Additions}) BY <1>0 DEF ObjectsKnown
      <4> QED BY <3>1, <4>1, PresentFacts, PresentIs
    <3> QED BY <2>5, <2>8, <3>2, PresentIs
  <2> QED BY <2>6, <2>7, <2>8 DEF Advances
<1>9. CASE ~Adds(u, r) /\ ~Deletes(u, r)
  <2>1. Before(f, A) = Before(g, A) /\ Before(f, D) = Before(g, D) BY <1>1, <1>3, <1>9 DEF Before
  <2>2. AddedLast(f, r) <=> AddedLast(g, r) BY <1>0, <2>1 DEF AddedLast
  <2>3. r \in Present' <=> r \in Present
    BY <1>9, RecordStep DEF Advances
  <2>4. Before(g, A) \cup Before(g, D) # {} => (r \in Present <=> AddedLast(g, r))
    BY <1>5, <1>9 DEF Applied
  <2> QED BY <2>1, <2>2, <2>3, <2>4
<1> QED BY <1>7, <1>8, <1>9

(* It lists what its update deletes, and deletes one after the other.      *)
LEMMA DeleteApplied ==
  ASSUME BasicInv, BasicInv', NoCollision, NEW h \in Slots, Lists(h) \/ Erases(h),
         NEW r \in Record, Applied(hd[h], Present, r)
  PROVE  Applied(hd'[h], Present', r)
<1> DEFINE g == hd[h]
           f == hd'[h]
           A == Adding[g.id][r]
           D == Deleting[g.id][r]
           u == Update(h)
<1>0. f.id = g.id /\ f.i = g.i /\ f.pc = "delete" /\ ObjectsKnown /\ TodoListed
  BY DEF BasicInv, Lists, Erases, Same
<1>1. DeletingNow(f, r) <=> Deletes(u, r) BY <1>0 DEF DeletingNow, Update
<1>2. CASE ~Deletes(u, r)
  <2>1. ~Adds(u, r) \/ UNCHANGED objs \/ g.pc = "delete" BY DEF Lists, Erases
  <2>2. r \in Present' <=> r \in Present
    <3>1. CASE Lists(h) BY <3>1, PresentIs DEF Lists
    <3>2. CASE Erases(h)
      <4>1. PICK cr \in g.todo : Drops(h, cr) BY <3>2 DEF Erases
      <4>2. PICK v \in Additions : cr = CR(v) /\ Deletes(u, RecordOf(v))
        BY <1>0, <4>1 DEF TodoListed, Drops
      <4>3. v \in Updates /\ Kind(v) = "addRR" BY DEF Additions
      <4>4. r \in Present' <=> r \in Present /\ r # RecordOf(v) BY <4>1, <4>2, <4>3, CallEffect DEF Drops
      <4> QED BY <1>2, <4>2, <4>4
    <3> QED BY <3>1, <3>2
  <2>3. /\ Before(f, A) = Before(g, A) /\ Before(f, D) = Before(g, D)
        /\ AddedLast(f, r) <=> AddedLast(g, r)
    BY <1>0 DEF Before, AddedLast
  <2>4. ~DeletingNow(g, r) BY <1>2 DEF DeletingNow, Update
  <2> QED BY <1>0, <1>1, <1>2, <2>2, <2>3, <2>4 DEF Applied
<1>3. CASE Deletes(u, r) /\ Lists(h)
  <2>1. ASSUME r \in Present', NEW v \in Additions, RecordOf(v) = r PROVE CR(v) \in f.todo
    <3>1. r \in Present BY <1>3, <2>1, PresentIs DEF Lists
    <3>2. PICK w \in Additions : ObjectOf(w) \in objs /\ RecordOf(w) = r
      <4>1. objs \in SUBSET (Manual \cup {ObjectOf(w) : w \in Additions}) BY <1>0 DEF ObjectsKnown
      <4> QED BY <3>1, <4>1, PresentFacts, PresentIs
    <3>3. CR(w) \in f.todo BY <1>3, <3>2 DEF Lists
    <3> QED BY <2>1, <3>2, <3>3, SameName
  <2> QED BY <1>1, <1>3, <2>1 DEF Applied
<1>4. CASE Deletes(u, r) /\ Erases(h)
  <2>1. PICK cr \in g.todo : Drops(h, cr) /\ f.todo = g.todo \ {cr} BY <1>4 DEF Erases
  <2>2. PICK v \in Additions : cr = CR(v) BY <1>0, <2>1 DEF TodoListed, Drops
  <2>3. v \in Updates /\ Kind(v) = "addRR" BY DEF Additions
  <2>4. r \in Present' <=> r \in Present /\ r # RecordOf(v) BY <2>1, <2>2, <2>3, CallEffect DEF Drops
  <2>5. DeletingNow(g, r) BY <1>4 DEF DeletingNow, Update, Erases
  <2>6. ASSUME r \in Present', NEW w \in Additions, RecordOf(w) = r PROVE CR(w) \in f.todo
    <3>1. CR(w) \in g.todo BY <2>4, <2>5, <2>6 DEF Applied
    <3>2. CR(w) # cr
      <4>1. w \in Updates /\ Kind(w) = "addRR" BY DEF Additions
      <4> QED BY <2>2, <2>3, <2>4, <2>6, <4>1 DEF NoCollision
    <3> QED BY <2>1, <3>1, <3>2
  <2> QED BY <1>1, <1>4, <2>6 DEF Applied
<1> QED BY <1>2, <1>3, <1>4

(* When all updates are done, their outcome is there.                      *)
LEMMA DoneApplied ==
  ASSUME BasicInv, NEW h \in Slots, HandleUpdateDone(h), NEW r \in Record,
         Applied(hd[h], Present, r), Says(hd[h].id, r) # {}
  PROVE  /\ r \in Present <=> Outcome[hd[h].id][r] = "in"
         /\ Outcome[hd[h].id][r] \in {"in", "out"}
         /\ Says(hd[h].id, r) \subseteq {"in"} => Outcome[hd[h].id][r] = "in"
         /\ Says(hd[h].id, r) \subseteq {"out"} => Outcome[hd[h].id][r] = "out"
<1> DEFINE g == hd[h]
           A == Adding[g.id][r]
           D == Deleting[g.id][r]
<1>0. /\ g.i \in Nat /\ g.id \in DOMAIN Msg /\ g.pc = "update"
      /\ g.i > Len(Msg[g.id].updates)
  BY DEF BasicInv, TypeOK, Handler, HandlersKnown, HandleUpdateDone
<1>1. \A j \in DOMAIN Msg[g.id].updates : j < g.i
  <2>1. Msg[g.id].updates \in Seq(Updates) BY <1>0, GatewayAssumption
  <2>2. DOMAIN Msg[g.id].updates = 1..Len(Msg[g.id].updates) /\ Len(Msg[g.id].updates) \in Nat
    BY <2>1, LenProperties
  <2> QED BY <1>0, <2>2
<1>2. A \subseteq DOMAIN Msg[g.id].updates /\ D \subseteq DOMAIN Msg[g.id].updates
  BY <1>0 DEF Adding, Deleting
<1>3. Before(g, A) = A /\ Before(g, D) = D BY <1>1, <1>2 DEF Before
<1>4. /\ Says(g.id, r) \subseteq {"in", "out"}
      /\ "in" \in Says(g.id, r) <=> A # {}
      /\ "out" \in Says(g.id, r) <=> D # {}
  BY <1>0, SaysFacts
<1>5. r \in Present <=> AddedLast(g, r)
  <2>1. ~DeletingNow(g, r) BY <1>0 DEF DeletingNow
  <2>2. A \cup D # {} BY <1>4
  <2> QED BY <1>3, <2>1, <2>2 DEF Applied
<1>6. AddedLast(g, r) <=> \E j \in A : \A k \in D : k < j BY <1>3 DEF AddedLast
<1>7. Outcome[g.id][r] = IF \E j \in A : \A k \in D : k < j THEN "in" ELSE "out"
  BY <1>0 DEF Outcome
<1> QED BY <1>4, <1>5, <1>6, <1>7

(* What a step of goroutine h leaves of another one that makes calls.      *)
LEMMA Bystander ==
  ASSUME BasicInv, NEW h \in Slots, Acts(h), NEW g \in Busy' \ {h}
  PROVE  /\ g \in Busy /\ hd'[g].pc = hd[g].pc /\ hd'[g].id = hd[g].id /\ hd'[g].i = hd[g].i
         /\ hd'[g].todo = hd[g].todo /\ hd[g].clash \subseteq hd'[g].clash
         /\ hd[g] \in Handler /\ hd'[g] \in Handler /\ hd[g].id \in DOMAIN Msg
         /\ hd[g].pc = "delete" => hd[g].i \in DOMAIN Msg[hd[g].id].updates
<1>0. /\ g \in Slots /\ g # h /\ hd'[g].pc \in {"update", "delete"}
      /\ hd \in [Slots -> Handler] /\ hd' \in [Slots -> Handler] /\ HandlersKnown
  BY DEF Busy, BasicInv, TypeOK, Acts
<1>1. /\ hd'[g].pc = hd[g].pc /\ hd'[g].id = hd[g].id /\ hd'[g].i = hd[g].i
      /\ hd'[g].todo = hd[g].todo /\ hd[g].clash \subseteq hd'[g].clash
  <2>1. CASE Admit(h) BY <1>0, <2>1, AdmitHd
  <2>2. CASE HandleUpdateDone(h)
    <3>1. hd'[g] = hd[g] BY <1>0, <2>2, AnswerHd DEF HandleUpdateDone
    <3> QED BY <3>1
  <2>3. CASE Fails(h) \/ Advances(h) \/ Lists(h) \/ Erases(h)
    <3>1. hd'[g] = hd[g] BY <1>0, <2>3 DEF Fails, Advances, Lists, Erases, Same, Apart
    <3> QED BY <3>1
  <2> QED BY <2>1, <2>2, <2>3 DEF Acts
<1>2. g \in Busy /\ hd[g].id \in DOMAIN Msg BY <1>0, <1>1 DEF Busy, HandlersKnown
<1>3. hd[g].i \in Nat \ {0} /\ hd[g] \in Handler /\ hd'[g] \in Handler
  BY <1>0 DEF Handler
<1>4. ASSUME hd[g].pc = "delete" PROVE hd[g].i \in DOMAIN Msg[hd[g].id].updates
  BY <1>0, <1>2, <1>3, <1>4, UpdateFacts DEF HandlersKnown
<1> QED BY <1>1, <1>2, <1>3, <1>4

LEMMA SettledStep == NoCollision /\ SettledInv /\ [Next]_vars => SettledInv'
<1> SUFFICES ASSUME NoCollision, SettledInv, [Next]_vars PROVE SettledInv'
  OBVIOUS
<1>0. BasicInv /\ BasicInv' /\ OwedAgreed /\ ClashKnown /\ Progress /\ Settled
  BY BasicStep DEF SettledInv
<1>1. CASE Quiet
  <2>1. \A g \in Busy' : g \in Busy /\ hd'[g] = hd[g] BY <1>1 DEF Quiet, Busy
  <2>2. Present' = Present /\ owed' = owed BY <1>1, PresentIs DEF Quiet
  <2>3. OwedAgreed' BY <1>0, <2>1, <2>2 DEF OwedAgreed
  <2>4. ClashKnown' BY <1>0, <2>1 DEF ClashKnown
  <2>5. Progress' BY <1>0, <2>1, <2>2 DEF Progress
  <2>6. Settled' BY <1>0, <2>2 DEF Settled
  <2> QED BY <1>0, <2>3, <2>4, <2>5, <2>6 DEF SettledInv
<1>2. ASSUME NEW h \in Slots, Acts(h) PROVE SettledInv'
  <2> DEFINE id == hd[h].id
  <2>0. hd \in [Slots -> Handler] /\ hd[h].i \in Nat \ {0} BY <1>0 DEF BasicInv, TypeOK, Handler
  <2>1. id \in DOMAIN Msg
    <3>1. CASE Admit(h) BY <1>0, <3>1, AdmitHd
    <3>2. CASE HandleUpdateDone(h) BY <1>0, <3>2 DEF HandleUpdateDone, BasicInv, HandlersKnown
    <3> QED BY <1>2, <3>1, <3>2 DEF Acts, Fails, Advances, Lists, Erases, Applying
  <2>2. ASSUME NEW r \in Record
        PROVE  \/ r \in Present' <=> r \in Present
               \/ h \in Busy /\ r \in Present' /\ "in" \in Says(id, r)
               \/ h \in Busy /\ r \notin Present' /\ "out" \in Says(id, r)
    <3>1. CASE UNCHANGED objs BY <3>1, PresentIs
    <3>2. CASE Fails(h) \/ Advances(h) \/ Erases(h)
      <4>1. Applying(h) BY <3>2 DEF Fails, Advances, Erases
      <4>2. /\ Adds(Update(h), r) => "in" \in Says(id, r)
            /\ Deletes(Update(h), r) => "out" \in Says(id, r)
        BY <2>0, <2>1, <4>1, UpdateFacts, SaysFacts DEF Applying
      <4>3. \/ r \in Present' <=> r \in Present
            \/ r \in Present' /\ Adds(Update(h), r)
            \/ r \notin Present' /\ Deletes(Update(h), r)
        BY <1>0, <3>2, <4>1, RecordStep DEF Fails, Advances, Erases
      <4> QED BY <4>1, <4>2, <4>3 DEF Applying
    <3> QED BY <1>2, <3>1, <3>2 DEF Acts, Lists, Admit, HandleUpdateDone
  <2>3. ASSUME NEW g \in Busy' \ {h}, NEW r \in Record \ hd'[g].clash
        PROVE  Applied(hd'[g], Present', r)
    <3>1. /\ g \in Busy /\ hd'[g].pc = hd[g].pc /\ hd'[g].id = hd[g].id /\ hd'[g].i = hd[g].i
          /\ hd'[g].todo = hd[g].todo /\ hd[g].clash \subseteq hd'[g].clash
          /\ hd[g] \in Handler /\ hd'[g] \in Handler /\ hd[g].id \in DOMAIN Msg
          /\ hd[g].pc = "delete" => hd[g].i \in DOMAIN Msg[hd[g].id].updates
      BY <1>0, <1>2, Bystander
    <3>2. Applied(hd[g], Present, r) BY <1>0, <3>1 DEF Progress
    <3>3. h \in Busy => r \notin Disputed[hd[g].id][id]
      BY <1>0, <3>1 DEF ClashKnown
    <3>4. \/ r \in Present' <=> r \in Present
          \/ r \in Present' /\ Says(hd[g].id, r) \subseteq {"in"}
          \/ r \notin Present' /\ Says(hd[g].id, r) \subseteq {"out"}
      BY <2>1, <2>2, <3>1, <3>3, Undisputed
    <3> QED BY <3>1, <3>2, <3>4, BystanderApplied
  <2>4. ASSUME h \in Busy', NEW r \in Record \ hd'[h].clash PROVE Applied(hd'[h], Present', r)
    <3>1. CASE Admit(h)
      <4>1. hd'[h].pc = "update" /\ hd'[h].i = 1 /\ hd'[h].id = id BY <1>0, <3>1, AdmitHd
      <4>2. Adding[id][r] \subseteq Nat \ {0} /\ Deleting[id][r] \subseteq Nat \ {0}
        <5>1. Msg[id].updates \in Seq(Updates) BY <2>1, GatewayAssumption
        <5>2. DOMAIN Msg[id].updates \subseteq Nat \ {0} BY <5>1, LenProperties
        <5> QED BY <2>1, <5>2 DEF Adding, Deleting
      <4>3. Before(hd'[h], Adding[id][r]) = {} /\ Before(hd'[h], Deleting[id][r]) = {}
        BY <4>1, <4>2 DEF Before
      <4> QED BY <4>1, <4>3 DEF Applied, DeletingNow
    <3>2. CASE Fails(h) \/ HandleUpdateDone(h)
      BY <2>0, <2>4, <3>2, AnswerHd DEF Fails, HandleUpdateDone, Busy
    <3>3. CASE Advances(h) \/ Lists(h) \/ Erases(h)
      <4>1. h \in Busy /\ hd'[h].clash = hd[h].clash
        BY <3>3 DEF Advances, Lists, Erases, Same, Applying
      <4>2. Applied(hd[h], Present, r) BY <1>0, <4>1 DEF Progress
      <4> QED BY <1>0, <3>3, <4>2, AdvanceApplied, DeleteApplied
    <3> QED BY <1>2, <3>1, <3>2, <3>3 DEF Acts
  <2>5. Progress' BY <2>3, <2>4 DEF Progress
  <2>6. ClashKnown'
    <3> SUFFICES ASSUME NEW g \in Busy', NEW f \in Busy', g # f
                 PROVE  Disputed[hd'[g].id][hd'[f].id] \subseteq hd'[g].clash
      BY DEF ClashKnown
    <3>1. CASE g # h /\ f # h
      BY <1>0, <1>2, <3>1, Bystander DEF ClashKnown
    <3>2. CASE Admit(h) /\ g = h
      <4>1. f \in Busy /\ hd'[f].id = hd[f].id BY <1>0, <1>2, <3>2, Bystander
      <4> QED BY <1>0, <3>2, <4>1, AdmitHd
    <3>3. CASE Admit(h) /\ f = h
      <4>1. g \in Busy /\ hd'[g].id = hd[g].id /\ hd[g].id \in DOMAIN Msg /\ g \in Slots \ {h}
        BY <1>0, <1>2, <3>3, Bystander DEF Busy
      <4>2. Disputed[id][hd[g].id] \subseteq hd'[g].clash /\ hd'[h].id = id
        BY <1>0, <3>3, <4>1, AdmitHd
      <4>3. Disputed[id][hd[g].id] = Disputed[hd[g].id][id]
        <5>1. CASE Record = {} BY <2>1, <4>1, <5>1 DEF Disputed
        <5>2. CASE Record # {} BY <2>1, <4>1, <5>2, Undisputed
        <5> QED BY <5>1, <5>2
      <4> QED BY <3>3, <4>1, <4>2, <4>3
    <3>4. CASE ~Admit(h) /\ (g = h \/ f = h)
      <4>1. Advances(h) \/ Lists(h) \/ Erases(h)
        BY <1>2, <2>0, <3>4, AnswerHd DEF Acts, Fails, HandleUpdateDone, Busy
      <4>2. h \in Busy /\ hd'[h].clash = hd[h].clash /\ hd'[h].id = id
        BY <4>1 DEF Advances, Lists, Erases, Same, Applying
      <4>3. ASSUME NEW e \in Busy', e # h
            PROVE  e \in Busy /\ hd'[e].id = hd[e].id /\ hd[e].clash \subseteq hd'[e].clash
        BY <1>0, <1>2, <4>3, Bystander
      <4> QED BY <1>0, <3>4, <4>2, <4>3 DEF ClashKnown
    <3> QED BY <3>1, <3>2, <3>3, <3>4
  <2>7. owed \in [Record -> {"in", "out", "any"}] BY <1>0 DEF BasicInv, TypeOK
  <2>8. CASE Fails(h) \/ Advances(h) \/ Lists(h) \/ Erases(h)
    <3>1. owed' = owed /\ h \in Busy /\ (h \in Busy' => hd'[h].id = id)
      BY <2>8 DEF Fails, Advances, Lists, Erases, Same, Applying, Busy
    <3>2. OwedAgreed'
      <4>1. \A g \in Busy' : g \in Busy /\ hd'[g].id = hd[g].id BY <1>0, <1>2, <3>1, Bystander
      <4> QED BY <1>0, <3>1, <4>1 DEF OwedAgreed
    <3>3. ASSUME NEW r \in Record
          PROVE  (owed[r] = "in" => r \in Present') /\ (owed[r] = "out" => r \notin Present')
      <4>1. owed[r] # "any" => Says(id, r) \subseteq {owed[r]} BY <1>0, <3>1 DEF OwedAgreed
      <4>2. (owed[r] = "in" => r \in Present) /\ (owed[r] = "out" => r \notin Present)
        BY <1>0 DEF Settled
      <4> QED BY <2>2, <2>7, <4>1, <4>2
    <3>4. Settled' BY <3>1, <3>3 DEF Settled
    <3> QED BY <1>0, <2>5, <2>6, <3>2, <3>4 DEF SettledInv
  <2>9. CASE Admit(h)
    <3>1. /\ owed' = [r \in Record |-> IF Says(id, r) \subseteq {owed[r]} THEN owed[r] ELSE "any"]
          /\ Present' = Present
      BY <2>9, PresentIs DEF Admit
    <3>2. Settled' BY <1>0, <3>1 DEF Settled
    <3>3. ASSUME NEW r \in Record, NEW g \in Busy', owed'[r] # "any"
          PROVE  Says(hd'[g].id, r) \subseteq {owed'[r]}
      <4>1. owed'[r] = owed[r] /\ Says(id, r) \subseteq {owed[r]} BY <3>1, <3>3
      <4>2. CASE g = h BY <1>0, <2>9, <4>1, <4>2, AdmitHd
      <4>3. CASE g # h
        <5>1. g \in Busy /\ hd'[g].id = hd[g].id BY <1>0, <1>2, <4>3, Bystander
        <5> QED BY <1>0, <3>3, <4>1, <5>1 DEF OwedAgreed
      <4> QED BY <4>2, <4>3
    <3>4. OwedAgreed' BY <3>3 DEF OwedAgreed
    <3> QED BY <1>0, <2>5, <2>6, <3>2, <3>4 DEF SettledInv
  <2>10. CASE HandleUpdateDone(h)
    <3>1. /\ owed' = [r \in Record |-> IF Says(id, r) # {} /\ r \notin hd[h].clash
                                       THEN Outcome[id][r] ELSE owed[r]]
          /\ Present' = Present /\ h \in Busy
      BY <2>10, PresentIs DEF HandleUpdateDone, Busy
    <3>2. h \notin Busy' BY <2>0, <2>10, AnswerHd DEF HandleUpdateDone, Busy
    <3>3. ASSUME NEW r \in Record, Says(id, r) # {}, r \notin hd[h].clash
          PROVE  /\ owed'[r] = Outcome[id][r]
                 /\ r \in Present <=> Outcome[id][r] = "in"
                 /\ Outcome[id][r] \in {"in", "out"}
                 /\ Says(id, r) \subseteq {"in"} => Outcome[id][r] = "in"
                 /\ Says(id, r) \subseteq {"out"} => Outcome[id][r] = "out"
      <4>1. Applied(hd[h], Present, r) BY <1>0, <3>1, <3>3 DEF Progress
      <4> QED BY <1>0, <2>10, <3>1, <3>3, <4>1, DoneApplied
    <3>4. ASSUME NEW r \in Record, ~(Says(id, r) # {} /\ r \notin hd[h].clash)
          PROVE  owed'[r] = owed[r]
      BY <3>1, <3>4
    <3>5. Settled' BY <1>0, <3>1, <3>3, <3>4 DEF Settled
    <3>6. ASSUME NEW r \in Record, NEW g \in Busy', owed'[r] # "any"
          PROVE  Says(hd'[g].id, r) \subseteq {owed'[r]}
      <4>1. /\ g \in Busy /\ g # h /\ hd'[g].id = hd[g].id /\ hd[g].id \in DOMAIN Msg
        BY <1>0, <1>2, <3>2, Bystander
      <4>2. CASE Says(id, r) # {} /\ r \notin hd[h].clash
        <5>1. r \notin Disputed[id][hd[g].id] /\ r \notin Disputed[hd[g].id][id]
          BY <1>0, <2>1, <3>1, <4>1, <4>2, Undisputed DEF ClashKnown
        <5>2. Says(id, r) \subseteq {"in", "out"} /\ Says(hd[g].id, r) \subseteq {"in", "out"}
          BY <2>1, <4>1, SaysFacts
        <5>3. CASE "in" \in Says(id, r)
          <6>1. Says(hd[g].id, r) \subseteq {"in"} BY <2>1, <4>1, <5>1, <5>3, Undisputed
          <6>2. CASE Says(hd[g].id, r) = {} BY <4>1, <6>2
          <6>3. CASE "in" \in Says(hd[g].id, r)
            <7>1. Says(id, r) \subseteq {"in"} BY <2>1, <4>1, <5>1, <6>3, Undisputed
            <7> QED BY <3>3, <4>1, <4>2, <6>1, <7>1
          <6> QED BY <6>1, <6>2, <6>3
        <5>4. CASE "out" \in Says(id, r)
          <6>1. Says(hd[g].id, r) \subseteq {"out"} BY <2>1, <4>1, <5>1, <5>4, Undisputed
          <6>2. CASE Says(hd[g].id, r) = {} BY <4>1, <6>2
          <6>3. CASE "out" \in Says(hd[g].id, r)
            <7>1. Says(id, r) \subseteq {"out"} BY <2>1, <4>1, <5>1, <6>3, Undisputed
            <7> QED BY <3>3, <4>1, <4>2, <6>1, <7>1
          <6> QED BY <6>1, <6>2, <6>3
        <5> QED BY <4>2, <5>2, <5>3, <5>4
      <4>3. CASE ~(Says(id, r) # {} /\ r \notin hd[h].clash)
        BY <1>0, <3>4, <3>6, <4>1, <4>3 DEF OwedAgreed
      <4> QED BY <4>2, <4>3
    <3>7. OwedAgreed' BY <3>6 DEF OwedAgreed
    <3> QED BY <1>0, <2>5, <2>6, <3>5, <3>7 DEF SettledInv
  <2> QED BY <1>2, <2>8, <2>9, <2>10 DEF Acts
<1> QED BY <1>0, <1>1, <1>2, StepCases

(* An update answered NOERROR holds: what it added is there and what it     *)
(* deleted is gone until a message that says otherwise is admitted, with    *)
(* any number of messages in flight, duplicates, failing calls and          *)
(* restarts (HandleUpdate, addRR and the deletions).  The hypothesis is     *)
(* needed: without it one record's deletion takes another one's object.     *)
THEOREM AcknowledgedHolds == NoCollision => (Spec => []Settled)
<1>1. Init => SettledInv
  <2> SUFFICES ASSUME Init PROVE SettledInv
    OBVIOUS
  <2>1. Busy = {} BY IdleTyped DEF Init, Busy
  <2>2. \A r \in Record : owed[r] = "any" BY DEF Init
  <2> QED BY <2>1, <2>2, BasicInit DEF SettledInv, OwedAgreed, ClashKnown, Progress, Settled
<1>2. SettledInv => Settled BY DEF SettledInv
<1>3. SUFFICES ASSUME NoCollision PROVE Spec => []Settled
  OBVIOUS
<1>4. SettledInv /\ [Next]_vars => SettledInv' BY <1>3, SettledStep
<1> QED BY <1>1, <1>2, <1>4, PTL DEF Spec

(* A record goes only when a message that is being applied deletes it       *)
(* (deleteRR, addRR), if no two records share an object name: sharing one   *)
(* is the only way to lose another message's record.                        *)
THEOREM OnlyNamedGo == NoCollision => (Spec => DeletesOnlyNamed)
<1>1. SUFFICES ASSUME NoCollision PROVE Spec => DeletesOnlyNamed
  OBVIOUS
<1>2. ASSUME BasicInv, [Next]_vars, NEW r \in Present \ Present'
      PROVE  \E h \in Busy : "out" \in Says(hd[h].id, r)
  <2>0. BasicInv /\ BasicInv' /\ objs \in SUBSET (Manual \cup {ObjectOf(u) : u \in Additions})
    BY <1>2, BasicStep DEF BasicInv, ObjectsKnown
  <2>1. r \in Record BY <2>0, PresentFacts, PresentIs, AdditionRecord
  <2>2. objs' # objs BY PresentIs
  <2>3. PICK h \in Slots : Acts(h) BY <1>2, <2>2, StepCases DEF Quiet
  <2>4. /\ Applying(h) /\ hd[h].i \in Nat \ {0}
        /\ Writes(h) \/ Removes(h) \/ \E cr \in hd[h].todo : Drops(h, cr)
    BY <2>0, <2>2, <2>3 DEF Acts, Fails, Advances, Lists, Erases, Admit, HandleUpdateDone,
                            BasicInv, TypeOK, Handler
  <2>5. Deletes(Update(h), r) BY <1>1, <2>0, <2>4, RecordStep
  <2>6. hd[h].i \in Deleting[hd[h].id][r] BY <2>1, <2>4, <2>5, UpdateFacts DEF Applying
  <2> QED BY <2>1, <2>4, <2>6, SaysFacts DEF Applying
<1>3. BasicInv /\ [Next]_vars =>
        [\A r \in Present \ Present' : \E h \in Busy : "out" \in Says(hd[h].id, r)]_vars
  BY <1>2
<1> QED BY <1>3, BasicKept, PTL DEF Spec, DeletesOnlyNamed
==============================================================================
