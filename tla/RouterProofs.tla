----------------------------- MODULE RouterProofs -----------------------------
(***************************************************************************)
(* Proofs about Router for every number of requests and slaves, every cap  *)
(* and every timeout.                                                      *)
(***************************************************************************)
EXTENDS Router, FiniteSetTheorems, SequenceTheorems, TLAPS

Active == {"reading", "lookup", "race"}

Holders(p) == {q \in Request : Proto[q] = p /\ Holding(q)}

(* An answer that q may get: its own, or one that has strayed.             *)
Explained(q, o) == o = q \/ Strayed(q, o)

(* A handler works on its own copy of its query; its forwardTos and its    *)
(* channel only ever hold answers it may get, and only answers to UDP      *)
(* queries are left on the way to a closed socket.                         *)
OwnData ==
    /\ \A q \in Request : raw[q] = q
    /\ \A q \in Request : \A s \in Slave : Explained(q, resp[q][s])
    /\ \A q \in Request : \A n \in 1..Len(ch[q]) : Explained(q, ch[q][n])
    /\ \A o \in Request : \A s \in Slave : s \in late[o] => Proto[o] = "udp"

(* The longest time a handler may still hold its slot.                     *)
Allowance(q) == ReadLimit(q) + LookupTime + Timeout
Left(q) ==
    IF st[q] = "reading" THEN deadline[q] + LookupTime + Timeout
    ELSE IF st[q] = "lookup" THEN looking[q] + Timeout
    ELSE IF st[q] = "race" THEN timer[q] ELSE Allowance(q)

Paced == \A q \in Request : held[q] + Left(q) <= Allowance(q)

(* The deadline of a connection runs out no faster than its slot is held.  *)
Waited ==
    \A q \in Request :
        Proto[q] \in Conn /\ st[q] \in Active => deadline[q] + held[q] >= ReadLimit(q)

RouterInv == TypeOK /\ SlotsBalanced /\ OwnData /\ AnswersOwn /\ Paced /\ Waited

-----------------------------------------------------------------------------
LEMMA HoldersFinite ==
  ASSUME NEW p \in Conn
  PROVE  IsFiniteSet(Holders(p)) /\ Cardinality(Holders(p)) \in Nat
<1>1. Holders(p) \in SUBSET Request BY DEF Holders
<1>2. IsFiniteSet(Holders(p)) BY <1>1, RouterAssumption, FS_Subset
<1> QED BY <1>2, FS_CardinalityType

(* The transports, as TypeOK and the assumption on Mixes give them.        *)
LEMMA ProtoType ==
  ASSUME TypeOK, NEW q \in Request
  PROVE  Proto[q] \in Conn \cup {"udp"} /\ ReadLimit(q) \in Nat \ {0}
<1>1. Proto \in [Request -> Conn \cup {"udp"}] BY RouterAssumption DEF TypeOK
<1> QED BY <1>1, RouterAssumption DEF ReadLimit

(* Answers stay on their way, so what has explained an answer goes on to   *)
(* explain it.                                                             *)
LEMMA AnswersKept ==
  ASSUME AnswersOwn, TypeOK, Proto' = Proto, reply' = reply,
         \A o \in Request : late[o] \subseteq late'[o]
  PROVE  AnswersOwn'
<1>1. \A q \in Request : reply[q].about \in Request BY DEF TypeOK, Replies
<1> QED BY <1>1 DEF AnswersOwn, Strayed

(* Who does not change between holding and not holding keeps the balance.  *)
LEMMA BalanceKept ==
  ASSUME SlotsBalanced, sem' = sem, Proto' = Proto,
         \A q \in Request : Holding(q)' <=> Holding(q)
  PROVE  SlotsBalanced'
<1>1. ASSUME NEW p \in Conn PROVE Holders(p)' = Holders(p)
  BY DEF Holders
<1>2. ASSUME NEW p \in Conn PROVE sem'[p] = Cardinality(Holders(p)')
  BY <1>1 DEF SlotsBalanced, Holders
<1> QED BY <1>2 DEF SlotsBalanced, Holders

(* A slot is taken (the send on the semaphore of tcp.go, dot.go, doh.go).  *)
LEMMA SlotTaken ==
  ASSUME TypeOK, SlotsBalanced, NEW q \in Request, Proto[q] \in Conn, st[q] = "idle",
         st' = [st EXCEPT ![q] = "reading"], sem' = Acquired(q), Proto' = Proto
  PROVE  SlotsBalanced'
<1>1. ASSUME NEW p \in Conn, p # Proto[q] PROVE sem'[p] = Cardinality(Holders(p)')
  <2>1. Holders(p)' = Holders(p) BY <1>1 DEF Holders, Holding, TypeOK
  <2>2. sem'[p] = sem[p] BY <1>1 DEF Acquired, TypeOK
  <2> QED BY <1>1, <2>1, <2>2 DEF SlotsBalanced, Holders
<1>2. sem'[Proto[q]] = Cardinality(Holders(Proto[q])')
  <2> DEFINE p == Proto[q]
  <2>1. Holders(p)' = Holders(p) \cup {q} /\ q \notin Holders(p)
    BY DEF Holders, Holding, TypeOK
  <2>2. Cardinality(Holders(p) \cup {q}) = Cardinality(Holders(p)) + 1
    BY <2>1, HoldersFinite, FS_AddElement
  <2>3. sem'[p] = sem[p] + 1 /\ sem[p] = Cardinality(Holders(p))
    BY DEF Acquired, TypeOK, SlotsBalanced, Holders
  <2> QED BY <2>1, <2>2, <2>3
<1>3. ASSUME NEW p \in Conn PROVE sem'[p] = Cardinality(Holders(p)')
  BY <1>1, <1>2
<1> QED BY <1>3 DEF SlotsBalanced, Holders

(* A slot is given back by the handler that holds it, so that there was    *)
(* one to give back (the deferred receives).                               *)
LEMMA SlotFreed ==
  ASSUME TypeOK, SlotsBalanced, NEW q \in Request, st[q] \in Active,
         st' = [st EXCEPT ![q] = "done"], sem' = Released(q), Proto' = Proto
  PROVE  SlotsBalanced' /\ sem' \in [Conn -> 0..Cap]
<1>1. CASE Proto[q] \notin Conn
  <2>1. \A o \in Request : Holding(o)' <=> Holding(o)
    BY <1>1 DEF Holding, TypeOK
  <2>2. sem' = sem BY <1>1 DEF Released
  <2> QED BY <2>1, <2>2, BalanceKept DEF TypeOK
<1>2. CASE Proto[q] \in Conn
  <2> DEFINE p == Proto[q]
  <2>1. Holders(p)' = Holders(p) \ {q} /\ q \in Holders(p)
    BY <1>2 DEF Holders, Holding, TypeOK, Active
  <2>2. Cardinality(Holders(p) \ {q}) = Cardinality(Holders(p)) - 1
    BY <1>2, <2>1, HoldersFinite, FS_RemoveElement
  <2>3. Cardinality(Holders(p) \ {q}) \in Nat
    <3>1. IsFiniteSet(Holders(p) \ {q}) BY <1>2, HoldersFinite, FS_RemoveElement
    <3> QED BY <3>1, FS_CardinalityType
  <2>4. sem'[p] = sem[p] - 1 /\ sem[p] = Cardinality(Holders(p)) /\ sem[p] \in 0..Cap
    BY <1>2 DEF Released, TypeOK, SlotsBalanced, Holders
  <2>5. sem'[p] = Cardinality(Holders(p)') BY <2>1, <2>2, <2>4
  <2>6. sem[p] - 1 \in 0..Cap BY <2>2, <2>3, <2>4, RouterAssumption
  <2>7. ASSUME NEW o \in Conn, o # p PROVE sem'[o] = Cardinality(Holders(o)')
    <3>1. Holders(o)' = Holders(o) BY <2>7 DEF Holders, Holding, TypeOK
    <3>2. sem'[o] = sem[o] BY <1>2, <2>7 DEF Released, TypeOK
    <3> QED BY <2>7, <3>1, <3>2 DEF SlotsBalanced, Holders
  <2>8. ASSUME NEW o \in Conn PROVE sem'[o] = Cardinality(Holders(o)')
    BY <2>5, <2>7
  <2>9. SlotsBalanced' BY <2>8 DEF SlotsBalanced, Holders
  <2> QED BY <1>2, <2>6, <2>9 DEF Released, TypeOK
<1> QED BY <1>1, <1>2

-----------------------------------------------------------------------------
(* The end of a handler, in every way it may end.                          *)
LEMMA FinishKeeps ==
  ASSUME RouterInv, NEW q \in Request, st[q] \in Active,
         NEW kind \in {"none", "lost", "slip", "refused", "servfail", "answer"},
         NEW about \in Request, kind = "answer" => Explained(q, about),
         Finish(q, kind, about), UNCHANGED <<Proto, stopped, raw, worker, wire>>
  PROVE  RouterInv'
<1>0. TypeOK /\ SlotsBalanced /\ OwnData /\ AnswersOwn /\ Paced /\ Waited BY DEF RouterInv
<1>1. SlotsBalanced' /\ sem' \in [Conn -> 0..Cap]
  BY <1>0, SlotFreed DEF Finish
<1>2. TypeOK'
  <2>1. ch' \in [Request -> Seq(Request)]
    BY <1>0, EmptySeq DEF Finish, TypeOK
  <2>2. reply' \in [Request -> Replies]
    BY <1>0 DEF Finish, TypeOK, Replies
  <2> QED BY <1>0, <1>1, <2>1, <2>2, RouterAssumption DEF Finish, TypeOK, wire
<1>3. OwnData'
  <2>1. \A o \in Request : ch'[o] = ch[o] \/ Len(ch'[o]) = 0
    BY <1>0 DEF Finish, TypeOK
  <2>2. ASSUME NEW o \in Request, NEW n \in 1..Len(ch'[o]) PROVE Explained(o, ch[o][n])'
    <3>1. ch'[o] = ch[o] BY <2>1, <2>2
    <3>2. Explained(o, ch[o][n]) BY <1>0, <2>2, <3>1 DEF OwnData
    <3> QED BY <3>1, <3>2 DEF Explained, Strayed, wire
  <2>3. ASSUME NEW o \in Request, NEW s \in Slave PROVE Explained(o, resp[o][s])'
    BY <1>0 DEF OwnData, Explained, Strayed, wire
  <2> QED BY <1>0, <2>2, <2>3 DEF OwnData, wire
<1>4. AnswersOwn'
  <2>1. reply' = [reply EXCEPT ![q] = [kind |-> kind, about |-> about]] /\ late' = late /\ Proto' = Proto
    BY DEF Finish, wire
  <2>2. reply \in [Request -> Replies] BY <1>0 DEF TypeOK
  <2> QED BY <1>0, <2>1, <2>2 DEF AnswersOwn, Explained, Strayed
<1>5. Paced'
  <2> SUFFICES ASSUME NEW o \in Request PROVE (held[o] + Left(o) <= Allowance(o))'
    BY DEF Paced
  <2>1. Allowance(o)' = Allowance(o) /\ Allowance(o) \in Nat
    BY <1>0, ProtoType, RouterAssumption DEF Allowance, ReadLimit
  <2>2. CASE o = q BY <1>0, <2>1, <2>2 DEF Finish, Left, TypeOK
  <2>3. CASE o # q BY <1>0, <2>1, <2>3 DEF Finish, Left, TypeOK, Paced
  <2> QED BY <2>2, <2>3
<1>6. Waited' BY <1>0 DEF Finish, Waited, TypeOK, Active, ReadLimit
<1> QED BY <1>1, <1>2, <1>3, <1>4, <1>5, <1>6 DEF RouterInv

(* What a handler has been given before it ends stays within RouterInv:    *)
(* arrival, reading and the start of the race.                             *)
LEMMA ArrivalKeeps ==
  ASSUME RouterInv, NEW q \in Request,
         ReadUDP(q) \/ OverCap(q) \/ Admit(q)
  PROVE  RouterInv'
<1>0. TypeOK /\ SlotsBalanced /\ OwnData /\ AnswersOwn /\ Paced /\ Waited BY DEF RouterInv
<1>a. /\ Proto[q] \in Conn \cup {"udp"} /\ ReadLimit(q) \in Nat \ {0}
      /\ Timeout \in Nat \ {0} /\ LookupTime \in Nat /\ Allowance(q) \in Nat
      /\ held[q] \in Nat /\ st[q] = "idle"
  BY <1>0, ProtoType, RouterAssumption
  DEF Allowance, TypeOK, ReadUDP, OverCap, Admit
<1>b. held[q] = 0 BY <1>0, <1>a DEF Paced, Left
<1>c. \A o \in Request : Allowance(o)' = Allowance(o) /\ Allowance(o) \in Nat
  BY <1>0, ProtoType, RouterAssumption
  DEF Allowance, ReadLimit, ReadUDP, OverCap, Admit
<1>1. CASE ReadUDP(q)
  <2>a. \/ reply' = reply
        \/ \E kind \in {"none", "slip", "refused"} :
             reply' = [reply EXCEPT ![q] = [kind |-> kind, about |-> reply[q].about]]
    <3>1. reply \in [Request -> Replies] /\ reply[q] \in Replies BY <1>0 DEF TypeOK
    <3>2. ASSUME NEW kind \in {"none", "slip", "refused"},
                 reply' = [reply EXCEPT ![q].kind = kind]
          PROVE  reply' = [reply EXCEPT ![q] = [kind |-> kind, about |-> reply[q].about]]
      <4>1. reply' = [reply EXCEPT ![q] = [reply[q] EXCEPT !.kind = kind]] BY <3>2
      <4>2. [reply[q] EXCEPT !.kind = kind] = [kind |-> kind, about |-> reply[q].about]
        <5> DEFINE r == reply[q]
        <5>1. r \in [kind : {"none", "lost", "slip", "refused", "servfail", "answer"},
                     about : Request]
          BY <3>1 DEF Replies
        <5> HIDE DEF r
        <5>2. [r EXCEPT !.kind = kind] = [kind |-> kind, about |-> r.about] BY <5>1
        <5> QED BY <5>2 DEF r
      <4> QED BY <4>1, <4>2
    <3> QED BY <1>1, <3>2 DEF ReadUDP
  <2>b. \/ looking' = looking \/ looking' = [looking EXCEPT ![q] = LookupTime]
    BY <1>1 DEF ReadUDP
  <2>1. TypeOK'
    <3>1. reply' \in [Request -> Replies]
      <4>1. reply \in [Request -> Replies] /\ reply[q].about \in Request
        BY <1>0 DEF TypeOK, Replies
      <4> QED BY <2>a, <4>1 DEF Replies
    <3>2. looking' \in [Request -> 0..LookupTime]
      <4>1. looking \in [Request -> 0..LookupTime] /\ LookupTime \in 0..LookupTime
        BY <1>0, <1>a DEF TypeOK
      <4> QED BY <2>b, <4>1
    <3>3. st' \in [Request -> {"idle", "reading", "lookup", "race", "done"}]
      BY <1>0, <1>1 DEF ReadUDP, TypeOK
    <3> QED BY <1>0, <1>1, <3>1, <3>2, <3>3 DEF ReadUDP, TypeOK, wire
  <2>2. SlotsBalanced'
    <3>1. \A o \in Request : Holding(o)' <=> Holding(o)
      BY <1>0, <1>1 DEF ReadUDP, Holding, TypeOK, Conn
    <3> QED BY <1>0, <1>1, <3>1, BalanceKept DEF ReadUDP
  <2>3. OwnData'
    <3>1. /\ raw \in [Request -> Request] /\ raw' = [raw EXCEPT ![q] = q]
          /\ UNCHANGED <<Proto, ch, resp, late>>
      BY <1>0, <1>1 DEF ReadUDP, TypeOK, wire
    <3> QED BY <1>0, <3>1 DEF OwnData, Explained, Strayed
  <2>4. AnswersOwn'
    <3>1. reply \in [Request -> Replies] BY <1>0 DEF TypeOK
    <3>2. late' = late /\ Proto' = Proto BY <1>1 DEF ReadUDP, wire
    <3> QED BY <1>0, <2>a, <3>1, <3>2 DEF AnswersOwn, Strayed
  <2>5. Paced'
    <3> SUFFICES ASSUME NEW o \in Request PROVE (held[o] + Left(o) <= Allowance(o))'
      BY DEF Paced
    <3>1. CASE o # q
      BY <1>0, <1>1, <1>c, <3>1 DEF ReadUDP, Left, TypeOK, Paced
    <3>2. CASE o = q /\ st'[q] = "done"
      BY <1>0, <1>1, <1>b, <1>c, <3>2 DEF ReadUDP, Left, TypeOK
    <3>3. CASE o = q /\ st'[q] # "done"
      <4>1. Left(q)' = LookupTime + Timeout /\ held'[q] = 0
        BY <1>0, <1>1, <1>b, <3>3 DEF ReadUDP, Left, TypeOK
      <4> QED BY <1>a, <1>c, <3>3, <4>1 DEF Allowance
    <3> QED BY <3>1, <3>2, <3>3
  <2>6. Waited' BY <1>0, <1>1 DEF ReadUDP, Waited, TypeOK, Active, Conn, ReadLimit
  <2> QED BY <2>1, <2>2, <2>3, <2>4, <2>5, <2>6 DEF RouterInv
<1>2. CASE OverCap(q)
  <2>0. /\ st' = [st EXCEPT ![q] = "done"]
        /\ UNCHANGED <<Proto, stopped, sem, raw, deadline, looking, timer, worker, ch, reply, held, wire>>
    BY <1>2 DEF OverCap
  <2>1. TypeOK' BY <1>0, <2>0 DEF TypeOK, wire
  <2>2. SlotsBalanced'
    <3>1. \A o \in Request : Holding(o)' <=> Holding(o)
      BY <1>0, <1>a, <2>0 DEF Holding, TypeOK
    <3> QED BY <1>0, <2>0, <3>1, BalanceKept
  <2>3. OwnData' /\ AnswersOwn'
    BY <1>0, <2>0 DEF OwnData, AnswersOwn, Explained, Strayed, wire
  <2>5. Paced'
    <3> SUFFICES ASSUME NEW o \in Request PROVE (held[o] + Left(o) <= Allowance(o))'
      BY DEF Paced
    <3>1. CASE o # q BY <1>0, <1>c, <2>0, <3>1 DEF Left, TypeOK, Paced
    <3>2. CASE o = q BY <1>0, <1>b, <1>c, <2>0, <3>2 DEF Left, TypeOK
    <3> QED BY <3>1, <3>2
  <2>6. Waited' BY <1>0, <2>0 DEF Waited, TypeOK, Active, ReadLimit
  <2> QED BY <2>1, <2>2, <2>3, <2>5, <2>6 DEF RouterInv
<1>3. CASE Admit(q)
  <2>1. TypeOK'
    <3>1. sem' \in [Conn -> 0..Cap]
      <4>1. sem[Proto[q]] + 1 \in 0..Cap
        BY <1>0, <1>3, RouterAssumption DEF Admit, TypeOK
      <4> QED BY <1>0, <1>3, <4>1 DEF Admit, Acquired, TypeOK
    <3>2. deadline' \in [Request -> Nat] BY <1>0, <1>3, <1>a DEF Admit, TypeOK
    <3> QED BY <1>0, <1>3, <3>1, <3>2 DEF Admit, TypeOK, wire
  <2>2. SlotsBalanced' BY <1>0, <1>3, SlotTaken DEF Admit
  <2>3. OwnData' /\ AnswersOwn'
    BY <1>0, <1>3 DEF OwnData, AnswersOwn, Admit, Explained, Strayed, wire
  <2>5. Paced'
    <3> SUFFICES ASSUME NEW o \in Request PROVE (held[o] + Left(o) <= Allowance(o))'
      BY DEF Paced
    <3>1. CASE o # q BY <1>0, <1>3, <1>c, <3>1 DEF Admit, Left, TypeOK, Paced
    <3>2. CASE o = q
      <4>1. Left(q)' = ReadLimit(q) + LookupTime + Timeout /\ held'[q] = 0
        BY <1>0, <1>3, <1>b DEF Admit, Left, TypeOK
      <4> QED BY <1>a, <1>c, <3>2, <4>1 DEF Allowance
    <3> QED BY <3>1, <3>2
  <2>6. Waited'
    <3> SUFFICES ASSUME NEW o \in Request, Proto[o] \in Conn, st'[o] \in Active
                 PROVE  deadline'[o] + held'[o] >= ReadLimit(o)
      BY <1>3 DEF Waited, Admit, ReadLimit
    <3>1. CASE o # q BY <1>0, <1>3, <3>1 DEF Admit, Waited, TypeOK
    <3>2. CASE o = q
      <4>1. deadline'[q] = ReadLimit(q) /\ held'[q] = 0
        BY <1>0, <1>3, <1>b DEF Admit, TypeOK
      <4> QED BY <1>a, <3>2, <4>1
    <3> QED BY <3>1, <3>2
  <2> QED BY <2>1, <2>2, <2>3, <2>5, <2>6 DEF RouterInv
<1> QED BY <1>1, <1>2, <1>3

LEMMA ForwardKeeps ==
  ASSUME RouterInv, NEW q \in Request, Read(q) \/ Race(q)
  PROVE  RouterInv'
<1>0. TypeOK /\ SlotsBalanced /\ OwnData /\ AnswersOwn /\ Paced /\ Waited BY DEF RouterInv
<1>a. /\ ReadLimit(q) \in Nat \ {0} /\ held[q] \in Nat /\ deadline[q] \in Nat
      /\ looking[q] \in Nat /\ Timeout \in Nat \ {0} /\ LookupTime \in Nat
  BY <1>0, ProtoType, RouterAssumption DEF TypeOK
<1>c. \A o \in Request : Allowance(o)' = Allowance(o) /\ Allowance(o) \in Nat
  BY <1>0, ProtoType, RouterAssumption DEF Allowance, ReadLimit, Read, Race
<1>1. SlotsBalanced'
  <2>1. st \in [Request -> {"idle", "reading", "lookup", "race", "done"}] BY <1>0 DEF TypeOK
  <2>2. CASE Read(q)
    <3>1. \A o \in Request : Holding(o)' <=> Holding(o) BY <2>1, <2>2 DEF Read, Holding
    <3> QED BY <1>0, <2>2, <3>1, BalanceKept DEF Read
  <2>3. CASE Race(q)
    <3>1. Proto' = Proto /\ sem' = sem /\ st[q] = "lookup" /\ st' = [st EXCEPT ![q] = "race"]
      BY <2>3 DEF Race
    <3>2. \A o \in Request : Holding(o)' <=> Holding(o) BY <2>1, <3>1 DEF Holding
    <3> QED BY <1>0, <3>1, <3>2, BalanceKept
  <2> QED BY <2>2, <2>3
<1>2. TypeOK'
  <2>1. CASE Read(q)
    <3>1. looking' \in [Request -> 0..LookupTime]
      <4>1. looking \in [Request -> 0..LookupTime] /\ LookupTime \in 0..LookupTime
        BY <1>0, <1>a DEF TypeOK
      <4> QED BY <2>1, <4>1 DEF Read
    <3>2. /\ st' \in [Request -> {"idle", "reading", "lookup", "race", "done"}]
          /\ raw' \in [Request -> Request]
      BY <1>0, <2>1 DEF Read, TypeOK
    <3> QED BY <1>0, <2>1, <3>1, <3>2 DEF Read, TypeOK, wire
  <2>2. CASE Race(q)
    <3>1. worker' \in [Request -> [Slave -> {"off", "run", "send", "ended"}]]
      BY <1>0, <2>2 DEF Race, TypeOK
    <3>2. timer' \in [Request -> 0..Timeout] BY <1>0, <2>2, <1>a DEF Race, TypeOK
    <3> QED BY <1>0, <2>2, <3>1, <3>2 DEF Race, TypeOK, wire
  <2> QED BY <2>1, <2>2
<1>b. UNCHANGED <<Proto, ch, resp, late, reply>> /\ (raw' = raw \/ raw' = [raw EXCEPT ![q] = q])
  BY DEF Read, Race, wire
<1>d. raw \in [Request -> Request] BY <1>0 DEF TypeOK
<1>3. OwnData' BY <1>0, <1>b, <1>d DEF OwnData, Explained, Strayed
<1>4. AnswersOwn' BY <1>0, <1>b, AnswersKept
<1>5. Paced'
  <2> SUFFICES ASSUME NEW o \in Request PROVE (held[o] + Left(o) <= Allowance(o))'
    BY DEF Paced
  <2>1. CASE o # q
    <3>1. /\ st'[o] = st[o] /\ deadline'[o] = deadline[o] /\ looking'[o] = looking[o]
          /\ timer'[o] = timer[o] /\ held'[o] = held[o]
      BY <1>0, <2>1 DEF Read, Race, TypeOK
    <3> QED BY <1>0, <1>c, <3>1 DEF Left, Paced
  <2>2. CASE o = q /\ Read(q)
    <3>1. Left(q)' = LookupTime + Timeout /\ held'[q] = held[q]
      BY <1>0, <2>2 DEF Read, Left, TypeOK
    <3>2. Left(q) = deadline[q] + LookupTime + Timeout BY <2>2 DEF Read, Left
    <3> QED BY <1>0, <1>a, <1>c, <2>2, <3>1, <3>2 DEF Paced
  <2>3. CASE o = q /\ Race(q)
    <3>1. Left(q)' = Timeout /\ held'[q] = held[q] BY <1>0, <2>3 DEF Race, Left, TypeOK
    <3>2. Left(q) = looking[q] + Timeout BY <2>3 DEF Race, Left
    <3> QED BY <1>0, <1>a, <1>c, <2>3, <3>1, <3>2 DEF Paced
  <2> QED BY <2>1, <2>2, <2>3
<1>6. Waited' BY <1>0 DEF Read, Race, Waited, TypeOK, Active, ReadLimit
<1> QED BY <1>1, <1>2, <1>3, <1>4, <1>5, <1>6 DEF RouterInv

LEMMA WorkerKeeps ==
  ASSUME RouterInv, NEW q \in Request, NEW s \in Slave,
         WorkerReceives(q, s) \/ WorkerFails(q, s) \/ WorkerSends(q, s)
  PROVE  RouterInv'
<1>0. TypeOK /\ SlotsBalanced /\ OwnData /\ AnswersOwn /\ Paced /\ Waited BY DEF RouterInv
<1>a. /\ resp \in [Request -> [Slave -> Request]] /\ late \in [Request -> SUBSET Slave]
      /\ ch \in [Request -> Seq(Request)]
  BY <1>0 DEF TypeOK
<1>1. UNCHANGED <<Proto, stopped, sem, st, raw, deadline, looking, timer, reply, held>>
  BY DEF WorkerReceives, WorkerFails, WorkerSends
<1>2. worker' \in [Request -> [Slave -> {"off", "run", "send", "ended"}]]
  <2>1. worker \in [Request -> [Slave -> {"off", "run", "send", "ended"}]]
    BY <1>0 DEF TypeOK
  <2>2. \E w \in {"send", "ended"} : worker' = [worker EXCEPT ![q][s] = w]
    BY DEF WorkerReceives, WorkerFails, WorkerSends
  <2> QED BY <2>1, <2>2
<1>3. ch' = ch \/ ch' = [ch EXCEPT ![q] = Append(@, resp[q][s])]
  BY DEF WorkerReceives, WorkerFails, WorkerSends, wire
<1>4. /\ resp[q][s] \in Request /\ Explained(q, resp[q][s]) /\ ch[q] \in Seq(Request)
      /\ Append(ch[q], resp[q][s]) \in Seq(Request)
  <2>1. resp[q][s] \in Request /\ ch[q] \in Seq(Request) BY <1>0 DEF TypeOK
  <2> QED BY <1>0, <2>1, AppendProperties DEF OwnData
<1>5. PICK a \in Request : /\ resp' = resp \/ resp' = [resp EXCEPT ![q][s] = a]
                           /\ Explained(q, a)
  <2>1. CASE WorkerReceives(q, s)
    <3>1. PICK o \in Readable(q, s) : resp' = [resp EXCEPT ![q][s] = o]
      BY <2>1 DEF WorkerReceives
    <3>2. o = q \/ (o \in Request /\ Proto[q] = "udp" /\ s \in late[o])
      BY <1>0, <3>1 DEF Readable, OwnData
    <3>3. o \in Request /\ Explained(q, o) BY <1>0, <3>2 DEF OwnData, Explained, Strayed
    <3> QED BY <3>1, <3>3
  <2>2. CASE WorkerFails(q, s) \/ WorkerSends(q, s)
    BY <2>2 DEF WorkerFails, WorkerSends, Explained
  <2> QED BY <2>1, <2>2
<1>6. late' = late \/ (Proto[q] = "udp" /\ late' = [late EXCEPT ![q] = @ \cup {s}])
  <2>1. CASE WorkerReceives(q, s)
    <3>1. late' = late \/ LeaveBehind(q, s) BY <2>1 DEF WorkerReceives
    <3> QED BY <1>0, <3>1 DEF LeaveBehind, OwnData
  <2>2. CASE WorkerFails(q, s) BY <1>0, <2>2 DEF WorkerFails, LeaveBehind, OwnData
  <2>3. CASE WorkerSends(q, s) BY <2>3 DEF WorkerSends
  <2> QED BY <2>1, <2>2, <2>3
<1>7. TypeOK'
  <2>1. ch' \in [Request -> Seq(Request)] BY <1>0, <1>3, <1>4 DEF TypeOK
  <2>2. resp' \in [Request -> [Slave -> Request]]
    <3>1. CASE resp' = resp BY <1>a, <3>1
    <3>2. CASE resp' = [resp EXCEPT ![q][s] = a] BY <1>a, <3>2
    <3> QED BY <1>5, <3>1, <3>2
  <2>3. late' \in [Request -> SUBSET Slave] BY <1>a, <1>6
  <2> QED BY <1>0, <1>1, <1>2, <2>1, <2>2, <2>3 DEF TypeOK
<1>8. OwnData'
  <2>0. Proto' = Proto /\ \A p \in Request : late[p] \subseteq late'[p]
    BY <1>a, <1>1, <1>6
  <2>1. ASSUME NEW p \in Request, NEW n \in 1..Len(ch'[p]) PROVE Explained(p, ch[p][n])'
    <3>1. CASE ch'[p] = ch[p]
      <4>1. Explained(p, ch'[p][n]) /\ ch'[p][n] \in Request
        BY <1>0, <1>a, <2>1, <3>1 DEF OwnData
      <4> QED BY <2>0, <4>1 DEF Explained, Strayed
    <3>2. CASE ch'[p] # ch[p]
      <4>1. p = q /\ ch'[p] = Append(ch[q], resp[q][s]) BY <1>0, <1>3, <3>2 DEF TypeOK
      <4>2. \/ n \in 1..Len(ch[q]) /\ ch'[p][n] = ch[q][n]
            \/ ch'[p][n] = resp[q][s]
        BY <1>4, <2>1, <4>1
      <4>3. Explained(p, ch'[p][n]) /\ ch'[p][n] \in Request
        <5>1. CASE n \in 1..Len(ch[q]) /\ ch'[p][n] = ch[q][n]
          <6>1. Explained(q, ch[q][n]) BY <1>0, <5>1 DEF OwnData
          <6>2. ch[q][n] \in Request BY <1>a, <5>1
          <6> QED BY <4>1, <5>1, <6>1, <6>2
        <5>2. CASE ch'[p][n] = resp[q][s] BY <1>4, <4>1, <5>2
        <5> QED BY <4>2, <5>1, <5>2
      <4> QED BY <2>0, <4>3 DEF Explained, Strayed
    <3> QED BY <3>1, <3>2
  <2>2. ASSUME NEW p \in Request, NEW t \in Slave PROVE Explained(p, resp[p][t])'
    <3>1. resp'[p][t] = resp[p][t] \/ (p = q /\ resp'[p][t] = a) BY <1>a, <1>5
    <3>2. Explained(p, resp'[p][t]) /\ resp'[p][t] \in Request
      <4>1. CASE resp'[p][t] = resp[p][t]
        <5>1. Explained(p, resp[p][t]) BY <1>0 DEF OwnData
        <5>2. resp[p][t] \in Request BY <1>a
        <5> QED BY <4>1, <5>1, <5>2
      <4>2. CASE p = q /\ resp'[p][t] = a BY <1>5, <4>2
      <4> QED BY <3>1, <4>1, <4>2
    <3> QED BY <2>0, <3>2 DEF Explained, Strayed
  <2>3. ASSUME NEW p \in Request, NEW t \in Slave, t \in late'[p] PROVE Proto[p] = "udp"
    BY <1>0, <1>a, <1>6, <2>3 DEF OwnData
  <2> QED BY <1>0, <1>1, <2>1, <2>2, <2>3 DEF OwnData
<1>9. SlotsBalanced'
  <2>1. \A o \in Request : Holding(o)' <=> Holding(o) BY <1>1 DEF Holding
  <2> QED BY <1>0, <1>1, <2>1, BalanceKept
<1>10. AnswersOwn' /\ Waited'
  <2>1. \A o \in Request : late[o] \subseteq late'[o] BY <1>a, <1>6
  <2> QED BY <1>0, <1>1, <2>1, AnswersKept DEF Waited, ReadLimit
<1>11. Paced' BY <1>0, <1>1 DEF Paced, Left, Allowance, ReadLimit
<1> QED BY <1>7, <1>8, <1>9, <1>10, <1>11 DEF RouterInv

(* Time only passes while every active handler has time left.              *)
LEMMA TickKeeps ==
  ASSUME RouterInv, Tick
  PROVE  RouterInv'
<1>0. TypeOK /\ SlotsBalanced /\ OwnData /\ AnswersOwn /\ Paced /\ Waited BY DEF RouterInv
<1>a. Timeout \in Nat \ {0} /\ LookupTime \in Nat BY RouterAssumption
<1>1. TypeOK'
  <2>1. deadline' \in [Request -> Nat] /\ looking' \in [Request -> 0..LookupTime]
    <3>1. deadline \in [Request -> Nat] /\ looking \in [Request -> 0..LookupTime]
      BY <1>0 DEF TypeOK
    <3>2. deadline' = CountDown(deadline) /\ looking' = CountDown(looking) BY DEF Tick
    <3>3. CountDown(deadline) \in [Request -> Nat] BY <3>1 DEF CountDown
    <3>4. CountDown(looking) \in [Request -> 0..LookupTime] BY <1>a, <3>1 DEF CountDown
    <3> QED BY <3>2, <3>3, <3>4
  <2>2. \A q \in Request : st[q] = "race" => timer[q] - 1 \in 0..Timeout
    BY <1>0, <1>a DEF Tick, Due, TypeOK
  <2>3. timer' \in [Request -> 0..Timeout] BY <1>0, <2>2 DEF Tick, TypeOK
  <2>4. held' \in [Request -> Nat] BY <1>0 DEF Tick, TypeOK
  <2> QED BY <1>0, <2>1, <2>3, <2>4 DEF Tick, TypeOK, wire
<1>2. SlotsBalanced'
  <2>1. \A o \in Request : Holding(o)' <=> Holding(o) BY DEF Tick, Holding
  <2> QED BY <1>0, <2>1, BalanceKept DEF Tick
<1>3. OwnData' /\ AnswersOwn'
  BY <1>0 DEF Tick, OwnData, AnswersOwn, Explained, Strayed, wire
<1>4. Paced'
  <2> SUFFICES ASSUME NEW q \in Request PROVE (held[q] + Left(q) <= Allowance(q))'
    BY DEF Paced
  <2>1. /\ Allowance(q)' = Allowance(q) /\ Allowance(q) \in Nat
        /\ held[q] \in Nat /\ deadline[q] \in Nat /\ looking[q] \in Nat /\ timer[q] \in Nat
        /\ held[q] + Left(q) <= Allowance(q) /\ held'[q] \in {held[q], held[q] + 1}
        /\ st'[q] = st[q]
    <3>1. Allowance(q)' = Allowance(q) /\ Allowance(q) \in Nat
      BY <1>0, <1>a, ProtoType DEF Tick, Allowance, ReadLimit
    <3>2. /\ held[q] \in Nat /\ deadline[q] \in Nat /\ looking[q] \in Nat
          /\ timer[q] \in Nat
      BY <1>0, <1>a DEF TypeOK
    <3>3. held'[q] \in {held[q], held[q] + 1} /\ st'[q] = st[q] BY DEF Tick
    <3> QED BY <1>0, <3>1, <3>2, <3>3 DEF Paced
  <2>2. CASE st[q] = "reading"
    <3>1. deadline'[q] = deadline[q] - 1 BY <1>0, <2>2 DEF Tick, Due, CountDown, TypeOK
    <3> QED BY <1>a, <2>1, <2>2, <3>1 DEF Left
  <2>3. CASE st[q] = "lookup"
    <3>1. looking'[q] = looking[q] - 1 BY <1>0, <2>3 DEF Tick, Due, CountDown, TypeOK
    <3> QED BY <1>a, <2>1, <2>3, <3>1 DEF Left
  <2>4. CASE st[q] = "race"
    <3>1. timer'[q] = timer[q] - 1 BY <1>0, <2>4 DEF Tick, TypeOK
    <3> QED BY <1>a, <2>1, <2>4, <3>1 DEF Left
  <2>5. CASE st[q] \notin Active
    <3>1. held'[q] = held[q] BY <1>0, <2>5 DEF Tick, Holding, Active, TypeOK
    <3> QED BY <2>1, <2>5, <3>1 DEF Left, Active
  <2> QED BY <2>2, <2>3, <2>4, <2>5 DEF Active
<1>5. Waited'
  <2> SUFFICES ASSUME NEW q \in Request, Proto[q] \in Conn, st[q] \in Active
               PROVE  deadline'[q] + held'[q] >= ReadLimit(q)
    BY DEF Waited, Tick, ReadLimit
  <2>1. held'[q] = held[q] + 1 BY DEF Tick, Holding, Active
  <2>2. deadline'[q] = IF deadline[q] > 0 THEN deadline[q] - 1 ELSE 0
    BY DEF Tick, CountDown
  <2>3. /\ deadline[q] + held[q] >= ReadLimit(q) /\ ReadLimit(q) \in Nat
        /\ deadline[q] \in Nat /\ held[q] \in Nat
    BY <1>0, ProtoType DEF Waited, TypeOK
  <2> QED BY <2>1, <2>2, <2>3
<1> QED BY <1>1, <1>2, <1>3, <1>4, <1>5 DEF RouterInv

-----------------------------------------------------------------------------
LEMMA RouterInvariant == Spec => []RouterInv
<1>1. Init => RouterInv
  <2> SUFFICES ASSUME Init PROVE RouterInv
    OBVIOUS
  <2>0. Cap \in Nat \ {0} /\ Timeout \in Nat \ {0} /\ LookupTime \in Nat BY RouterAssumption
  <2>1. TypeOK
    <3>1. ch \in [Request -> Seq(Request)] BY EmptySeq DEF Init
    <3>2. reply \in [Request -> Replies] BY DEF Init, Replies
    <3>3. /\ 0 \in 0..Cap /\ 0 \in 0..LookupTime /\ 0 \in 0..Timeout /\ 0 \in Nat
          /\ FALSE \in BOOLEAN
      BY <2>0
    <3>4. sem \in [Conn -> 0..Cap] /\ looking \in [Request -> 0..LookupTime]
      BY <3>3 DEF Init
    <3>5. /\ timer \in [Request -> 0..Timeout] /\ deadline \in [Request -> Nat]
          /\ held \in [Request -> Nat]
      BY <3>3 DEF Init
    <3>6. /\ st \in [Request -> {"idle", "reading", "lookup", "race", "done"}]
          /\ worker \in [Request -> [Slave -> {"off", "run", "send", "ended"}]]
          /\ raw \in [Request -> Request]
      BY DEF Init
    <3>7. Proto \in Mixes /\ stopped \in BOOLEAN BY DEF Init
    <3>8. resp \in [Request -> [Slave -> Request]] /\ late \in [Request -> SUBSET Slave]
      BY DEF Init
    <3> QED BY <3>1, <3>2, <3>4, <3>5, <3>6, <3>7, <3>8 DEF TypeOK
  <2>2. SlotsBalanced
    <3>1. ASSUME NEW p \in Conn PROVE Holders(p) = {}
      BY DEF Init, Holders, Holding
    <3>2. ASSUME NEW p \in Conn PROVE sem[p] = Cardinality(Holders(p))
      BY <3>1, FS_EmptySet DEF Init
    <3> QED BY <3>2 DEF SlotsBalanced, Holders
  <2>3. OwnData BY DEF Init, OwnData, Explained
  <2>4. AnswersOwn BY DEF Init, AnswersOwn
  <2>5. Paced
    <3> SUFFICES ASSUME NEW q \in Request PROVE held[q] + Left(q) <= Allowance(q)
      BY DEF Paced
    <3>1. Left(q) = Allowance(q) /\ held[q] = 0 BY DEF Init, Left
    <3>2. Allowance(q) \in Nat BY <2>0, <2>1, ProtoType DEF Allowance
    <3> QED BY <3>1, <3>2
  <2>6. Waited BY DEF Init, Waited, Active
  <2> QED BY <2>1, <2>2, <2>3, <2>4, <2>5, <2>6 DEF RouterInv
<1>2. RouterInv /\ [Next]_vars => RouterInv'
  <2> SUFFICES ASSUME RouterInv, [Next]_vars PROVE RouterInv'
    OBVIOUS
  <2>0. TypeOK /\ OwnData BY DEF RouterInv
  <2>1. ASSUME NEW q \in Request, ReadUDP(q) \/ OverCap(q) \/ Admit(q)
        PROVE  RouterInv'
    BY <2>1, ArrivalKeeps
  <2>2. ASSUME NEW q \in Request, Limited(q) \/ ReadFails(q) PROVE RouterInv'
    BY <2>2, FinishKeeps DEF Limited, ReadFails, Active
  <2>3. ASSUME NEW q \in Request, Reject(q) \/ LookupFails(q) \/ TimesOut(q) PROVE RouterInv'
    <3>1. /\ Delivered(q, "refused") \in {"lost", "refused"}
          /\ Delivered(q, "servfail") \in {"lost", "servfail"}
      BY DEF Delivered
    <3>2. CASE Reject(q) BY <3>1, <3>2, FinishKeeps DEF Reject, Active
    <3>3. CASE LookupFails(q) BY <3>1, <3>3, FinishKeeps DEF LookupFails, Active
    <3>4. CASE TimesOut(q) BY <3>1, <3>4, FinishKeeps DEF TimesOut, Active
    <3> QED BY <2>3, <3>2, <3>3, <3>4
  <2>4. ASSUME NEW q \in Request, TakeAnswer(q) PROVE RouterInv'
    <3>1. ch[q] \in Seq(Request) /\ ch[q] # <<>> BY <2>0, <2>4 DEF TypeOK, TakeAnswer
    <3>2. Head(ch[q]) \in Request /\ Explained(q, Head(ch[q]))
      <4>1. 1 \in 1..Len(ch[q]) /\ Head(ch[q]) = ch[q][1] /\ ch[q][1] \in Request BY <3>1
      <4> QED BY <2>0, <4>1 DEF OwnData
    <3>3. Delivered(q, "answer") \in {"lost", "answer"} BY DEF Delivered
    <3>4. /\ Finish(q, Delivered(q, "answer"), Head(ch[q])) /\ st[q] \in Active
          /\ UNCHANGED <<Proto, stopped, raw, worker, wire>>
      BY <2>4 DEF TakeAnswer, Active
    <3> QED BY <3>2, <3>3, <3>4, FinishKeeps
  <2>5. ASSUME NEW q \in Request, Read(q) \/ Race(q) PROVE RouterInv'
    BY <2>5, ForwardKeeps
  <2>6. ASSUME NEW q \in Request, NEW s \in Slave,
               WorkerReceives(q, s) \/ WorkerFails(q, s) \/ WorkerSends(q, s)
        PROVE  RouterInv'
    BY <2>6, WorkerKeeps
  <2>7. CASE Tick BY <2>7, TickKeeps
  <2>8. CASE Stop
    <3>1. TypeOK' BY <2>0, <2>8 DEF Stop, TypeOK, wire
    <3>2. \A o \in Request : Holding(o)' <=> Holding(o) BY <2>8 DEF Stop, Holding
    <3>3. SlotsBalanced' BY <2>8, <3>2, BalanceKept DEF Stop, RouterInv
    <3> QED BY <2>8, <3>1, <3>3
      DEF Stop, RouterInv, OwnData, AnswersOwn, Paced, Left, Allowance, ReadLimit, Waited,
          Explained, Strayed, wire
  <2>9. CASE UNCHANGED vars
    <3>1. TypeOK' BY <2>0, <2>9 DEF vars, TypeOK, wire
    <3>2. \A o \in Request : Holding(o)' <=> Holding(o) BY <2>9 DEF vars, Holding
    <3>3. SlotsBalanced' BY <2>9, <3>2, BalanceKept DEF vars, RouterInv
    <3> QED BY <2>9, <3>1, <3>3
      DEF vars, RouterInv, OwnData, AnswersOwn, Paced, Left, Allowance, ReadLimit, Waited,
          Explained, Strayed, wire
  <2> QED BY <2>1, <2>2, <2>3, <2>4, <2>5, <2>6, <2>7, <2>8, <2>9 DEF Next
<1> QED BY <1>1, <1>2, PTL DEF Spec

(* Types, in particular that no semaphore exceeds its cap and none is      *)
(* released below zero.                                                    *)
THEOREM TypeCorrect == Spec => []TypeOK
BY RouterInvariant, PTL DEF RouterInv

(* The semaphores count the live handlers, for any number of requests.     *)
THEOREM SlotsKept == Spec => []SlotsBalanced
BY RouterInvariant, PTL DEF RouterInv

(* A client gets the answer to its own query, or over UDP an answer that a *)
(* slave sent too late to another UDP query (forward's channel, the copy   *)
(* of the packet and the unchecked read of forwardTo).                     *)
THEOREM OwnAnswers == Spec => []AnswersOwn
BY RouterInvariant, PTL DEF RouterInv

(* No slot is held longer than the timeouts and the lookup add up to.      *)
THEOREM SlotTimeBounded == Spec => []HeldBriefly
<1>1. RouterInv => HeldBriefly
  <2> SUFFICES ASSUME RouterInv, NEW q \in Request
               PROVE  held[q] <= ReadLimit(q) + LookupTime + Timeout
    BY DEF HeldBriefly
  <2>0. TypeOK /\ Paced BY DEF RouterInv
  <2>1. /\ ReadLimit(q) \in Nat /\ LookupTime \in Nat /\ Timeout \in Nat /\ held[q] \in Nat
        /\ deadline[q] \in Nat /\ looking[q] \in Nat /\ timer[q] \in Nat
    BY <2>0, ProtoType, RouterAssumption DEF TypeOK
  <2>2. Left(q) \in Nat BY <2>1 DEF Left, Allowance
  <2> QED BY <2>0, <2>1, <2>2 DEF Paced, Allowance
<1> QED BY <1>1, RouterInvariant, PTL

(* A write is lost only when the slot has been held for the full timeout   *)
(* or the round has ended (the deadlines of tcp.go and dot.go, the         *)
(* WriteTimeout of doh.go).                                                *)
THEOREM LateOnly == Spec => LostOnlyLate
<1> DEFINE Excused(q) == \/ Proto[q] \in Conn /\ held[q] >= ReadLimit(q)
                         \/ Closed(q)
<1> DEFINE Late == \A q \in Request : reply'[q].kind = "lost" /\ reply[q].kind # "lost" =>
                       Excused(q)
<1>1. RouterInv /\ [Next]_vars => [Late]_vars
  <2> SUFFICES ASSUME RouterInv, Next, NEW q \in Request,
                      reply'[q].kind = "lost", reply[q].kind # "lost"
               PROVE  Excused(q)
    OBVIOUS
  <2>0. TypeOK /\ Waited /\ reply \in [Request -> Replies] BY DEF RouterInv, TypeOK
  <2>1. ASSUME NEW o \in Request, NEW kind, NEW about,
               Finish(o, Delivered(o, kind), about), kind # "lost", st[o] \in Active
        PROVE  Excused(q)
    <3>1. reply' = [reply EXCEPT ![o] = [kind |-> Delivered(o, kind), about |-> about]]
      BY <2>1 DEF Finish
    <3>2. o = q /\ Delivered(q, kind) = "lost" BY <2>0, <3>1
    <3>3. Expired(q) \/ Closed(q) BY <2>1, <3>2 DEF Delivered
    <3>4. CASE Expired(q)
      <4>1. /\ deadline[q] + held[q] >= ReadLimit(q) /\ deadline[q] = 0
            /\ held[q] \in Nat /\ ReadLimit(q) \in Nat /\ Proto[q] \in Conn
        BY <2>0, <2>1, <3>2, <3>4, ProtoType DEF Waited, TypeOK, Expired
      <4>2. held[q] >= ReadLimit(q) BY <4>1
      <4> QED BY <4>1, <4>2
    <3> QED BY <3>3, <3>4
  <2>2. ASSUME NEW o \in Request,
               Limited(o) \/ ReadFails(o) \/ Reject(o) \/ LookupFails(o) \/ TakeAnswer(o) \/ TimesOut(o)
        PROVE  Excused(q)
    <3>1. CASE Limited(o) \/ ReadFails(o)
      <4>1. reply' = [reply EXCEPT ![o] = [kind |-> "none", about |-> o]]
        BY <3>1 DEF Limited, ReadFails, Finish
      <4> QED BY <2>0, <4>1
    <3>2. CASE Reject(o) BY <2>1, <3>2 DEF Reject, Active
    <3>3. CASE LookupFails(o) BY <2>1, <3>3 DEF LookupFails, Active
    <3>4. CASE TakeAnswer(o) BY <2>1, <3>4 DEF TakeAnswer, Active
    <3>5. CASE TimesOut(o) BY <2>1, <3>5 DEF TimesOut, Active
    <3> QED BY <2>2, <3>1, <3>2, <3>3, <3>4, <3>5
  <2>3. ASSUME NEW o \in Request, ReadUDP(o) PROVE FALSE
    <3>1. CASE reply' = reply BY <3>1
    <3>2. ASSUME NEW kind \in {"none", "slip", "refused"},
                 reply' = [reply EXCEPT ![o].kind = kind]
          PROVE  FALSE
      <4>1. CASE o = q
        <5>1. reply'[q].kind = kind BY <2>0, <3>2, <4>1 DEF Replies
        <5> QED BY <5>1
      <4>2. CASE o # q BY <2>0, <3>2, <4>2
      <4> QED BY <4>1, <4>2
    <3> QED BY <2>3, <3>1, <3>2 DEF ReadUDP
  <2>4. ASSUME reply' = reply PROVE FALSE BY <2>4
  <2>5. ASSUME NEW o \in Request,
               OverCap(o) \/ Admit(o) \/ Read(o) \/ Race(o)
        PROVE  FALSE
    BY <2>4, <2>5 DEF OverCap, Admit, Read, Race
  <2>6. ASSUME NEW o \in Request, NEW s \in Slave,
               WorkerReceives(o, s) \/ WorkerFails(o, s) \/ WorkerSends(o, s)
        PROVE  FALSE
    BY <2>4, <2>6 DEF WorkerReceives, WorkerFails, WorkerSends
  <2>7. ~Stop /\ ~Tick BY <2>4 DEF Stop, Tick
  <2> QED BY <2>2, <2>3, <2>5, <2>6, <2>7 DEF Next
<1> QED BY <1>1, RouterInvariant, PTL DEF Spec, LostOnlyLate
=============================================================================
