----------------------------- MODULE SlaveProofs -----------------------------
(***************************************************************************)
(* Proofs about Slave for every number of push handlers, builds and        *)
(* faults.                                                                 *)
(***************************************************************************)
EXTENDS Slave, FiniteSetTheorems, TLAPS

(* What a file yields is garbage, a mixture, nothing or a build the master *)
(* has made.                                                               *)
LEMMA ContentType ==
  ASSUME TypeOK, NEW i \in Inode \cup {NoFile}
  PROVE  Content(i) \in Mixed..built
<1>1. built \in Nat BY SlaveAssumption DEF TypeOK
<1>2. CASE i = NoFile BY <1>1, <1>2 DEF Content, Mixed, NoDB
<1>3. CASE i # NoFile
  <2>1. data[i] \in [1..2 -> Mixed..built] BY <1>3 DEF TypeOK
  <2>2. data[i][1] \in Mixed..built BY <2>1
  <2> QED BY <1>1, <1>3, <2>2 DEF Content, Decoded, Torn, Mixed
<1> QED BY <1>2, <1>3

(* Inodes: a goroutine holds at most one open, path names one more, so a   *)
(* file that is created gets one that nobody uses.                         *)
LEMMA FreeInodeExists ==
  ASSUME TypeOK, tmp = NoFile
  PROVE  /\ FreeInode \in Inode /\ FreeInode \notin {tmp, path}
         /\ \A t \in Thread : fd[t] # FreeInode
<1> DEFINE Open == {fd[t] : t \in Thread}
<1> DEFINE Used == Open \cup {path}
<1>1. IsFiniteSet(Thread) /\ Cardinality(Thread) \in Nat
  <2>1. IsFiniteSet(Pushers \cup {"main"}) BY SlaveAssumption, FS_AddElement
  <2>2. Thread = Pushers \cup {"main"} BY DEF Thread
  <2>3. IsFiniteSet(Thread) BY <2>1, <2>2
  <2> QED BY <2>3, FS_CardinalityType
<1>2. fd \in Surjection(Thread, Open)
  BY DEF TypeOK, Surjection
<1>3. IsFiniteSet(Open) /\ Cardinality(Open) <= Cardinality(Thread)
  <2> HIDE DEF Open
  <2> QED BY <1>1, <1>2, FS_Surjection
<1>4. IsFiniteSet(Used) /\ Cardinality(Used) <= Cardinality(Thread) + 1 /\ Cardinality(Used) \in Nat
  <2> HIDE DEF Open
  <2>1. Cardinality(Open) \in Nat BY <1>3, FS_CardinalityType
  <2>2. /\ IsFiniteSet(Used)
        /\ Cardinality(Used) = IF path \in Open THEN Cardinality(Open) ELSE Cardinality(Open) + 1
    BY <1>3, FS_AddElement
  <2> QED BY <1>1, <1>3, <2>1, <2>2
<1>5. Cardinality(Inode) = Cardinality(Thread) + 2
  <2> DEFINE n == Cardinality(Thread) + 2
  <2>1. Inode = 1..n BY DEF Inode
  <2>2. n \in Int /\ ~(1 > n) /\ n - 1 + 1 = n BY <1>1
  <2> HIDE DEF n
  <2>3. Cardinality(1..n) = IF 1 > n THEN 0 ELSE n - 1 + 1 BY <2>2, FS_Interval
  <2>4. Cardinality(Inode) = n BY <2>1, <2>2, <2>3
  <2> QED BY <2>4 DEF n
<1>6. ~(Inode \subseteq Used)
  <2> HIDE DEF Used
  <2>1. SUFFICES ASSUME Inode \in SUBSET Used PROVE FALSE OBVIOUS
  <2>2. Cardinality(Inode) <= Cardinality(Used) BY <1>4, <2>1, FS_Subset
  <2> QED BY <2>2, <1>1, <1>4, <1>5
<1>7. PICK i \in Inode : i \notin Used BY <1>6
<1>8. i # tmp
  <2>1. NoFile \notin Inode BY DEF Inode, NoFile
  <2> QED BY <2>1, <1>7
<1>9. i \notin {tmp, path} /\ \A t \in Thread : fd[t] # i BY <1>7, <1>8
<1> QED BY <1>9 DEF FreeInode

(* The inode OpenTmp opens is a real one and is not the snapshot's.        *)
LEMMA OpenedInode ==
  ASSUME TypeOK, NamesApart
  PROVE  LET i == IF tmp # NoFile THEN tmp ELSE FreeInode
         IN  i \in Inode /\ i # path
<1>1. CASE tmp # NoFile BY <1>1 DEF TypeOK, NamesApart
<1>2. CASE tmp = NoFile BY <1>2, FreeInodeExists
<1> QED BY <1>1, <1>2

(* Inodes that are not named or open any more lose their blocks, the named *)
(* ones keep them.                                                         *)
LEMMA Kept ==
  ASSUME NEW S, Blank \in S, NEW d \in [Inode -> S]
  PROVE  /\ Keep(d) \in [Inode -> S]
         /\ \A i \in Inode \cap {tmp', path'} : Keep(d)[i] = d[i]
BY DEF Keep

-----------------------------------------------------------------------------

LEMMA BlankType == ASSUME TypeOK PROVE Blank \in [1..2 -> Mixed..built]
<1>1. 0 \in Mixed..built BY SlaveAssumption DEF TypeOK, Mixed
<1> QED BY <1>1 DEF Blank, NoDB

MemInv == TypeOK /\ GotDecoded /\ ChainFollows /\ NamesApart /\ ChainMatchesDB

(* Types are kept by a step that ends the process.                         *)
LEMMA StopKeeps ==
  ASSUME MemInv, Stop, UNCHANGED masterVars, faults' \in 0..MaxFaults
  PROVE  MemInv'
<1> USE DEF MemInv
<1>1. data' \in [Inode -> [1..2 -> Mixed..built]]
  <2>1. data' = Keep(data) BY DEF Stop
  <2> QED BY <2>1, BlankType, Kept DEF TypeOK
<1>2. NoDB \in Mixed..built
  BY SlaveAssumption DEF TypeOK, NoDB, Mixed
<1>3. TypeOK' BY <1>1, <1>2 DEF Stop, TypeOK, masterVars
<1>4. ChainMatchesDB'
  BY DEF Stop, ChainMatchesDB
<1> QED BY <1>3, <1>4
  DEF Stop, GotDecoded, ChainFollows, NamesApart

(* A request that was decoded keeps the types.                             *)
LEMMA AcceptKeeps ==
  ASSUME MemInv, NEW t \in Thread, NEW b \in Mixed..built, Decodes(b), Accept(t, b),
         UNCHANGED <<built, masterDB, faults, phase, memVars, fileVars>>,
         inflight' \subseteq inflight, snapshotLoaded' \in BOOLEAN
  PROVE  MemInv'
<1> USE DEF MemInv, memVars, fileVars
<1>1. TypeOK' BY DEF TypeOK, Accept
<1>2. GotDecoded' /\ ChainFollows' BY DEF GotDecoded, ChainFollows, Accept, TypeOK
<1> QED BY <1>1, <1>2 DEF NamesApart, ChainMatchesDB

(* The types survive swapDB's return (slave.go swapDB).                    *)
LEMMA ReturnKeeps ==
  ASSUME MemInv, NEW t \in Thread, Return(t), data' = Keep(data),
         UNCHANGED <<masterVars, memVars, snapshotLoaded, overlapped>>,
         faults' \in 0..MaxFaults, tmp' \in {tmp, NoFile}, path' \in {path, tmp},
         tmp' = path' => tmp' = NoFile
  PROVE  MemInv'
<1> USE DEF MemInv, masterVars, memVars
<1>1. data' \in [Inode -> [1..2 -> Mixed..built]]
  BY BlankType, Kept DEF TypeOK
<1>2. NoDB \in Mixed..built
  BY SlaveAssumption DEF TypeOK, NoDB, Mixed
<1>3. phase' \in {"load", "poll", "serve"} BY DEF Return, TypeOK
<1>4. TypeOK' BY <1>1, <1>2, <1>3 DEF Return, TypeOK
<1>5. GotDecoded' /\ ChainFollows' BY DEF Return, GotDecoded, ChainFollows, TypeOK
<1> QED BY <1>4, <1>5 DEF NamesApart, ChainMatchesDB

LEMMA MemInvariant == Spec => []MemInv
<1>1. Init => MemInv
  <2> SUFFICES ASSUME Init PROVE MemInv
    OBVIOUS
  <2>1. /\ 0 \in 0..MaxBuilds /\ 0 \in 0..0 /\ 0 \in 0..MaxFaults /\ NoDB \in Mixed..0
        /\ Blank \in [1..2 -> Mixed..0]
    BY SlaveAssumption DEF NoDB, Mixed, Blank
  <2>2. TypeOK BY <2>1 DEF Init, TypeOK, NoDB
  <2>3. ChainMatchesDB BY DEF Init, ChainMatchesDB
  <2> QED BY <2>2, <2>3
    DEF MemInv, Init, GotDecoded, ChainFollows, NamesApart
<1>2. MemInv /\ [Next]_vars => MemInv'
  <2> SUFFICES ASSUME MemInv, [Next]_vars PROVE MemInv'
    OBVIOUS
  <2> USE DEF masterVars, memVars, fileVars, localVars
  <2>0. /\ TypeOK /\ GotDecoded /\ ChainFollows /\ NamesApart /\ ChainMatchesDB
        /\ built \in Nat /\ MaxBuilds \in Nat /\ MaxFaults \in Nat
    BY SlaveAssumption DEF MemInv, TypeOK
  <2>a. ASSUME UNCHANGED <<phase, snapshotLoaded, localVars, memVars, fileVars>>, TypeOK'
        PROVE  MemInv'
    BY <2>0, <2>a DEF MemInv, GotDecoded, ChainFollows, NamesApart, ChainMatchesDB
  <2>1. CASE MasterBuild
    <3>1. built' = built + 1 /\ built' \in 0..MaxBuilds BY <2>0, <2>1 DEF MasterBuild
    <3>2. Mixed..built \subseteq Mixed..built' /\ 1..built \subseteq 1..built'
      BY <2>0, <3>1 DEF Mixed
    <3>3. masterDB' \in 0..built' /\ inflight' \subseteq 1..built'
      BY <2>0, <2>1, <3>1, <3>2 DEF MasterBuild, TypeOK
    <3>4. data \in [Inode -> [1..2 -> Mixed..built']] BY <2>0, <3>2 DEF TypeOK
    <3>5. TypeOK' BY <2>0, <2>1, <3>1, <3>2, <3>3, <3>4 DEF MasterBuild, TypeOK
    <3> QED BY <2>1, <2>a, <3>5 DEF MasterBuild
  <2>2. CASE MasterRestart
    <3>1. TypeOK' BY <2>0, <2>2 DEF MasterRestart, TypeOK, Fault, NoDB
    <3> QED BY <2>2, <2>a, <3>1 DEF MasterRestart
  <2>3. ASSUME NEW b \in Build, MasterStaleSwap(b) PROVE MemInv'
    <3>1. b \in 1..built /\ b \in 0..built
      BY <2>0, <2>3 DEF MasterStaleSwap, TypeOK, Build
    <3>2. TypeOK' BY <2>0, <2>3, <3>1 DEF MasterStaleSwap, TypeOK, Fault
    <3> QED BY <2>3, <2>a, <3>2 DEF MasterStaleSwap
  <2>4. ASSUME NEW b \in Build, PushLost(b) PROVE MemInv'
    <3>1. TypeOK' BY <2>0, <2>4 DEF PushLost, TypeOK
    <3> QED BY <2>4, <2>a, <3>1 DEF PushLost
  <2>5. CASE LoadSnapshot
    <3>1. path \in Inode \cup {NoFile} BY <2>0 DEF TypeOK
    <3>2. Content(path) \in Mixed..built /\ "main" \in Thread
      BY <2>0, <3>1, ContentType DEF Thread
    <3>3. Decodes(Content(path)) BY <2>5 DEF LoadSnapshot
    <3>4. /\ Accept("main", Content(path)) /\ snapshotLoaded' \in BOOLEAN
          /\ UNCHANGED <<masterVars, faults, phase, memVars, fileVars>>
      BY <2>5 DEF LoadSnapshot
    <3> QED BY <2>0, <3>2, <3>3, <3>4, AcceptKeeps
  <2>6. CASE NoSnapshot
    BY <2>0, <2>6 DEF NoSnapshot, MemInv, TypeOK, GotDecoded, ChainFollows, NamesApart, ChainMatchesDB
  <2>7. CASE Poll
    <3>1. masterDB \in Mixed..built /\ Decodes(masterDB) /\ "main" \in Thread
      BY <2>0, <2>7 DEF Poll, TypeOK, Thread, Decodes, Mixed
    <3>2. /\ Accept("main", masterDB) /\ snapshotLoaded' \in BOOLEAN
          /\ UNCHANGED <<masterVars, faults, phase, memVars, fileVars>>
      BY <2>0, <2>7 DEF Poll, TypeOK
    <3> QED BY <3>1, <3>2, <2>0, AcceptKeeps
  <2>8. CASE GiveUp
    <3>1. faults' \in 0..MaxFaults BY <2>0, <2>8 DEF GiveUp, InitialPollFails, Fault, TypeOK
    <3> QED BY <2>8, <3>1, StopKeeps DEF GiveUp
  <2>9. CASE ServeSnapshot
    <3>1. faults' \in 0..MaxFaults
      BY <2>0, <2>9 DEF ServeSnapshot, InitialPollFails, Fault, TypeOK
    <3> QED BY <2>0, <2>9, <3>1
          DEF ServeSnapshot, MemInv, TypeOK, GotDecoded, ChainFollows, NamesApart, ChainMatchesDB
  <2>10. ASSUME NEW h \in Pushers, NEW b \in Build, Push(h, b) PROVE MemInv'
    <3>1. b \in Mixed..built /\ Decodes(b) /\ h \in Thread
      BY <2>0, <2>10 DEF Push, TypeOK, Thread, Decodes, Mixed
    <3>2. /\ Accept(h, b) /\ snapshotLoaded' \in BOOLEAN /\ inflight' \subseteq inflight
          /\ UNCHANGED <<built, masterDB, faults, phase, memVars, fileVars>>
      BY <2>0, <2>10 DEF Push, TypeOK
    <3> QED BY <3>1, <3>2, AcceptKeeps
  <2>11. ASSUME NEW t \in Thread, RebuildChain(t) PROVE MemInv'
    <3>1. got[t] \in Mixed..built BY <2>0 DEF TypeOK
    <3>2. PICK c \in {ChainOf(got[t]), NoDB} : chain' = [chain EXCEPT ![t] = c]
      BY <2>11 DEF RebuildChain
    <3>3. c \in Mixed..built BY <2>0, <3>1, <3>2 DEF ChainOf, NoDB, Mixed
    <3>4. TypeOK' BY <2>0, <2>11, <3>2, <3>3 DEF RebuildChain, TypeOK
    <3>5. GotDecoded' /\ ChainFollows'
      BY <2>0, <2>11, <3>2 DEF RebuildChain, GotDecoded, ChainFollows, TypeOK
    <3> QED BY <2>0, <2>11, <3>4, <3>5
          DEF RebuildChain, MemInv, NamesApart, ChainMatchesDB
  <2>12. ASSUME NEW t \in Thread, Swap(t) PROVE MemInv'
    <3>1. chain[t] \in {ChainOf(got[t]), NoDB} /\ NoDB \in Mixed..built
      BY <2>0, <2>12 DEF Swap, ChainFollows, NoDB, Mixed
    <3>2. TypeOK' BY <2>0, <2>12, <3>1 DEF Swap, TypeOK
    <3>3. GotDecoded' /\ ChainFollows' BY <2>0, <2>12 DEF Swap, GotDecoded, ChainFollows, TypeOK
    <3>4. ChainMatchesDB' BY <2>12, <3>1 DEF Swap, ChainMatchesDB
    <3> QED BY <2>0, <2>12, <3>2, <3>3, <3>4 DEF Swap, MemInv, NamesApart
  <2>13. ASSUME NEW t \in Thread, OpenTmp(t) PROVE MemInv'
    <3> DEFINE i == IF tmp # NoFile THEN tmp ELSE FreeInode
    <3>1. i \in Inode /\ i # path BY <2>0, OpenedInode
    <3> HIDE DEF i
    <3>2. /\ pc[t] = "open" /\ pc' = [pc EXCEPT ![t] = "write"]
          /\ tmp' = i /\ fd' = [fd EXCEPT ![t] = i] /\ UNCHANGED path
          /\ data' = Keep([data EXCEPT ![i] = Blank])
          /\ overlapped' = (overlapped \/ \E u \in Thread \ {t} : pc[u] \in Saving)
          /\ UNCHANGED <<masterVars, faults, phase, snapshotLoaded, got, chain, memVars>>
      BY <2>13 DEF OpenTmp, i
    <3>3. data' \in [Inode -> [1..2 -> Mixed..built]]
      <4>1. [data EXCEPT ![i] = Blank] \in [Inode -> [1..2 -> Mixed..built]]
        BY <2>0, BlankType DEF TypeOK
      <4> QED BY <2>0, <3>2, <4>1, BlankType, Kept
    <3>4. overlapped' \in BOOLEAN BY <3>2
    <3>5. TypeOK' BY <2>0, <3>1, <3>2, <3>3, <3>4 DEF TypeOK, Saving
    <3>6. GotDecoded' /\ ChainFollows' BY <2>0, <3>2 DEF GotDecoded, ChainFollows, TypeOK
    <3>7. NamesApart' BY <3>1, <3>2 DEF NamesApart
    <3> QED BY <2>0, <3>2, <3>5, <3>6, <3>7 DEF MemInv, ChainMatchesDB
  <2>14. ASSUME NEW t \in Thread, WriteBlock(t) PROVE MemInv'
    <3>1. got[t] \in Mixed..built BY <2>0 DEF TypeOK
    <3>2. data' \in [Inode -> [1..2 -> Mixed..built]]
      <4>1. PICK n \in 1..2 : data' = [data EXCEPT ![fd[t]][n] = got[t]]
        <5>1. CASE pc[t] = "write"
          <6>1. data' = [data EXCEPT ![fd[t]][1] = got[t]] BY <2>14, <5>1 DEF WriteBlock
          <6> QED BY <6>1
        <5>2. CASE pc[t] = "extend"
          <6>1. data' = [data EXCEPT ![fd[t]][2] = got[t]] BY <2>14, <5>2 DEF WriteBlock
          <6> QED BY <6>1
        <5> QED BY <2>14, <5>1, <5>2 DEF WriteBlock
      <4> QED BY <2>0, <3>1, <4>1 DEF TypeOK
    <3>3. pc' \in [Thread -> {"idle", "chain", "swap", "open"} \cup Saving]
      BY <2>0, <2>14 DEF WriteBlock, TypeOK, Saving
    <3>4. TypeOK' BY <2>0, <2>14, <3>2, <3>3 DEF WriteBlock, TypeOK
    <3>5. GotDecoded' /\ ChainFollows'
      BY <2>0, <2>14 DEF WriteBlock, GotDecoded, ChainFollows, TypeOK
    <3> QED BY <2>0, <2>14, <3>4, <3>5
          DEF WriteBlock, MemInv, NamesApart, ChainMatchesDB
  <2>15. ASSUME NEW t \in Thread, Rename(t) PROVE MemInv'
    <3>1. /\ Return(t) /\ data' = Keep(data) /\ UNCHANGED <<masterVars, memVars, snapshotLoaded, overlapped>>
          /\ faults' = faults /\ tmp' = NoFile /\ path' \in {path, tmp}
      BY <2>15 DEF Rename
    <3>2. faults' \in 0..MaxFaults BY <2>0, <3>1 DEF TypeOK
    <3> QED BY <3>1, <3>2, ReturnKeeps
  <2>16. ASSUME NEW t \in Thread, SaveFails(t) PROVE MemInv'
    <3>1. /\ Return(t) /\ data' = Keep(data) /\ UNCHANGED <<masterVars, memVars, snapshotLoaded, overlapped>>
          /\ tmp' = tmp /\ path' = path
      BY <2>16 DEF SaveFails
    <3>2. faults' \in 0..MaxFaults BY <2>0, <2>16 DEF SaveFails, Fault, TypeOK
    <3> QED BY <2>0, <3>1, <3>2, ReturnKeeps DEF NamesApart
  <2>17. CASE Crash
    <3>1. faults' \in 0..MaxFaults BY <2>0, <2>17 DEF Crash, Fault, TypeOK
    <3> QED BY <2>17, <3>1, StopKeeps DEF Crash
  <2>18. CASE UNCHANGED vars
    <3>1. TypeOK' BY <2>0, <2>18 DEF vars, TypeOK
    <3> QED BY <2>18, <2>a, <3>1 DEF vars
  <2> QED
    BY <2>1, <2>2, <2>3, <2>4, <2>5, <2>6, <2>7, <2>8, <2>9, <2>10, <2>11, <2>12, <2>13,
       <2>14, <2>15, <2>16, <2>17, <2>18
    DEF Next, SwapDB
<1> QED BY <1>1, <1>2, PTL DEF Spec

(* Every buffer, inode and queue of the slave keeps its type, builds of the *)
(* master's included, whatever crashes between two steps (slave.go,         *)
(* snapshot.go).                                                            *)
THEOREM TypeCorrect == Spec => []TypeOK
<1>1. MemInv => TypeOK BY DEF MemInv
<1> QED BY <1>1, MemInvariant, PTL

(* A query reads a database with its own chain or, after a failed rebuild,  *)
(* with none, however pushes, polls, failing saves and crashes interleave   *)
(* (slave.go swapDB).                                                       *)
THEOREM PairServed == Spec => []ChainMatchesDB
<1>1. MemInv => ChainMatchesDB BY DEF MemInv
<1> QED BY <1>1, MemInvariant, PTL

-----------------------------------------------------------------------------

(* A step that touches no file and starts no save leaves the saves alone.  *)
LEMMA FilesAlone ==
  ASSUME SavedWhole, UNCHANGED fileVars,
         \A t \in Thread : pc'[t] \in Saving => pc'[t] = pc[t] /\ got'[t] = got[t]
  PROVE  SavedWhole'
BY DEF SavedWhole, OneSaver, PathWhole, Progress, fileVars

(* The named files survive the end of a process or of a save.              *)
LEMMA NamedKept ==
  ASSUME TypeOK, data' = Keep(data)
  PROVE  \A i \in Inode \cap {tmp', path'} : data'[i] = data[i]
<1>1. data \in [Inode -> [1..2 -> Mixed..built]] BY DEF TypeOK
<1> QED BY <1>1, BlankType, Kept

LEMMA StopSaved ==
  ASSUME MemInv, SavedWhole, Stop
  PROVE  SavedWhole'
<1> SUFFICES ASSUME ~overlapped' PROVE SavedWhole'
  BY DEF SavedWhole
<1>1. /\ path' = path /\ data' = Keep(data) /\ ~overlapped
      /\ pc' = [t \in Thread |-> "idle"]
  BY DEF Stop
<1>2. path \in Inode \cup {NoFile} BY DEF MemInv, TypeOK
<1>3. path # NoFile => data'[path] = data[path] BY <1>1, <1>2, NamedKept DEF MemInv
<1>4. PathWhole' BY <1>1, <1>3 DEF SavedWhole, PathWhole
<1>5. \A t \in Thread : pc'[t] \notin Saving BY <1>1 DEF Saving
<1> QED BY <1>4, <1>5 DEF SavedWhole, OneSaver

(* A whole snapshot is the only one a process finds before any two saves   *)
(* have overlapped.                                                        *)
LEMMA WholeFound ==
  ASSUME SavedWhole, ~overlapped
  PROVE  Content(path) \notin {Torn, Mixed}
<1>1. PathWhole BY DEF SavedWhole
<1> QED BY <1>1 DEF PathWhole, Content, Decoded, Torn, Mixed, NoDB, Build

(* No step brings a database of two builds into memory but a start from a  *)
(* snapshot that overlapping saves have written.                           *)
LEMMA MixedStep ==
  ASSUME MemInv, SavedWhole, MixedFromSnapshot, [Next]_vars
  PROVE  MixedFromSnapshot'
<1> USE DEF masterVars, memVars, fileVars, localVars
<1>0. TypeOK /\ GotDecoded BY DEF MemInv
<1>1. ASSUME UNCHANGED <<got, currDB>>, overlapped => overlapped',
             snapshotLoaded' = snapshotLoaded
      PROVE  MixedFromSnapshot'
  BY <1>1 DEF MixedFromSnapshot
<1>2. ASSUME NEW t \in Thread, NEW b \in Build, Accept(t, b),
             UNCHANGED <<currDB, overlapped, snapshotLoaded>>
      PROVE  MixedFromSnapshot'
  <2>1. b # Mixed BY SlaveAssumption DEF Build, Mixed
  <2>2. \A u \in Thread : got'[u] = Mixed => got[u] = Mixed
    BY <1>0, <1>2, <2>1 DEF Accept, TypeOK
  <2> QED BY <1>2, <2>2 DEF MixedFromSnapshot
<1>3. CASE LoadSnapshot
  <2>1. /\ Accept("main", Content(path)) /\ snapshotLoaded' = TRUE
        /\ UNCHANGED <<currDB, overlapped>>
    BY <1>3 DEF LoadSnapshot
  <2>2. ~overlapped => Content(path) # Mixed BY WholeFound
  <2>3. \A u \in Thread : got'[u] = Mixed => got[u] = Mixed \/ Content(path) = Mixed
    BY <1>0, <2>1 DEF Accept, TypeOK
  <2> QED BY <2>1, <2>2, <2>3 DEF MixedFromSnapshot
<1>4. ASSUME NEW t \in Thread, Swap(t) PROVE MixedFromSnapshot'
  <2>1. Decodes(got[t]) BY <1>0, <1>4 DEF Swap, GotDecoded
  <2>2. got[t] # Torn BY <2>1, SlaveAssumption DEF Decodes, Build, Torn, Mixed
  <2> QED BY <1>4, <2>2 DEF Swap, MixedFromSnapshot
<1>5. ASSUME NEW t \in Thread, Return(t), UNCHANGED <<currDB, overlapped, snapshotLoaded>>
      PROVE  MixedFromSnapshot'
  <2>1. \A u \in Thread : got'[u] = Mixed => got[u] = Mixed
    BY <1>0, <1>5 DEF Return, TypeOK, NoDB, Mixed
  <2> QED BY <1>5, <2>1 DEF MixedFromSnapshot
<1>6. CASE Stop
  BY <1>6 DEF Stop, MixedFromSnapshot, NoDB, Torn, Mixed
<1>7. CASE MasterBuild \/ MasterRestart \/ \E b \in Build : MasterStaleSwap(b) \/ PushLost(b)
  BY <1>1, <1>7 DEF MasterBuild, MasterRestart, MasterStaleSwap, PushLost
<1>8. CASE NoSnapshot \/ ServeSnapshot \/ UNCHANGED vars
  BY <1>1, <1>8 DEF NoSnapshot, ServeSnapshot, vars
<1>9. CASE Poll \/ \E h \in Pushers, b \in Build : Push(h, b)
  BY <1>2, <1>9 DEF Poll, Push, Thread
<1>10. ASSUME NEW t \in Thread, RebuildChain(t) \/ OpenTmp(t) \/ WriteBlock(t)
       PROVE  MixedFromSnapshot'
  BY <1>1, <1>10 DEF RebuildChain, OpenTmp, WriteBlock
<1>11. ASSUME NEW t \in Thread, Rename(t) \/ SaveFails(t) PROVE MixedFromSnapshot'
  BY <1>5, <1>11 DEF Rename, SaveFails
<1>12. CASE GiveUp \/ Crash
  BY <1>6, <1>12 DEF GiveUp, Crash
<1> QED BY <1>3, <1>4, <1>7, <1>8, <1>9, <1>10, <1>11, <1>12 DEF Next, SwapDB

(* Saves that do not overlap keep the snapshot whole, and a whole snapshot  *)
(* keeps mixtures out of memory, from where the next save would write them. *)
LEMMA FileInvariant == Spec => [](SavedWhole /\ MixedFromSnapshot)
<1>1. Init => SavedWhole /\ MixedFromSnapshot
  BY DEF Init, SavedWhole, OneSaver, PathWhole, Saving, MixedFromSnapshot, NoDB, Torn, Mixed
<1>2. MemInv /\ SavedWhole /\ MixedFromSnapshot /\ [Next]_vars => SavedWhole'
  <2> SUFFICES ASSUME MemInv, SavedWhole, MixedFromSnapshot, [Next]_vars PROVE SavedWhole'
    OBVIOUS
  <2>0. TypeOK /\ GotDecoded /\ NamesApart BY DEF MemInv
  <2>1. ASSUME UNCHANGED fileVars, UNCHANGED localVars PROVE SavedWhole'
    BY <2>1, FilesAlone DEF localVars
  <2>2. ASSUME NEW t \in Thread, NEW b, Accept(t, b), UNCHANGED fileVars PROVE SavedWhole'
    <3>1. \A u \in Thread : pc'[u] \in Saving => pc'[u] = pc[u] /\ got'[u] = got[u]
      BY <2>0, <2>2 DEF Accept, TypeOK, Saving
    <3> QED BY <2>2, <3>1, FilesAlone
  <2>3. ASSUME NEW t \in Thread, RebuildChain(t) \/ Swap(t) PROVE SavedWhole'
    <3>1. \A u \in Thread : pc'[u] \in Saving => pc'[u] = pc[u] /\ got'[u] = got[u]
      BY <2>0, <2>3 DEF RebuildChain, Swap, TypeOK, Saving
    <3> QED BY <2>3, <3>1, FilesAlone DEF RebuildChain, Swap
  <2>4. CASE Stop BY <2>4, StopSaved
  <2>5. ASSUME NEW t \in Thread, OpenTmp(t), ~overlapped' PROVE SavedWhole'
    <3> DEFINE i == IF tmp # NoFile THEN tmp ELSE FreeInode
    <3>1. i \in Inode /\ i # path BY <2>0, OpenedInode
    <3> HIDE DEF i
    <3>2. /\ pc' = [pc EXCEPT ![t] = "write"] /\ tmp' = i /\ fd' = [fd EXCEPT ![t] = i]
          /\ path' = path /\ data' = Keep([data EXCEPT ![i] = Blank])
          /\ overlapped' = (overlapped \/ \E u \in Thread \ {t} : pc[u] \in Saving)
      BY <2>5 DEF OpenTmp, i
    <3>3. ~overlapped /\ \A u \in Thread \ {t} : pc[u] \notin Saving BY <2>5, <3>2
    <3>4. \A u \in Thread : pc'[u] \in Saving => u = t BY <2>0, <3>2, <3>3 DEF TypeOK
    <3>5. Progress(t)'
      <4>1. i # NoFile BY <3>1 DEF Inode, NoFile
      <4>2. pc'[t] = "write" /\ fd'[t] = i BY <2>0, <3>2 DEF TypeOK
      <4> QED BY <3>2, <4>1, <4>2 DEF Progress
    <3>6. PathWhole'
      <4>1. path \in Inode \cup {NoFile} BY <2>0 DEF TypeOK
      <4> DEFINE d == [data EXCEPT ![i] = Blank]
      <4>2. d \in [Inode -> [1..2 -> Mixed..built]] BY <2>0, BlankType DEF TypeOK
      <4>3. data' = Keep(d) BY <3>2
      <4>4. path # NoFile => d[path] = data[path] BY <2>0, <3>1, <4>1 DEF TypeOK
      <4> HIDE DEF d
      <4>5. path # NoFile => path \in Inode \cap {tmp', path'} BY <3>2, <4>1
      <4>6. path # NoFile => data'[path] = data[path]
        BY <2>0, <4>2, <4>3, <4>4, <4>5, BlankType, Kept
      <4> QED BY <3>2, <3>3, <4>6 DEF SavedWhole, PathWhole
    <3> QED BY <3>4, <3>5, <3>6 DEF SavedWhole, OneSaver
  <2>6. ASSUME NEW t \in Thread, WriteBlock(t), ~overlapped' PROVE SavedWhole'
    <3> DEFINE n == IF pc[t] = "write" THEN 1 ELSE 2
    <3>1. /\ pc[t] \in {"write", "extend"} /\ data' = [data EXCEPT ![fd[t]][n] = got[t]]
          /\ pc' = [pc EXCEPT ![t] = IF pc[t] = "write" THEN "extend" ELSE "rename"]
          /\ UNCHANGED <<got, tmp, path, fd, overlapped>>
      BY <2>6 DEF WriteBlock
    <3>2. n \in 1..2 /\ ~overlapped /\ pc[t] \in Saving BY <2>6, <3>1 DEF Saving
    <3>3. OneSaver /\ PathWhole /\ Progress(t) BY <3>2 DEF SavedWhole
    <3>4. \A u \in Thread : pc'[u] \in Saving => u = t
      BY <2>0, <3>1, <3>2, <3>3 DEF TypeOK, OneSaver
    <3>5. tmp \in Inode /\ fd[t] = tmp /\ tmp # path
      BY <2>0, <3>3 DEF Progress, TypeOK, NamesApart
    <3>6. data'[tmp] = [data[tmp] EXCEPT ![n] = got[t]] /\ data[tmp] \in [1..2 -> Mixed..built]
      <4> HIDE DEF n
      <4> QED BY <2>0, <3>1, <3>2, <3>5 DEF TypeOK
    <3>7. PathWhole'
      <4>1. path # NoFile => data'[path] = data[path]
        BY <2>0, <3>1, <3>5 DEF TypeOK
      <4> QED BY <3>1, <3>3, <4>1 DEF PathWhole
    <3>8. Progress(t)'
      <4>1. pc'[t] = IF pc[t] = "write" THEN "extend" ELSE "rename" BY <2>0, <3>1 DEF TypeOK
      <4>2. CASE pc[t] = "write"
        <5>1. data'[tmp][1] = got[t] BY <3>6, <4>2
        <5> QED BY <3>1, <3>3, <4>1, <4>2, <5>1 DEF Progress
      <4>3. CASE pc[t] = "extend"
        <5>1. data[tmp][1] = got[t] BY <3>3, <4>3 DEF Progress
        <5>2. data'[tmp][1] = got[t] /\ data'[tmp][2] = got[t] BY <3>6, <4>3, <5>1
        <5> QED BY <3>1, <3>3, <4>1, <4>3, <5>2 DEF Progress
      <4> QED BY <3>1, <4>2, <4>3
    <3> QED BY <3>4, <3>7, <3>8 DEF SavedWhole, OneSaver
  <2>7. ASSUME NEW t \in Thread, Rename(t), ~overlapped' PROVE SavedWhole'
    <3>1. /\ pc[t] = "rename" /\ path' = (IF tmp # NoFile THEN tmp ELSE path) /\ tmp' = NoFile
          /\ pc' = [pc EXCEPT ![t] = "idle"] /\ data' = Keep(data) /\ ~overlapped
      BY <2>7 DEF Rename, Return
    <3>2. OneSaver /\ Progress(t) /\ pc[t] \in Saving BY <3>1 DEF SavedWhole, Saving
    <3>3. tmp \in Inode /\ path' = tmp /\ data[tmp][1] = got[t] /\ data[tmp][2] = got[t]
      BY <2>0, <3>1, <3>2 DEF Progress, TypeOK
    <3>4. data'[tmp] = data[tmp] BY <2>0, <3>1, <3>3, NamedKept
    <3>5. got[t] \in Build
      <4>1. Decodes(got[t]) BY <2>0, <3>1 DEF GotDecoded
      <4>2. got[t] # Mixed BY <3>1 DEF MixedFromSnapshot
      <4> QED BY <4>1, <4>2 DEF Decodes
    <3>6. PathWhole' BY <3>3, <3>4, <3>5 DEF PathWhole
    <3>7. \A u \in Thread : pc'[u] \notin Saving
      BY <2>0, <3>1, <3>2 DEF TypeOK, OneSaver, Saving
    <3> QED BY <3>6, <3>7 DEF SavedWhole, OneSaver
  <2>8. ASSUME NEW t \in Thread, SaveFails(t), ~overlapped' PROVE SavedWhole'
    <3>1. /\ UNCHANGED <<tmp, path>> /\ data' = Keep(data) /\ ~overlapped
          /\ pc' = [pc EXCEPT ![t] = "idle"] /\ got' = [got EXCEPT ![t] = NoDB]
          /\ fd' = [fd EXCEPT ![t] = NoFile]
      BY <2>8 DEF SaveFails, Return
    <3>2. /\ tmp # NoFile => data'[tmp] = data[tmp]
          /\ path # NoFile => data'[path] = data[path]
      <4>1. tmp \in Inode \cup {NoFile} /\ path \in Inode \cup {NoFile} BY <2>0 DEF TypeOK
      <4> QED BY <2>0, <3>1, <4>1, NamedKept
    <3>3. PathWhole' BY <3>1, <3>2 DEF SavedWhole, PathWhole
    <3>4. \A u \in Thread : pc'[u] \in Saving => u # t /\ pc'[u] = pc[u]
                                                /\ got'[u] = got[u] /\ fd'[u] = fd[u]
      BY <2>0, <3>1 DEF TypeOK, Saving
    <3>5. OneSaver' BY <3>1, <3>4 DEF SavedWhole, OneSaver
    <3>6. ASSUME NEW u \in Thread, pc'[u] \in Saving PROVE Progress(u)'
      <4>1. Progress(u) BY <3>1, <3>4, <3>6 DEF SavedWhole
      <4> QED BY <3>1, <3>2, <3>4, <3>6, <4>1 DEF Progress
    <3> QED BY <3>3, <3>5, <3>6 DEF SavedWhole
  <2>9. CASE MasterBuild \/ MasterRestart \/ \E b \in Build : MasterStaleSwap(b) \/ PushLost(b)
    BY <2>1, <2>9 DEF MasterBuild, MasterRestart, MasterStaleSwap, PushLost
  <2>10. CASE LoadSnapshot \/ Poll \/ \E h \in Pushers, b \in Build : Push(h, b)
    BY <2>2, <2>10 DEF LoadSnapshot, Poll, Push, Thread
  <2>11. CASE NoSnapshot \/ ServeSnapshot \/ UNCHANGED vars
    BY <2>1, <2>11 DEF NoSnapshot, ServeSnapshot, vars
  <2>12. CASE GiveUp \/ Crash
    BY <2>4, <2>12 DEF GiveUp, Crash
  <2>13. CASE overlapped' BY <2>13 DEF SavedWhole
  <2> QED
    BY <2>3, <2>5, <2>6, <2>7, <2>8, <2>9, <2>10, <2>11, <2>12, <2>13 DEF Next, SwapDB
<1>3. MemInv /\ SavedWhole /\ MixedFromSnapshot /\ [Next]_vars => MixedFromSnapshot'
  BY MixedStep
<1> QED BY <1>1, <1>2, <1>3, MemInvariant, PTL DEF Spec

(* As long as no two saves have overlapped, the snapshot under its name is *)
(* one build, with a crash or a failure at any step of a save (snapshot.go *)
(* saveSnapshot).                                                          *)
THEOREM SnapshotWhole == Spec => []WholeUnlessOverlap
<1>1. SavedWhole => WholeUnlessOverlap
  BY WholeFound DEF WholeUnlessOverlap, Whole
<1> QED BY <1>1, FileInvariant, PTL

(* What a slave serves is one build of the master unless it started from a *)
(* snapshot that overlapping saves have written, although parseSnapshot    *)
(* checks only that the bytes decode (snapshot.go, slave.go).              *)
THEOREM WholeServed == Spec => []ServesWhole
<1>1. MixedFromSnapshot => ServesWhole
  BY DEF MixedFromSnapshot, ServesWhole
<1> QED BY <1>1, FileInvariant, PTL
=============================================================================
