-------------------------------- MODULE Slave --------------------------------
(***************************************************************************)
(* A slave's copy of the database (internal/slave): the start from the     *)
(* snapshot, the poll loop, the push handlers, swapDB and the snapshot     *)
(* files, with crashes at any point.  A database is the number of the      *)
(* master's build; its file is two blocks, so that a file can be partly    *)
(* written.  Files are inodes: a rename moves a name, while a goroutine    *)
(* that holds the file open goes on writing to the same inode.             *)
(***************************************************************************)
EXTENDS Integers, FiniteSets

CONSTANTS Pushers,        \* handler goroutines of POST /db
          MaxBuilds,      \* bound: databases the master builds
          SignedBuilds,   \* those with DNSSECEnabled
          Alike,          \* builds whose dumps have the same layout (re-signs)
          MaxFaults       \* bound: crashes, failed requests and failed saves

Thread == {"main"} \cup Pushers

Build == 1..MaxBuilds

NoDB == 0                 \* the nil *db.DB; also a block not yet written

Torn == -1                \* bytes that are no database

Mixed == -2               \* a database that decodes, from parts of two builds

ASSUME SlaveAssumption ==
    /\ IsFiniteSet(Pushers) /\ "main" \notin Pushers
    /\ MaxBuilds \in Nat /\ MaxFaults \in Nat
    /\ SignedBuilds \subseteq Build /\ Alike \subseteq Build

Inode == 1..Cardinality(Thread) + 2
NoFile == 0

VARIABLES
    built,                \* builds the master has made
    masterDB,             \* what the master answers GET /db/dump with
    inflight,             \* pushes on their way to this slave
    faults,
    phase,                \* MainLoop: "load", "poll" (initial), "serve"
    snapshotLoaded,
    pc,                   \* where each goroutine is in swapDB
    got,                  \* the newDB each goroutine has decoded
    chain,                \* the NSEC3 chain each goroutine has rebuilt
    currDB, nsec3Chain,
    tmp, path,            \* the inodes named path.tmp and path
    fd,                   \* the inode each goroutine has open
    data,                 \* the two blocks of every inode
    overlapped            \* history: two saves have run at the same time

masterVars == <<built, masterDB, inflight>>
memVars    == <<currDB, nsec3Chain>>
fileVars   == <<tmp, path, fd, data, overlapped>>
localVars  == <<pc, got, chain>>
vars == <<masterVars, faults, phase, snapshotLoaded, localVars, memVars, fileVars>>

Blank == [n \in 1..2 |-> NoDB]

Saving == {"write", "extend", "rename"}

TypeOK ==
    /\ built \in 0..MaxBuilds /\ masterDB \in 0..built
    /\ inflight \subseteq 1..built /\ faults \in 0..MaxFaults
    /\ phase \in {"load", "poll", "serve"} /\ snapshotLoaded \in BOOLEAN
    /\ pc \in [Thread -> {"idle", "chain", "swap", "open"} \cup Saving]
    /\ got \in [Thread -> Mixed..built] /\ chain \in [Thread -> Mixed..built]
    /\ currDB \in Mixed..built /\ nsec3Chain \in Mixed..built
    /\ tmp \in Inode \cup {NoFile} /\ path \in Inode \cup {NoFile}
    /\ fd \in [Thread -> Inode \cup {NoFile}]
    /\ data \in [Inode -> [1..2 -> Mixed..built]]
    /\ overlapped \in BOOLEAN

Init ==
    /\ built = 0 /\ masterDB = NoDB /\ inflight = {} /\ faults = 0
    /\ phase = "load" /\ snapshotLoaded = FALSE
    /\ pc = [t \in Thread |-> "idle"] /\ got = [t \in Thread |-> NoDB]
    /\ chain = [t \in Thread |-> NoDB]
    /\ currDB = NoDB /\ nsec3Chain = NoDB
    /\ tmp = NoFile /\ path = NoFile /\ fd = [t \in Thread |-> NoFile]
    /\ data = [i \in Inode |-> Blank]
    /\ overlapped = FALSE

Fault == faults < MaxFaults /\ faults' = faults + 1

-----------------------------------------------------------------------------
(* The master, as Master.tla lets it behave.                               *)

(* A rebuild installs a new database and starts a push.                    *)
MasterBuild ==
    /\ built < MaxBuilds /\ built' = built + 1
    /\ masterDB' = built' /\ inflight' = inflight \cup {built'}
    /\ UNCHANGED <<faults, phase, snapshotLoaded, localVars, memVars, fileVars>>

(* A slow rebuild of the other goroutine puts an older database back.      *)
MasterStaleSwap(b) ==
    /\ Fault /\ masterDB # NoDB /\ b < masterDB
    /\ masterDB' = b /\ inflight' = inflight \cup {b}
    /\ UNCHANGED <<built, phase, snapshotLoaded, localVars, memVars, fileVars>>

(* Mutant of MasterRestart: a master without a database pushes it anyway.  *)
MasterRestartPushes ==
    /\ Fault /\ built < MaxBuilds /\ masterDB # NoDB /\ masterDB' = NoDB
    /\ inflight' = inflight \cup {masterDB'}
    /\ UNCHANGED <<built, phase, snapshotLoaded, localVars, memVars, fileVars>>

(* A restarted master has no database until its initial rebuild (for which *)
(* the bound on builds leaves room).                                       *)
MasterRestart ==
    /\ Fault /\ built < MaxBuilds /\ masterDB # NoDB /\ masterDB' = NoDB
    /\ UNCHANGED <<built, inflight, phase, snapshotLoaded, localVars, memVars, fileVars>>

(* A push fails: refused while the slave does not listen, timed out, or    *)
(* never sent because the discovery record did not resolve.                *)
PushLost(b) ==
    /\ b \in inflight /\ inflight' = inflight \ {b}
    /\ UNCHANGED <<built, masterDB, faults, phase, snapshotLoaded, localVars, memVars, fileVars>>

-----------------------------------------------------------------------------
(* Snapshot files.                                                         *)

(* What the two blocks of a file amount to.  A block that was not written  *)
(* does not decode; blocks of dumps that are laid out alike do, whichever  *)
(* build each comes from.                                                  *)
Decoded(b, c) ==
    IF b = c /\ b # NoDB THEN b
    ELSE IF {b, c} \subseteq Alike \cup {Mixed} THEN Mixed ELSE Torn

Content(i) == IF i = NoFile THEN NoDB ELSE Decoded(data[i][1], data[i][2])

(* parseSnapshot checks that the JSON decodes, and nothing more.           *)
Decodes(c) == c \in Build \cup {Mixed}

(* Only named or open inodes keep their blocks.                            *)
Keep(d) ==
    [i \in Inode |->
        IF i \in {tmp', path'} \/ \E t \in Thread : fd'[t] = i THEN d[i] ELSE Blank]

FreeInode == CHOOSE i \in Inode : i \notin {tmp, path} /\ \A t \in Thread : fd[t] # i

-----------------------------------------------------------------------------
(* Requests.                                                               *)

Accept(t, b) ==
    /\ got' = [got EXCEPT ![t] = b] /\ pc' = [pc EXCEPT ![t] = "chain"]
    /\ UNCHANGED chain

(* MainLoop starts from a snapshot it can decode ...                       *)
LoadSnapshot ==
    /\ phase = "load" /\ pc["main"] = "idle"
    /\ Decodes(Content(path))
    /\ Accept("main", Content(path)) /\ snapshotLoaded' = TRUE
    /\ UNCHANGED <<masterVars, faults, phase, memVars, fileVars>>

(* ... and goes on without one otherwise.                                  *)
NoSnapshot ==
    /\ phase = "load" /\ pc["main"] = "idle"
    /\ ~Decodes(Content(path))
    /\ phase' = "poll"
    /\ UNCHANGED <<masterVars, faults, snapshotLoaded, localVars, memVars, fileVars>>

(* Mutant of Poll: a database that is already served is not swapped in.    *)
PollChanged ==
    /\ phase \in {"poll", "serve"} /\ pc["main"] = "idle"
    /\ masterDB \in Build
    /\ \/ masterDB # currDB /\ Accept("main", masterDB) /\ UNCHANGED phase
       \/ masterDB = currDB /\ phase' = "serve" /\ UNCHANGED localVars
    /\ UNCHANGED <<masterVars, faults, snapshotLoaded, memVars, fileVars>>

(* poll reads the master's dump; what it read may be old when it is used.  *)
Poll ==
    /\ phase \in {"poll", "serve"} /\ pc["main"] = "idle"
    /\ masterDB \in Build
    /\ Accept("main", masterDB)
    /\ UNCHANGED <<masterVars, faults, phase, snapshotLoaded, memVars, fileVars>>

(* The process ends; the files stay as they are.                           *)
Stop ==
    /\ phase' = "load" /\ snapshotLoaded' = FALSE
    /\ pc' = [t \in Thread |-> "idle"] /\ got' = [t \in Thread |-> NoDB]
    /\ chain' = [t \in Thread |-> NoDB]
    /\ currDB' = NoDB /\ nsec3Chain' = NoDB
    /\ fd' = [t \in Thread |-> NoFile]
    /\ UNCHANGED <<tmp, path, overlapped>>
    /\ data' = Keep(data)

InitialPollFails ==
    /\ phase = "poll" /\ pc["main"] = "idle"
    /\ \/ masterDB = NoDB /\ UNCHANGED faults
       \/ Fault

(* Without a snapshot a failed initial poll ends the process, which        *)
(* Kubernetes then starts again ...                                        *)
GiveUp ==
    /\ InitialPollFails /\ ~snapshotLoaded
    /\ Stop
    /\ UNCHANGED masterVars

(* ... with one the slave serves the snapshot.                             *)
ServeSnapshot ==
    /\ InitialPollFails /\ snapshotLoaded
    /\ phase' = "serve"
    /\ UNCHANGED <<masterVars, snapshotLoaded, localVars, memVars, fileVars>>

(* handleDBPush, in the goroutine of its connection.                       *)
Push(h, b) ==
    /\ phase = "serve" /\ pc[h] = "idle"
    /\ b \in inflight /\ inflight' = inflight \ {b}
    /\ Accept(h, b)
    /\ UNCHANGED <<built, masterDB, faults, phase, snapshotLoaded, memVars, fileVars>>

-----------------------------------------------------------------------------
(* swapDB: the chain is rebuilt, then both are swapped under s.mu, and the *)
(* snapshot is saved outside it.                                           *)

(* RebuildNSEC3Chain for a signed database, nil otherwise.                 *)
ChainOf(b) == IF b \in SignedBuilds \cup {Mixed} THEN b ELSE NoDB

(* Mutant of RebuildChain: the chain is published before the database is.  *)
RebuildChainShared(t) ==
    /\ pc[t] = "chain" /\ pc' = [pc EXCEPT ![t] = "swap"]
    /\ chain' = [chain EXCEPT ![t] = ChainOf(got[t])]
    /\ nsec3Chain' = ChainOf(got[t])
    /\ UNCHANGED <<masterVars, faults, phase, snapshotLoaded, got, currDB, fileVars>>

(* A rebuild that fails is logged and swapDB goes on with a nil chain.     *)
RebuildChain(t) ==
    /\ pc[t] = "chain" /\ pc' = [pc EXCEPT ![t] = "swap"]
    /\ \E c \in {ChainOf(got[t]), NoDB} : chain' = [chain EXCEPT ![t] = c]
    /\ UNCHANGED <<masterVars, faults, phase, snapshotLoaded, got, memVars, fileVars>>

Swap(t) ==
    /\ pc[t] = "swap" /\ pc' = [pc EXCEPT ![t] = "open"]
    /\ currDB' = got[t] /\ nsec3Chain' = chain[t]
    /\ chain' = [chain EXCEPT ![t] = NoDB]
    /\ UNCHANGED <<masterVars, faults, phase, snapshotLoaded, got, fileVars>>

(* swapDB returns; MainLoop moves on.                                      *)
Return(t) ==
    /\ pc' = [pc EXCEPT ![t] = "idle"] /\ got' = [got EXCEPT ![t] = NoDB]
    /\ fd' = [fd EXCEPT ![t] = NoFile]
    /\ UNCHANGED chain
    /\ phase' = CASE t # "main" -> phase
                  [] phase = "load" -> "poll"
                  [] OTHER -> "serve"

(* Mutant of OpenTmp: the snapshot is written in place, over its old bytes. *)
OpenOver(t) ==
    LET i == IF path # NoFile THEN path ELSE FreeInode IN
    /\ pc[t] = "open" /\ pc' = [pc EXCEPT ![t] = "write"]
    /\ path' = i /\ fd' = [fd EXCEPT ![t] = i] /\ UNCHANGED tmp
    /\ data' = Keep(data)
    /\ overlapped' = (overlapped \/ \E u \in Thread \ {t} : pc[u] \in Saving)
    /\ UNCHANGED <<masterVars, faults, phase, snapshotLoaded, got, chain, memVars>>

(* Mutant of OpenTmp: the snapshot is truncated and written in place.      *)
OpenInPlace(t) ==
    LET i == IF path # NoFile THEN path ELSE FreeInode IN
    /\ pc[t] = "open" /\ pc' = [pc EXCEPT ![t] = "write"]
    /\ path' = i /\ fd' = [fd EXCEPT ![t] = i] /\ UNCHANGED tmp
    /\ data' = Keep([data EXCEPT ![i] = Blank])
    /\ overlapped' = (overlapped \/ \E u \in Thread \ {t} : pc[u] \in Saving)
    /\ UNCHANGED <<masterVars, faults, phase, snapshotLoaded, got, chain, memVars>>

(* os.WriteFile opens path.tmp with O_CREATE and O_TRUNC ...               *)
OpenTmp(t) ==
    LET i == IF tmp # NoFile THEN tmp ELSE FreeInode IN
    /\ pc[t] = "open" /\ pc' = [pc EXCEPT ![t] = "write"]
    /\ tmp' = i /\ fd' = [fd EXCEPT ![t] = i] /\ UNCHANGED path
    /\ data' = Keep([data EXCEPT ![i] = Blank])
    /\ overlapped' = (overlapped \/ \E u \in Thread \ {t} : pc[u] \in Saving)
    /\ UNCHANGED <<masterVars, faults, phase, snapshotLoaded, got, chain, memVars>>

(* ... and writes the blocks at its own offset.                            *)
WriteBlock(t) ==
    /\ pc[t] \in {"write", "extend"}
    /\ LET n == IF pc[t] = "write" THEN 1 ELSE 2 IN
       data' = [data EXCEPT ![fd[t]][n] = got[t]]
    /\ pc' = [pc EXCEPT ![t] = IF pc[t] = "write" THEN "extend" ELSE "rename"]
    /\ UNCHANGED <<masterVars, faults, phase, snapshotLoaded, got, chain, memVars,
                   tmp, path, fd, overlapped>>

(* os.Rename; another save may have moved path.tmp away already (ENOENT).  *)
Rename(t) ==
    /\ pc[t] = "rename"
    /\ path' = IF tmp # NoFile THEN tmp ELSE path
    /\ tmp' = NoFile
    /\ Return(t)
    /\ data' = Keep(data)
    /\ UNCHANGED <<masterVars, faults, snapshotLoaded, memVars, overlapped>>

(* A failed open, write or rename (disk full) is logged.                   *)
SaveFails(t) ==
    /\ Fault /\ pc[t] \in {"open"} \cup Saving
    /\ UNCHANGED <<tmp, path, overlapped>>
    /\ Return(t)
    /\ data' = Keep(data)
    /\ UNCHANGED <<masterVars, snapshotLoaded, memVars>>

SwapDB(t) == RebuildChain(t) \/ Swap(t) \/ OpenTmp(t) \/ WriteBlock(t) \/ Rename(t)

(* The process is killed at any point.                                     *)
Crash == Fault /\ Stop /\ UNCHANGED masterVars

Next ==
    \/ MasterBuild \/ MasterRestart
    \/ \E b \in Build : MasterStaleSwap(b) \/ PushLost(b)
    \/ LoadSnapshot \/ NoSnapshot \/ Poll \/ GiveUp \/ ServeSnapshot
    \/ \E h \in Pushers, b \in Build : Push(h, b)
    \/ \E t \in Thread : SwapDB(t) \/ SaveFails(t)
    \/ Crash

Spec == Init /\ [][Next]_vars

(* Goroutines run and the poll ticker ticks; nothing is assumed of the     *)
(* master, of pushes, or of crashes.                                       *)
FairSpec ==
    /\ Spec
    /\ WF_vars(LoadSnapshot \/ NoSnapshot) /\ WF_vars(Poll)
    /\ \A t \in Thread : WF_vars(SwapDB(t))

-----------------------------------------------------------------------------
(* Properties.                                                             *)

(* The NSEC3 chain a query reads is that of the database it reads with it, *)
(* or nil where its rebuild failed, whatever pushes and polls are swapping *)
(* (slave.go swapDB, dns.go handleDNS).                                    *)
ChainMatchesDB == nsec3Chain \in {ChainOf(currDB), NoDB}

(* What is served is one build of the master, although parseSnapshot       *)
(* accepts any bytes that decode: a database of two builds is served only  *)
(* by a process that started from a snapshot, and only when two saves have *)
(* run at the same time, never for a crash or a failed write alone         *)
(* (snapshot.go, slave.go MainLoop).                                       *)
ServesWhole == currDB \in {Torn, Mixed} => overlapped /\ snapshotLoaded

(* The file holds one build, or there is none.                             *)
Whole(i) == Content(i) \notin {Torn, Mixed}

(* "a crash mid-write never leaves a corrupt file" (snapshot.go): a process *)
(* that starts finds no snapshot or a whole one.                           *)
RestartFindsWhole == phase = "load" => Whole(path)

(* As long as no two saves have run at the same time, the snapshot is      *)
(* whole at every moment: neither a crash nor a failed write tears it      *)
(* (snapshot.go saveSnapshot writes beside it and renames).                *)
WholeUnlessOverlap == ~overlapped => Whole(path)

(* When the master settles and faults are over, the slave serves the       *)
(* master's database and has it on disk, also after late pushes or torn    *)
(* snapshots: every poll swaps and saves again (sync.go, slave.go).        *)
Converges == <>[](masterDB # NoDB => currDB = masterDB /\ Content(path) = masterDB)

-----------------------------------------------------------------------------
(* The parts of the inductive invariant behind the safety properties.      *)

(* What swapDB handles has decoded.                                        *)
GotDecoded == \A t \in Thread : pc[t] # "idle" => Decodes(got[t])

(* A database of two builds comes from the snapshot of a slave whose saves *)
(* have overlapped.                                                        *)
MixedFromSnapshot ==
    /\ currDB # Torn
    /\ currDB = Mixed \/ (\E t \in Thread : got[t] = Mixed) => overlapped /\ snapshotLoaded

(* The chain a goroutine is about to swap in belongs to its database.      *)
ChainFollows == \A t \in Thread : pc[t] = "swap" => chain[t] \in {ChainOf(got[t]), NoDB}

(* path and path.tmp never name the same file.                             *)
NamesApart == tmp = path => tmp = NoFile

(* How far a save has come: it writes to path.tmp and has written the      *)
(* blocks before its position.                                             *)
Progress(t) ==
    /\ tmp # NoFile /\ fd[t] = tmp
    /\ pc[t] \in {"extend", "rename"} => data[tmp][1] = got[t]
    /\ pc[t] = "rename" => data[tmp][2] = got[t]

OneSaver == \A t, u \in Thread : pc[t] \in Saving /\ pc[u] \in Saving => t = u

PathWhole == path # NoFile => data[path][1] \in Build /\ data[path][2] = data[path][1]

SavedWhole ==
    ~overlapped => OneSaver /\ PathWhole /\ \A t \in Thread : pc[t] \in Saving => Progress(t)
=============================================================================
