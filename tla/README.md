# A TLA+ model of xfx1-dns

xfx1-dns is an authoritative DNS server for Kubernetes. DNS records are
`DNSRecord` objects; a single **master** builds a database from them, signs it
and pushes it to **slaves**, which answer queries; a **router** in front of them
terminates UDP, TCP, DoT and DoH, limits rates and forwards; an optional
**gateway** turns RFC 2136 updates into `DNSRecord` objects. This directory
models the parts of it whose correctness depends on the order of events, and
the path from the records of a zone to the answers a client gets.

Run a check with `tlc -config <cfg> <module>`, a proof with
`tlapm <module>Proofs.tla`. `PROJECT.json` lists the runs, maps every definition
to the lines it models and lists the hazards the properties are aimed at.

## Inventory

| Component | State | Operations | Interacts with | Hard because |
|---|---|---|---|---|
| watch (`internal/watch`) | stream, channel of 16 events | connect (replays all objects), forward, skip, reconnect | API server; debouncer reads the channel | the stream breaks with events undelivered; lines that do not decode are skipped |
| debouncer (`master/debounce.go`) | quiet and deadline timer, one-place out channel | event, either timer fires | watch, main loop | timers of an old burst, endless events, full channel |
| master (`master/master.go`, `db.go`) | `current` database, retry timer | initial rebuild, triggered rebuild, retry, resign, dump, push | API server (list, secrets), slaves | two goroutines rebuild at once; records change during a rebuild; failures |
| slave (`internal/slave`) | `currDB`, `nsec3Chain`, snapshot file | load snapshot, poll, push handler, swapDB, saveSnapshot | master (poll, push), queries | pushes and polls swap and save concurrently; crashes between file operations; late pushes |
| slave answers (`slave/dns.go`, `response.go`) | none (reads `currDB`, `nsec3Chain` under one lock) | lookup, wildcard, negative answers, DNSSEC proofs | database | corner cases of lookup |
| database (`internal/db`) | indexes by type and name | NewDB, lookups, SanityChecks | master, slave | zone-boundary and CNAME rules |
| DNSSEC (`internal/dnssec`) | NSEC3 chain | build, rebuild, prove | master, slave | ring of hashes, closest encloser |
| rate limiter (`internal/ratelimit`) | bucket table, buckets, time of last GC | Allow/Check: collect, find or create, consume | router goroutines | the bucket may be evicted and the time old when it is used; table at its limit |
| router (`internal/router`) | connection semaphores, limiter | forward to every slave and take the first answer | slaves, clients | timeouts racing late answers |
| gateway (`internal/rfc2136`) | none | authenticate, check, apply a list of updates | API server | one of several API calls fails; object names collide |
| processes (`cmd/*`, `internal/runtime`) | running configuration | watch config, cancel, wait, run again | all of the above | signal or change arriving during a reload |
| Kubernetes client (`internal/k8s`) | none | list, watch, apply, delete | API server | partial results, no timeouts |

Not modelled, and not planned: the encodings of the record types and of packets
(`internal/rec`, `internal/dns`, `rfc2136/wire.go` below the level of "parses or
does not"), which have no state and on which no property depends; hashing and
signature arithmetic and the validity periods of signatures; logging, metrics,
CRD declarations, deployment files and the end-to-end test driver.

## Modules

* **Trigger** - what the debouncer promises, without time: events open a burst, a
  burst becomes one token, the main loop takes it.
* **Debounce** - `debounce.go` with its two timers, counted in ticks. It
  implements Trigger with `burst <- quietTimer # Off`, `trigger <- out > 0`; `out`
  counts the tokens in the channel, so that a second one would show.
* **Master** - the store of records, the watch stream, the debouncer (an INSTANCE
  of Trigger), the main loop with its retry timer and the resign goroutine.
  A zone maps each object to a value, `NoRecord` or `BadRecord` (an object whose
  JSON does not unmarshal). `rebuild` is split where others can step in: list,
  build (limit, serial, sanity checks), sign (reads Secrets), swap. The events on
  the stream are counts: no receiver looks into one.
* **Slave** - one slave against a master that builds, steps back (the stale swap
  Master shows to be possible) and restarts. `swapDB` is split into rebuilding
  the chain, swapping under `s.mu`, and open, write, write, rename of the
  snapshot. Files are inodes with two blocks, names point to inodes, and a
  goroutine that has a file open goes on writing after the name has moved. What a
  file decodes to follows `parseSnapshot`, which accepts any JSON of the right
  shape: `Torn` bytes do not decode, but blocks of two builds whose dumps are laid
  out alike (`Alike`, the re-signs of one zone) do, and are `Mixed`, a database no
  master has built. A rebuild of the chain may fail, which leaves a nil chain.
* **RateLimiter** - the limiter used by several goroutines: the time is read
  first, the bucket is found under the table's lock, the token is consumed under
  the bucket's lock; each is a step of its own. `heap` keeps evicted buckets, for
  goroutines may still hold them.
* **Router** - the way of a query in the router: slot, rate limit, reading under a
  deadline, lookup of the slaves, one `forwardTo` goroutine per address against
  the timer, reply. Deadlines count down in ticks; time does not pass while a
  handler whose wait is over has not run. `raw` is what the buffer of a handler
  holds, so that sharing one would show. `late` is the answers on their way to a UDP
  socket that is closed: a later `forwardTo` to the same slave may have its port and
  read one as its own, for the code compares no ID. A DoH reply is bounded by the
  HTTP server's `WriteTimeout`, which one constant with `ReadTimeout` stands for
  (both are 10 s and start with the request).
* **Reload** - the process around a component: `main` with its config watcher and
  bridge goroutine, `runtime.Run` with the goroutines of `CancelOnSignal` and
  `WithCancelChannel`, and the router's certificate watch. One module stands for
  the three `main.go`, whose loops differ only in the certificate (`HasCert`), for
  which the router also has a DoT listener (`serveDoT`; `serveDoH` is built alike).
  The places a config event can wait in (the watch channel, the watcher's hand,
  `cfgCh`) are one queue. `loadTLS` may find no certificate or fail, in which case
  the loop of `serveDoT` tries again; the inotify watch may fail, and then the round
  has none. `missed` and `certMissed` record a change that no watch could report.

* **Gateway** - the RFC 2136 gateway: start with the key of the Secret, UDP and TCP
  listeners, and one goroutine per message that parses, authenticates and checks it
  and then makes its API calls one at a time. A call may fail before or after it
  took effect; a datagram may arrive again at any time; the process may stop between
  any two calls. Owner names are sequences of characters, because what
  `sanitizeFQDN` leaves of them decides which object is written. A MAC is the key
  and what it covers, the clock is in units of the fudge. `owed` records what the
  acknowledged updates promise for each record and is reopened when a message that
  says otherwise is admitted; `clash` keeps the records two messages in flight
  disagree on, which neither is owed.
* **ZoneDB** - the database as a set of records: lookups, the wildcard walk with the
  names that block it, the additional section, every check of `SanityChecks`. A name
  is the sequence of its labels.
* **Signing** - key roles, signatures (the key and the RRset they were made of), the
  NSEC3 ring, the closest encloser proof. A hash is a number and `hash` any
  injective function, so that every order of hashes can be looked at.
* **Answers** - composes both: `Rebuild` checks and signs a zone, `swapDB` takes it
  over, `handleDNS` answers a query: early refusals, lookup, signatures, denial,
  negative authority and truncation. The operators that compute an answer take the
  database and the chain as arguments, as the functions of `response.go` do. The
  expected answers are stated over the records the authors wrote, not over the
  signed database.

Variables carry the names of the fields they model (`current`, `retryTimer` as
`retry`, `currDB`, `nsec3Chain`, `lastFill`, ...); history variables (`lastMain`,
`overlapped`, `sinceFirst`, `sinceLast`, `granted`, `missed`, `failed`, `owed`, ...)
are marked as such and no guard reads them. Operators introduced by "Mutant of" are
deliberate mistakes; no specification uses them. Each shows that one property can
fail.

## Runs

| Run | Shows |
|---|---|
| `master_safety` | `NoLostUpdate`: whenever nothing is outstanding, the main loop's last swap installed the records of the store. `ServesOnlyAccepted`: nothing is served that the record limit or SanityChecks would reject. |
| `master_live` | `Converges`: in the end an acceptable zone is served, with undecodable edits, a record that is edited so and then deleted, a wrapping serial and racing rebuilds. |
| `debounce` | Bursts end by the deadline, tokens come neither early nor spuriously, and Trigger is implemented, liveness included. |
| `slave` | A query sees a database with its own chain or none; `ServesWhole`: parts of two builds are served only by a process that started from a snapshot after two saves had overlapped, never for a crash or a failed write alone; the snapshot is whole unless two saves overlapped, and memory and disk converge to the master's database. |
| `slave_restart` | *violation*: two overlapping saves and a crash leave a torn snapshot, against the comment of `saveSnapshot`. The next start rejects it, or, when the blocks happen to decode together, serves it until the initial poll or a later one replaces it. |
| `ratelimiter` | No bucket exceeds its budget, the table stays within one bucket of the 75% threshold, and `ErrTableFull` is never returned. |
| `router` | `AnswersOwn`: an answer reaches the query it is about, but for a late datagram on a reused port. `SlotsBalanced`: the semaphores count the live handlers. `HeldBriefly`: a slot is held for two timeouts and a lookup at most. `LostOnlyLate`: nothing is written in vain before the connection has been held for the full timeout, or, over UDP and DoH, before the round ends. `HandlersEnd`, `WorkersEnd`: no goroutine is left behind. |
| `reload` | `ExitsForCause`: a reload never ends the process. `FollowsConfig`, `FollowsCert`: every change a watch reports is running in the end, however it overlaps with reloads, failures and other changes. `DoTServed`: DoT is served once there is a certificate, however late it comes or becomes readable, unless a reload left the port taken. |
| `gateway` | `Settled`: an update answered NOERROR holds until a message that says otherwise is admitted. `ManualKept`: objects of other sources are left alone, also at the same owner. `Authentic`: what is in the cluster was signed, as a whole, for this zone. `StaysGone`: a message delivered again after its window brings nothing back. |
| `gateway_collision` | *violation*: deleting a record of `a-z.` deletes the object of `a.z.`, for both become the same object name. |
| `answers` | `AnswersRight`: answers are those of RFC 1034 and 4592 for the records of the zone. `RingSound`: every hash is matched by one NSEC3 or covered by one. `DenialProved`, `SignedAnswers`: a validator can check NXDOMAINs and answers. `AliasesEnd`: no served CNAME loops or dangles. |
| `answers_ent` | *violation*: the proof for `x.a.z.` denies `a.z.`, which has `b.a.z.` below it. |

### Known divergences

What the models reach and a reader of the code or its docs may not expect. Those
with a run are named; the others follow from what the actions do.

* A record edited into an undecodable one and then deleted stays served: both watch
  lines are skipped (`internal/watch/stream.go:44`), and nothing rebuilds, against
  "on any change" (`README.md:52`). `NoLostUpdate` is therefore checked and proved
  without such edits, `Converges` with them.
* The serial goes back when a resign is overtaken by the main loop: both set it
  before they sign, and the later swap may carry the earlier serial.
* SIGTERM while a configuration change is taken is swallowed: `runtime.Run` returns,
  the final `select` finds the new configuration and the loop runs the component
  again (`cmd/master/main.go:88,106,112`).
* After a reload `serveDoT` may find its port taken by the listener of the round
  before, which nothing waits for, and gives up (`internal/router/dot.go:47`): the
  router runs on without DoT. `DoTServed` excepts this case (`dot = "failed"` in a
  process that has reloaded) and no other; in the model `tls.Listen` fails only
  because the router itself holds the port.
* A late datagram is taken for the answer to another query: `forwardTo` returns the
  first thing its UDP socket receives (`internal/router/forward.go:162`) and no one
  compares the DNS ID, so when the socket has got the port of one that timed out,
  the client is sent what its neighbour asked for, under the neighbour's ID. Without
  `Strayed` in `AnswersOwn` TLC shows it with two UDP queries.
* A DoH reply is lost, like one over TCP or DoT, when reading, lookup and race take
  longer than the deadline that began with the request (`internal/router/doh.go:69`).
* Two overlapping saves and a crash leave a torn snapshot (`slave_restart`), or one of
  two builds that decodes and is served until the next successful poll.
* A prefix whose bucket is evicted while a request holds it can spend the rest of the
  old bucket and a full new one (`internal/ratelimit/limiter.go:114`). `BucketBudget`
  bounds each bucket, not the prefix.
* Owner names that are sanitised alike share an object (`gateway_collision`).
* Names that only have names below them are unknown: they get NXDOMAIN or a
  wildcard's answer, and proofs deny them (`answers_ent`). `AnswersRight` and
  `DenialProved` leave them aside by name (`EmptyNonTerminal`, `NoHoles`).
* The RRSIG of a wildcard's answer is sent under the wildcard's own name;
  `SignedAnswers` looks for it there. No NSEC3 is sent for NODATA and for wildcard
  answers, and the bitmap of the apex lacks NSEC3PARAM; no property claims them.
* The owner names of the NSEC3 records are found like any other name: a query at or
  below one is answered from the chain. The properties of answers leave these names
  aside (`OfHashes`).
* The signature of a DNSKEY RRset is made by the KSK, also where it is not the type
  asked for: `SignedAnswers` takes the role from the type that is answered.
* Names outside of the zone get NXDOMAIN with the zone's SOA, not REFUSED. The
  properties are about names in the zone (`Served`).
* `inZone` compares text: an alias to `yz.` in the zone `z.` is taken for one into
  the zone, and rejected as dangling (`Lookalike`).
* A record that exists as two objects with the same content is twice in its RRset,
  and is signed so (`internal/dnssec/rrsig.go:116`). In ZoneDB records are a set,
  which does not show it.
* A request to the API server that has timed out may still be carried out later. In
  Gateway a failed call has taken effect by the time it fails, or never does.
* Below the level of the model: `parseName` counts a name that is labels followed
  by a compression pointer one byte short (`internal/rfc2136/wire.go:339,366`), and
  `Domain(".")` is written with two zero bytes.

### Bounds

* Master: one record the zone needs (the SOA) and one it does not, each absent,
  good or undecodable: enough for an insane zone, an unreadable one and a change
  that matters. Three changes and two faults let a change fall before, during and
  after a rebuild that fails while the stream is lost. One place in the channel
  makes it full. `SerialMod = 2` in `master_live` makes the serial wrap to zero; two
  events of which one may be a fault (`MaxEvents`) let a record be edited into an
  undecodable one and be deleted, or a change meet a fault.
  `Readable(store) = EmptyZone` is excepted from `NoLostUpdate`: a reconnect
  replays nothing for an empty zone, and the master refuses to serve one anyway.
* Debounce: `Quiet = 3`, `Deadline = 8` lets the deadline fall between two quiet
  periods. Time is bounded by the timers themselves.
* Slave: two signed builds whose dumps can mix (the unsigned case is the failed
  rebuild's: no chain), one push handler beside the poll loop, two faults. Two savers are enough for every pairwise overlap; the theorems
  cover any number.
* RateLimiter: with four buckets the force threshold is three, so the threshold
  and the cap differ; five prefixes and five requests reach both. Keys and
  goroutines are symmetric (only invariants are checked).
* Router: two queries over seven pairs of transports, each with itself and three
  mixed ones, with a cap of one: handlers meet only in the semaphore, in the buffer,
  on a reused UDP port and in time, so that pairs show every way to meet. TCP and
  DoT run the same code on different semaphores, so the pairs left out (UDP with
  DoT, TCP with DoT, TCP with DoH) differ from ones that are in by that name only. Two slaves give a first, a second and a missing answer; a timeout
  of two ticks has a point before, at and after half time.
* Reload: two configuration changes and a queue of one (three places in the code)
  let a change wait on the stream while a round ends; one rotation, of a certificate
  that is there or of one that was missing, and one failure meet them at any point.
* Gateway: two goroutines (symmetric) meet in every pair of nine messages: an
  addition, the three deletions (with another case of the owner, and one with an
  addition behind it), one that fails at its second update, one from the future,
  one signed with a wrong key, one for another zone, one with prerequisites, one
  malformed. `MaxTime = 2` with a fudge of one has points before, in and after each
  window. Messages come again without bound.
* Answers: a base zone with every subset of a host, a name below it, two wildcards
  (one an alias) and an alias; eleven zones for single checks (loops, dangling and
  foreign targets, a CNAME beside other records, a name server without address);
  no key, one, or two; three orders of the hashes; 37 queries. Sizes are counted in
  records and chosen so that each limit is met and exceeded.

`CHECK_DEADLOCK FALSE` is set for `ratelimiter`, `router` and `gateway`, where
requests or time end at their bounds, and for `reload`, where a process that was
told to stop stays stopped. Everywhere else a state without successor would be
reported.

### Fairness

The fair specifications assume that goroutines are scheduled, timers expire, the
reconnect loop reconnects and the poll ticker ticks: weak fairness on the
master's, the slave's and the reload loop's own steps, and on the restart of a
container that failed. In Router time passes, `forwardTo` ends in a response or an
error (its connections have deadlines), and a handler whose timer, read or channel
is ready runs. In Reload the ticker of `serveDoT` retries until the certificate is
loaded. `WF(Poll)` says that polls do not fail
forever while the master has a database. Nothing is assumed of users, of the API
server's faults, of pushes or of crashes; these are bounded in number instead.

## Proofs

Every invariant and every action property of the passing runs is a theorem, for all
values of the constants. The proofs use the named ASSUMEs, which TLC evaluates in
the runs, and the hypotheses that a theorem states:

* sets of records, prefixes, requests and handlers are finite, capacities, timeouts
  and burst sizes positive;
* `MasterAssumption`: `EmptyZone \notin SaneZones` (SanityChecks wants exactly one SOA);
* `GatewayAssumption`: an object name belongs to one foreign object, and no foreign
  object has the name `CRName` gives to a record of a message;
* `AnswersAssumption`: zones are finite and hold no DNSKEY, RRSIG, NSEC3 or
  NSEC3PARAM before they are signed (the enum of `rrtype` in
  `deploy/crds.libsonnet:43` does not admit them); hashes are injective.
  `QueriesAssumption`: the hash is defined wherever a proof asks for it.

What each module rests on:

* **MasterProofs**. `UpdatesKept` needs an invariant that says, for every place
  the main loop can be in, what still covers a change its last list missed:
  `InitialCovered` (before the loop: the stream is down or has lines),
  `WorkCovered` (during a rebuild: the list is current or something is pending)
  and `IdleCovered` (idle: pending, armed retry, or installed). It is proved for
  `~BadEdits`, which the first of the known divergences shows to be needed.
  `OnlyAcceptedServed` follows from `WorkAccepted`.
* **DebounceProofs**. `TimersAgree` ties each timer to the history; from it follow
  `DeadlineKept`, `TokensOnTime` and, step by step, `TriggerSafety`: Debounce
  implements Trigger up to fairness.
* **SlaveProofs**. `PairServed` rests on `MemInv`: what a goroutine received has
  decoded (`GotDecoded`), the chain it built is that of the database it is about to
  install or nil (`ChainFollows`), and the two file names are different inodes
  (`NamesApart`). `SnapshotWhole` rests on `SavedWhole`: while no saves have
  overlapped there is one saver, it writes to `path.tmp`, and it has written what
  its position says. `WholeServed` needs both halves: a mixed database can only enter
  memory through `LoadSnapshot` (`MixedFromSnapshot`), and there a file that decodes
  to one contradicts `SavedWhole` unless saves have overlapped. That a created file gets an unused inode is a counting
  argument (`FreeInodeExists`).
* **RateLimiterProofs**. `BudgetKept` shows that refill and consume keep the
  budget for any order of request times; `TableKept` that a collection leaves the
  table below the threshold, so that (`RoomForAll`) there is always room for one more.
* **RouterProofs**. `RouterInv` adds to the properties `OwnData` (a buffer holds the
  handler's own query; what a worker has read and the channel holds is about it, or
  has strayed from a closed socket - `Explained`, which no later step undoes, for
  `late` only grows), `Paced` (the time a slot
  has been held and the time its handler may still take make up at most the
  allowance of the transport) and `Waited` (the deadline of a connection, DoH
  included, runs out no faster than its slot is held). `SlotsKept` counts the holders of a
  semaphore: each step takes one element out of a finite set or adds one.
  `OwnAnswers`, `SlotTimeBounded` and `LateOnly` follow.
* **ReloadProofs**. `ReloadSafe` rests on `CauseKnown`: a closed `cancelCh` implies a
  filled `reloadCh`, and a cancelled context or a finished `Run` has a signal, a
  failure or a new configuration behind it; and on `Quiet`: a process that has not
  begun, or has ended, has no goroutines.
* **GatewayProofs**. `BasicInv` says which objects there can be (`ObjectsKnown`), that
  a handler at work has an admitted message (`HandlersKnown`), that the objects it is
  about to delete are those a list of its update can have returned (`TodoListed`), and
  gives `ForeignKept`. With `BusyGenuine` - a
  busy handler's message was signed for a window that began before now - follow
  `OnlySigned` and `GoneForGood`. `AcknowledgedHolds` needs `OwedAgreed`,
  `ClashKnown` and `Progress`: every record that is not in dispute is in the state
  that the updates before the handler's position leave it in. It and `OnlyNamedGo`
  (a deletion removes objects of the named owner only) assume `NoCollision`: no two
  records the messages name become one object name. `gateway_collision` shows that
  the hypothesis is needed.
* **AnswersProofs**. `Inv` says that the slave has nothing or the zone as built,
  that its chain is the NSEC3s of its database, and that an answer that is neither
  cut nor a refusal is `Resolve` of that database; the rest is about `Resolve`.
  `RingDivides`: every hash has a successor in a finite ring, and the gap it falls
  into is unique (`SuccFacts`, `OneCoversOther`). `RightAnswers`: the walk to the
  wildcard stops where the closest encloser is (`EncloserIs`, `WildcardIs`), also
  over the names that signing added. `AnswersSigned`: each RRset of the database is
  signed by the keys of its role (`SignedRRset`). `AbsenceProved` and
  `DeniedIsAbsent`: the records of a denial match the closest encloser and cover the
  next closer name and the wildcard (`ProofIs`), and what an NSEC3 covers has no
  owner (`DeniedBy`). `NoLoops` unfolds the recursion in the CNAME check by a least
  counterexample, since induction over data is not available. Three hypotheses are
  about the records that users write and are not enforced by SanityChecks, which
  does not look at these owner names: the SOA is at the apex (`SOAAtApex`), all
  names are in the zone (`InZone`), no name is a hash's owner name (`NoHashNames`).
  All zones of the runs satisfy them. `DeniedIsAbsent` is what remains true of the
  property `answers_ent` violates, and is restricted to names without an empty
  non-terminal above them.

Only model-checked are the liveness properties: `Converges` (of Master and of Slave),
`FollowsConfig`, `FollowsCert`, `DoTServed`, `HandlersEnd`, `WorkersEnd` and
the fairness part of `ImplementsTrigger`; fairness and ENABLED are outside the
prover.

## Plan

Done: the core (watch, debouncer, master, slave, rate limiter), the router, the
reload loop, the gateway, lookup with DNSSEC, and the theorems above. Next, in
order:

1. That the master's database and the slave's agree: an abstract specification of
   "a database spreads" that Slave implements, proved up to fairness.
2. A composition of Master with several slaves behind the router: what a client
   can observe while databases spread.
