# V-Guard in TLA+

V-Guard orders and commits batches of requests among the members of changing
*booths*: a proposer and a few validators. This directory holds TLA+ models of
its Go implementation (both phases of the protocol, the start-up that connects
the servers, the booths, the key files and their generator) and of the cargo
database beside it, the TLC configurations that check them, and TLAPS proofs
about each of them. Every invariant and every refinement that the runs check is
also proved for all values of the constants; liveness is model-checked.
Line numbers refer to the repository at the modelled commit.

## 1. The system

| Part | State | Operations |
|---|---|---|
| Ordering, proposer (`vordering.go`) | request queues, `shuffle` per worker, `state.logIndex`, `ordSnapshot`, `cmtSnapshot`, `vgrec` | `startOrderingPhaseA` (one goroutine per worker, `-w`), `asyncHandleOBReply` (one goroutine per reply) |
| Ordering, validator (`comply.go`) | `ordSnapshot`, `cmtSnapshot`, `valiOrdJobStack` | `validatingOAEntry`, `validatingOBEntry` |
| Consensus, proposer (`vconsensus.go`) | the loop's variables, `vgTxMeta`, `vgTxData` | `startConsensusPhaseA` (one goroutine), `asyncHandleCPAReply` (one per reply) |
| Consensus, validator (`comply.go`) | `vgTxData`, `vgTxMeta`, `valiConsJobStack` | `validatingCAEntry`, `validatingCBEntry` |
| Broadcast and booths (`mmu.go`) | `booMgr`, `broadcastError` | `broadcastToBooth`, `broadcastToNewBooth`, `prepareBooths` |
| Signatures (`tsigs.go`, `parameters.go`) | keys, `Quorum`, `Threshold` | `PenSign`, `PenRecovery`, `PenVerify` |
| Configuration (`loadconf.go`, `parameters.go`) | `ServerList`, `serverIdLookup`, flags | `parseConf`, `loadCmdParameters` |
| Connections (`connsprop.go`, `connsvldr.go`, `handlers.go`) | `concierge`, `dialogMgr`, the count of each accept loop | accept, dial, register, receiving loops |
| Latency metre (`perfmetres.go`) | two sample maps | record, print |
| Cargo table (`cargodb.py`, `dbapi.py`) | `vguard.db`, one lock | add, modify, delete, query, query all |
| Transactions (`cargodb.py`, `DB_handler`) | table `tx`, queue, dictionary | no caller in the repository |
| Key generation (`keyGen/generator.go`) | the directory `keys` | one command, which replaces the directory |
| Dashboard (`web/src`) | truck list shared by tabs | add, delete, progress of trucks |

**Interaction.** A request goes proposer → booth (OPA, the block), validators →
proposer (a share), proposer → booth (OPB, the certificate). `vgrec` and
`cmtSnapshot` hand ordered blocks to the consensus loop, which sends an instance
(CPA) to the commit booth, collects shares and sends the commit (CPB). Members
of the commit booth that were not in the ordering booth get the ordered blocks
piggybacked. The four message kinds of one validator use four TCP connections,
and **each message is handled by a new goroutine**, so no order of handling can
be relied on, not even within a connection. Locks protect single map accesses
("cache more, lock less", `cache.go:3-8`); the hard behaviour is what happens
between them. `comply.go` uses two tables of one-place channels as tokens
between the two handlers of one block or instance. Nothing is persisted, nothing
is resent. Both phases start once every accept loop of the proposer has counted
one connection per validator; the loops go on accepting after that, so a
restarted validator may register again. The keys come from a separate command
that may run while processes read them. The cargo database is a separate Flask
process, called by the dashboard only.

**What makes each part correct.** *Ordering*: a certificate only for a block a
quorum keeps; one block per id; ids recorded once; a stored certificate names the
one block of its id; requests in one block only, and all but a remainder in one; a
lock that is never released is kept for a block its validator did not vote for; a
block a live quorum stored is ordered. *Consensus*: instances partition the recorded
blocks; a commit only for
what a quorum signed; validators deliver nothing contradictory; a new member
keeps only certified blocks; ordered blocks are proposed; signers deliver.
*Start-up*: whoever is missing when the phases start was restarted; the
connection of a validator's present life is the one that is used; the booth ids
used exist; the phases start, and no validator outlives the proposer. *Keys*: the
directory holds files of one polynomial; a process' share fits its polynomial;
any `Threshold` such processes can sign, and what a process recovers it
verifies. *Cargo*: additions do not overwrite; concurrent modifications do not lose the
item between them; an addition that worked is in the list it sends; a handler waits for
ever only if some handler was left by an exception.

## 2. Modules

| Module | Content |
|---|---|
| `ThresholdSigs` | Quorum arithmetic; digests and signatures by what the code relies on |
| `GoMaps` | Maps with a changing domain |
| `QuorumLog` | **Abstract specification** of both phases: slots, votes, a slot is filled with at most one digest, one that a quorum voted for |
| `Ordering` | The ordering phase |
| `OrderedBlocks` | **Interface** of the ordering phase as the consensus phase sees it |
| `Consensus` | The consensus phase; EXTENDS `OrderedBlocks`, so both phases run at once |
| `Booths` | `prepareBooths` as operators, and its reference definition |
| `Startup` | Configuration rows, accept loops, dialling, the start of the phases, ends and restarts of processes; EXTENDS `Booths` |
| `KeyFiles` | The generator, the directory, `fetchKeys`, and the signature operations on polynomials |
| `CargoDB` | The cargo table and its Socket.IO handlers |
| `MCOrdering`, `MCConsensus`, `MCStartup`, `MCKeyFiles`, `MCCargoDB` | Instances for TLC, and the refinement mappings |
| `Recursion` | Lemmas: induction over 0..n, functions defined by recursion over 0..n |
| `OrderingProofs` | Inductive invariant of `Ordering`: types, certificates, batches and remainders, what the caches hold, the lock that blocked OB handlers keep |
| `OrderingRefinement` | EXTENDS it: `Ordering` implements `QuorumLog` and `OrderedBlocks`, and what that needs of the record |
| `ConsensusProofs` | Inductive invariant of `Consensus`, what is committed, synced and delivered |
| `ConsensusRefinement` | EXTENDS it: types, the blocks of the instances; `Consensus` implements `QuorumLog` and keeps to `OrderedBlocks` |
| `StartupProofs` | The booths of any cluster; invariant and theorems of `Startup` |
| `KeyFilesProofs`, `CargoDBProofs` | Lemmas and theorems about `KeyFiles` and `CargoDB` |

`Ordering` and `Consensus` are not multiplied: `Ordering` is shown to implement
`OrderedBlocks` (`ImplementsInterface`), and `Consensus` is built on
`OrderedBlocks`. A crash shows in the interface as `LoseLock`, the end of a lock that
a blocked handler kept; `Consensus` takes that step together with its own `Crash`.
The other direction is checked as well: with all that its own handlers and crashes do
to the shared caches, `Consensus` takes only steps of `OrderedBlocks`
(`ImplementsOrdering`), so the two phases are put together on the terms on which
they are checked apart. Both implement `QuorumLog` (`ImplementsLog`). The other parts are
tied to the phases by assumptions that TLC evaluates: `MCConsensus` asserts that
the booths of its instances are the ones `PrepareBooths` puts at the default ids
of the three booth modes (`BoothsOfModes`), and that for all clusters of up to
seven servers the booths are all sets of the right size with proposer and pivot,
each at the index its id names (`BoothsOfSmallClusters`). `MCKeyFiles` asserts that
interpolation inverts evaluation (`SharesInterpolate`), and `KeyFiles` checks, for
processes with files on a disk, the contract of signatures that `ThresholdSigs`
gives to the phases.

### How the models correspond to the code

*Messages are goroutines.* A message is a record in a set (`oa`, `ob`, `ca`,
`cb`, `opaReplies`, `cpaReplies`); once received it **is** its handler, and its
`pc` names the next critical section. Any message may be handled next. A step
ends where the code releases one lock before taking the next one, or where it
broadcasts; local computation is joined to the step before or after it.

*Ordering, workers.* `ReceiveRequest` (`vordering.go:63-82`), `ReadLogIndex`
(90), `IncrementLogIndex` (105), `StoreOrdSnapshot` (122-124),
`StoreCmtSnapshot` (126-128), `BroadcastOPA` (130-134). *Replies*:
`LookUpBlock`, `CountVote`, `RecordOrder`, `StoreThresholdSig`, `BroadcastOPB`
(147-225). `blocks` keeps each snapshot object under its digest, because a reply
holds a *pointer* to the snapshot after the id may have been reused.
*Validators*: `ReserveBlock`, `StoreAndVote` (`comply.go:21-76`); `CheckOrdered`,
`LockCmtSnapshot`, `StoreCertificate` (78-135). In `StoreCertificate` the handler
that finds no block waits for the token **with the lock held**.

*Consensus, loop.* `Wait`, `GetIDRange`, `ReadBlock` (one per block),
`BroadcastCPA`, `StoreMeta` (`vconsensus.go:7-150`). *Replies*: `FetchSigs` and
`AppendSig` are two steps, since the code copies the shares under a read lock
and writes them back under a later write lock (154-178); `BroadcastCPB`
(196-214). *Validators*: `StartCA`, `CheckBlock` (one per block), `ReplyCA`,
`FinishCA` (`comply.go:137-224`), `DeliverCB` (226-262).

*Broadcasts.* `Reached` and `EncodeOutcomes`: a send to a dead peer may fail at
once or vanish in the socket buffer. A failure sets `broadcastError` for good,
except for a failed send to a new member, whose error is overwritten by
`continue` (`mmu.go:140-146`).

*Crashes.* A validator's process dies with its goroutines; replies still in its
connection may be lost. In `Consensus` every validator may also end once the
proposer's process has ended (`connsvldr.go:117-122`), which happens when the
loop gives up waiting (`vconsensus.go:39-41`). Restarts are in `Startup`; in the
phases a crashed validator stays away, as one that is started again has empty
caches: to the others it is a validator that has lost all its messages.

*Start-up.* `Listen`, `ListenFails`, `AcceptRegistered` and `AcceptStranger` are
the accept loop of one message kind with `connRegistration`
(`connsprop.go:36-97`, `handlers.go:43-68`); `StartPhases` is what follows
`wg.Wait` (`connsprop.go:11-34`), `FirstBroadcasts` the first use of `booMgr` and of
the connection slots by the two phases. `Dial`, `DialFails`, `StartReceiving` are
`registerDialConn` and the start of the receiving loops, `QuitOnEOF` the end of
`receivingOADialMessages` (`connsvldr.go`). A connection exists as soon as the
kernel has queued it (`backlog`), before it is accepted; when a listener closes,
what it had queued is reset (`lost`). A server is known by its address; the
address is looked up as `parseConf` splits the row, fields counted at single
spaces.

*Keys.* The generator is `StartGenerator`, `RemoveFile` (`RemoveAll`, one file at a
time), `MakeDir`, `OpenFile`, `FlushFile` (the buffered lines reach the file in
one write) and `GeneratorDies` at any of them; a process is `Start`,
`FetchPubPoly`, `FetchPriShare`, `Stop`. `calm` remembers whether a generator has run
since the process started. `PenSign`, `PenRecovers`, `PenRecovery` and `PenVerify`
compute on the shares that were read.

*Cargo.* Every method of `CargoDB` works under one lock, so it is one step; a
handler is several. Any statement may fail, for instance at a text with a quote, which
ends the SQL string it is pasted into. `save_entity` and `delete_entity` swallow the failure
and return (`SaveEntity`, `DeleteEntity`); in `query_core` the result is unbound, in
`query_all` the exception passes: both leave the method by an exception other than
`ValueError`, which no handler catches (`RaisesOther`; the event stays unanswered,
"raised"). A `ValueError` is caught and answered (`RaisesValueError`). Every exception
leaves the lock taken (`stuck`). Opening the file may fail as well (`ConnectFails`), in
`delete_entity` before the lock is taken. Two histories serve the properties: `stored`,
the ids that have been in the table, and `unsaved`, the handlers that left
`save_entity` with their item not in it.

## 3. Runs

| Run | Instance | Question |
|---|---|---|
| `ordering_workers` | 3 validators, 2 workers that may share an id | certificates backed; one certificate per id, which a stored certificate names; recorded once; for which block a lock is kept for ever; the workers' blocks share no request; implements `QuorumLog` and `OrderedBlocks` |
| `ordering_crash` | 3 validators, 1 worker with a request too many for its batches, 1 crash, fairness | just the remainder of the load stays behind; implements `OrderedBlocks` through crashes; a block stored by a live quorum is ordered |
| `consensus_instances` | booth of 3, 2 blocks, a crash, the end of the process | instances partition the recorded blocks |
| `consensus_booths` | ordering booth {v1,v2,v3}, commit booth {v1,v2,v4}, 2 blocks under one id | commits backed, new members synced, deliveries agree; implements `QuorumLog`, keeps to `OrderedBlocks` |
| `consensus_live` | one booth of 4, 1 block, fairness | ordered blocks are proposed, signers deliver |
| `startup` | 3 servers with rows of `config/cluster_4.conf`, 2 message kinds, 1 restart, 1 stranger or failed listener, 5 choices of booth flags, fairness | who is missing at the start, which connection is used, which flags panic, the phases start, the validators end with the proposer |
| `keys` | 3 processes, `Threshold` 2, 3 polynomials, 2 runs of the generator, scalars modulo 7 | one polynomial per directory, fitting keys, quorums sign, what is recovered verifies; no deadlock |
| `cargo_handlers` | 3 handlers, 8 kinds of event, failing statements and connections, 1 restart, fairness | who accounts for an item that disappeared, additions are listed and do not overwrite, a handler waits for ever only behind one left by an exception |

Four further runs each show that the code does not do what the repository says;
TLC finds a counterexample:

* `ordering_ob_returns` – **OB deadlock.** If OPB is handled between the two
  critical sections of `validatingOAEntry`, the OB handler waits for the token
  with `cmtSnapshot` locked, and the OA handler needs that lock to leave it
  (`comply.go:41-60, 117-132`). Every OB handler of that validator waits behind it,
  those of blocks it voted for included. `LockKeptByNonVoter` (checked to hold) says for
  which block the lock is kept: one the validator did not vote for and that was certified
  without it.
* `consensus_complete` – **Incomplete delivery.** Blocks are piggybacked by
  booth membership, not by what a member has seen, so a late ordering member
  signs and delivers an instance without the block (`vconsensus.go:75-96`,
  `comply.go:163-166`).
* `consensus_cb_returns` – **Double commit.** Two replies read the same shares,
  both reach `Threshold` and both broadcast CPB; the second CB handler waits for
  a token already taken (`vconsensus.go:154-203`, `comply.go:237-246`).
* `consensus_votes` – **Lost votes.** A reply handled before
  `vgTxMeta.hash` is stored is dropped, and one of two concurrent shares is
  overwritten; nobody resends (`vconsensus.go:143-146, 154-178`).

Seen while modelling, without a run of its own:

* With `-w 2` two blocks may get one id; the certificate of the first is then stored in the
  snapshot the id maps to, the second (`vordering.go:126-128, 220-222`), although
  `cache.go:37` calls it "the threshold signature of this block". `CertificateOfItsId`
  says what holds all the same: the block it lands next to is never certified.
* One failed send sets the global `broadcastError`, which is never reset, and all
  later broadcasts to all members are dropped (`mmu.go:81-88, 104`). The models
  have it (`Reached`); `QuorumOrders` and `InstancesPartition` hold in spite of it.
* With `-w 2` the overwritten block of a shared id is never ordered
  (`vordering.go:90,105,123`), and the last requests of a load that is not a
  multiple of the batch size never are (80; `RemainderStaysBehind` says that it is no more
  than these).
* `waited` accumulates over all instances (`vconsensus.go:9,34`).
* A configuration with fewer rows than `-c` panics in `parseConf` (`-c=6` with the
  four rows of `cluster_4.conf`); with `-c=4` the default id 5 of the commit booth
  of mode 2 is out of range at the first instance; `-boo` larger than `-c` makes a
  booth with a member that does not exist. `PanicsOnlyOnBadFlags` says that flags
  which fit never panic.
* A process that reads its keys while the generator runs may get a polynomial and a
  share that do not fit; `LoadedKeysMatch` is about the others.
* Any failure of the INSERT in `save_entity` is taken for a used id and swallowed
  (`cargodb.py:61-66`): an addition then answers with success and sends a list without the
  item, though additions are supported "for all inputs" (`README.md:31` of the
  repository), and a modification has deleted the item. An illegal amount in
  `modify_entity` is answered with an error after the item has been deleted (81-97).
  `AddedIsListed` and `LostItemsAccounted` say that there is no other reason.
* An exception in a method of the cargo table leaves the lock taken, and every later call
  blocks until the server is restarted (`cargodb.py:56-60, 113-129`).
  `WaitsEndUnlessRaised` says that nothing else makes a handler wait for ever.

### Bounds

A booth of four (the default of `-boo`) has `Threshold` 2 of 3 validators: one
validator may be late, blocked or dead, and two different pairs of voters
intersect in one, which is the smallest booth in which quorums matter. One
block already takes part in every race of a single block's handlers; two blocks
are used where blocks interact (shared ids, shared locks, ranges). Two workers
are the fewest that can share an id. They form one full block each in
`ordering_workers`; in `ordering_crash` a load of three and batches of two make a block and
a remainder. A worker with several full batches is left to the proofs.
In `consensus_instances` both validators of
a booth of three must sign, which keeps two instances small. `MaxCrashes` is one,
the number of faults a booth of four is meant to tolerate. `MaxWaited = 0` counts
no polls: with `-cw 1` the first empty poll ends the process, with `-cw 2` the
loop polls for ever. Symmetry (validators with equal roles, workers, digests) is
used in the runs without liveness properties. `CHECK_DEADLOCK FALSE`: a finite
load is processed and then the system really is idle; only `keys`, where a process
may always be started or stopped, checks for deadlock.

*Start-up*: three servers are the fewest with two validators, so that one that
connects twice can stand for one that has not connected. The accept loops of the
four message kinds are the same code and meet only in `wg` and in the order in
which a validator dials them: with two kinds there is a first one, whose end
kills the validator, and a later one, whose end does not. Two tries instead of ten keep a
failed and a last attempt apart. *Keys*: with two runs of the generator there are
files of an earlier polynomial to be mixed with; three servers and `Threshold` 2 have more than one
quorum; two of the polynomials agree at the point of one server, so that keys of two
generations sometimes recover a signature, and one has the degree of a different
`Threshold`. *Cargo*: three handlers are an item's modification, another handler that meets
it halfway and a third that finds the lock taken; of two ids one is a default row.

### Fairness

Weak fairness of each worker, of the reply goroutines together, and of each
validator's handlers per message kind: the Go scheduler runs every runnable
goroutine eventually. It is *weak* and per group on purpose: nothing is assumed
about the order in which goroutines get a lock, and a blocked handler is never
forced. In the liveness runs every message is handled by finitely many steps, so a
group that is enabled works off all its members. Crashes and, in `Consensus`,
the steps of the ordering phase are never forced. In `Startup` each accept loop,
each validator's process and `runAsProposer` are weakly fair: goroutines run and
queued connections are accepted; no process has to be killed or started again,
no stranger has to connect, and the proposer need never end. `PhasesStart` therefore says
that the phases start unless a validator has died or an accept loop has returned.
In `CargoDB` each handler thread is weakly fair. `KeyFiles` has no liveness.

## 4. Proofs

### Ordering

`OrderingProofs` proves, for every set of validators and workers, every load and
batch size and any number of crashes:

* `TypeCorrect`: `Spec => []TypeOK`.
* `CertificatesBacked`: `Spec => []CertificateBacked`, for every booth size.
* `OneCertificate`: `Spec => []OneCertificatePerId` if the booth has at least
  three servers and not exactly five. There two certificates for one id need two sets of
  `Threshold` validators that intersect (`ThreshMajority`), and a validator
  reserves an id once. In a booth of five `Threshold` is 2 of 4 validators, and
  with two workers the property fails; in booths of one and two `Threshold` is 0.

**The inductive invariant** `IInv` is `TypeOK /\ BatchInv /\ SnapshotInv /\
ShareInv`. `CertificateBacked` speaks of counted shares and of what validators
reserved, and is not inductive alone: nothing in it says that a share in flight is
honest. `ShareInv` does: every share, in a reply, in a vote handler or in a
snapshot, was signed by a validator that holds exactly that digest under that id.
For a share to be traced to one id, a digest must occur under one id only;
`SnapshotInv` says that a block's snapshot remembers the id all messages about that
digest carry, and `BatchInv` that batches under construction are fresh: disjoint from every
block formed so far, so a new digest is new (`FreshDigest`). Given this, `SignersHold` shows that
the signers of a certificate all hold the block, and a cardinality argument gives
the quorum. The proof of each part has one step per action (`WorkerType`,
`ReplyType`, `ValidatorType`; `BatchStep`, `SnapshotStep`, `ShareStep`). `IInv` was
first checked with TLC as an invariant of the two-worker instance.

It also proves, again for every booth size:

* `BatchesAreDisjoint`: `Spec => []BatchesDisjoint`. Disjointness is in `IInv`;
  that a block is full needs `FullInv`, on how far each worker's batch has got.
* `RemainderIsLeft`: `Spec => []RemainderStaysBehind`. `LeftInv` says that a worker's
  requests are in its queue, in its batch or in a block, and that those outside the queue
  and the batch are a multiple of the batch size.
* `LockKeepersAreSpare`: `Spec => []LockKeptByNonVoter`. `KeptInv` says that a
  validator's lock is kept for one block at a time.

and for the booths of `OneCertificate`

* `CertificatesNameTheBlock`: `Spec => []CertificateOfItsId`.

The invariant `CInv` is `IInv /\ CertInv /\ CacheInv /\ SigInv /\ StoreInv`. A
certificate reaches `cmtSnapshot` several steps after it was complete, under an id
whose block another worker may have replaced meanwhile. `CertInv` says that what the reply
goroutines and the OPB messages carry is a certificate of a block of their id,
`CacheInv` that a block enters `cmtSnapshot` under its own id and before its first
message, `SigInv` that a certificate there is of a block of that id. `StoreInv` says
that a validator stores before it votes; so a lock is never kept for a block the
validator voted for. `CertificatesNameTheBlock` takes `SigInv` and `OneCertificate` together:
the block that a certificate was misplaced next to has none of its own.

`OrderingRefinement` proves `OrderingImplementsLog`, `Spec => ImplementsLog`, for
the booths of `OneCertificate`. `ReserveBlock` is the vote, the `CountVote` whose
share completes a certificate fills the slot, and every other step is a stutter.
That a slot is empty when it is filled is `OneCertificatePerId`; that an id *is*
a slot (`Ids` ends at the number of requests) needs `IdInv`: each id given out
has used up a request, so `logIndex` is bounded by the requests used (`Used`).

It also proves, for the same booths, `EachIdRecordedOnce`
(`Spec => []RecordedOnce`) and `OrderingImplementsInterface`
(`Spec => ImplementsInterface`). The invariant `OInv` adds to `CInv` and `IdInv` that
one goroutine has each certificate and that its progress agrees with the record
(`HandlerInv`), that what is recorded is certified (`RecordInv`), and that what is
announced is recorded (`AnnounceInv`). The steps map as follows; the others stutter.

| `Ordering` | `OrderedBlocks` |
|---|---|
| `StoreCmtSnapshot` | `FormBlock` |
| `StoreAndVote` | `StoreBlock` |
| `RecordOrder` | `RecordBlock` |
| `StoreThresholdSig` | `StoreOrderSig` |
| `LockCmtSnapshot` of a handler that finds no block | `BlockOB` |
| `Crash` of a validator with such a handler | `LoseLock` |

### Consensus

`ConsensusProofs` proves, for any two booths, any blocks and hashes, whether or not
blocks share an id, and any number of crashes:

* `SyncedBlocksCertified`: `Spec => []SyncedCertified`.
* `NoConflictingDelivery`: `Spec => []DeliveriesAgree`.
* `CommitsBacked`: `Spec => []CommitBacked`.

**The inductive invariant** `CInv` is `LoopInv /\ CAInv /\ CertInv /\ TxInv /\
VoteInv`. The three properties compare things that different goroutines keep
under one instance number: blocks found, shares, hashes. What makes them comparable is
that the hash of an instance is settled before its first message is sent: `HashOf`
names it, from the loop's own variable between the broadcast and `StoreMeta`, from
`metaHash` later, and `Settled` (a lemma about every step) says that it never
changes once the instance is `Begun`. `CAInv` and `TxInv` say that CA messages and
the blocks found agree with it. For `CommitBacked` the shares have to be
traced through the copy-and-write-back of the reply goroutines: `VoteInv` says that
every share, in flight, read or stored, is of a member that has signed that very hash,
so an overwritten share can only lower the count. `CertInv` carries
`SyncedCertified` through the unlocked read of the certificate: whatever the loop
read is either no certificate or one of a block that an ordering quorum stored,
which the interface `OrderedBlocks` keeps true (`OrderableStays`).
`CInv` was first checked with TLC on the instance of
`consensus_booths`.

`ConsensusRefinement` proves `ConsensusImplementsLog`, `Spec => ImplementsLog`, for
any finite set of block ids. `ReplyCA` is the vote, the `AppendSig` that combines
the shares fills the slot (or finds it filled with the same hash by another
goroutine), and every other step is a stutter. The mapping reads a vote off a handler or
off `vHash`; by `CInv` both are `HashOf`, so the votes are settled with it (`Voted`).
`RInv` adds to `CInv` what the log asks for beyond that: `OnceInv`, a member has one handler for an
instance and has not signed it before, so no vote is cast twice; `RangeInv`, every
instance has taken at least one block and no block is recorded twice, so an instance
*is* a slot (`Instances` ends at the number of blocks); `HashInv`, the hashes have their type.

It also proves

* `ConsensusTypeCorrect`: `Spec => []TypeOK`, for any finite set of block ids. `ConsTypes`
  adds to the types that the loop reads from a range only while blocks are left, that CA
  handlers do, and that validators outside the commit booth see no instance.
* `InstancesTakeAll`: `Spec => []InstancesPartition`. The property joins the blocks of
  all instances by recursion. Its invariant `CutInv` does without: there are cuts in the
  record, one for each instance, and an instance has the blocks between its cut and the
  next. A new range puts no cut, `StoreMeta` puts one at `lastIdx`, and recording appends
  behind all of them. `CutsJoin` then proves by induction (`InductionTo`) that the
  recursion gives the record up to each cut.
* `ConsensusLeavesOrdering`: `Spec => ImplementsOrdering`. Only `StartCA` writes to the
  cache of a validator outside the ordering phase; at a member of the ordering booth
  it has nothing to write, as `CertInv` says of its message. `Crash` is `LoseLock`, or a stutter.

### Start-up and booths

`StartupProofs` starts with `PrepareBooths`. `PreparedBooths`: for any `n` servers and any
size `b` of at least 1, `prepareBooths` lists the sets of size `b` with proposer and
pivot, each once, and each carries its place in the list as its id. The code sorts all
combinations and stops at the first without the pivot. Sorting is proved by ranks: in a
total order an element's place is the number of its predecessors (`Ranks`, `SortedLists`);
the lexicographic order is total (`LexOrders`); the combinations with the pivot are an
initial segment of it (`CombinationsListed`, `InitialSegment`).

For any number of servers, message kinds, dialling attempts, strangers and restarts, and
any booth flags:

* `StartupTypeCorrect`: `Spec => []TypeOK`. That `wg` never drops below zero (on which
  Go's `WaitGroup` panics) is `WaitInv`: `wg` is the number of phases that miss a connection.
* `BoothIdsCorrect` and `PanicsAreBadFlags`: `Spec => []BoothIdsAreIndices` and
  `Spec => []PanicsOnlyOnBadFlags`, from `BoothInv` and `PreparedBooths`.

If no two servers share an address (`DistinctAddresses`), also

* `MissingAreReplaced`: `Spec => []MissingNeedsRestart`. A phase counts connections, not
  servers. `CountInv` says that what it has counted are connections made and no longer
  queued (`Counted`), of validators that are registered now; those of the first life of
  a validator are at most as many as the registered validators, and those of later ones
  (`Reborn`) as many as the restarts.
* `PresentConnectionUsed`: `Spec => []CurrentConnectionUsed`. `QueueInv` says that the
  queue of a listener has the connections of one validator in the order of its lives, and
  `CurrentInv` that the present one is queued or registered with no older one behind it.

The hypothesis is what `serverIdLookup` needs: a later row takes a shared address over
from an earlier one (`loadconf.go`), and connections are then registered under another
server. TLC evaluates it for the rows of the run (`AddressesOfInstance`).

### Key files

`KeyFilesProofs` proves, for any polynomials, any number of servers and of runs
of the generator, which may die at any step:

* `KeyTypeCorrect`: `Spec => []TypeOK`. A share is a value of the polynomial by Horner's
  rule; that it is a scalar (`EvalIsScalar`) goes by recursion over the
  coefficients, with `RecursionTo` for the existence of the recursive function.
* `OneGenerationHolds`: `Spec => []OneGeneration`.
* `LoadedKeysHold`: `Spec => []LoadedKeysMatch`.
* `QuorumsCanSign` and `RecoveredIsVerified`: `Spec => []QuorumsSign` and
  `Spec => []RecoveredVerifies`, if `InterpolatesShares(Thresh, Instances)`, which is what
  kyber promises of Shamir's scheme: `Threshold` shares of a polynomial of `Threshold`
  coefficients give its constant term. TLC evaluates it for the fields and thresholds
  of the run (`SharesInterpolate`). The proofs show that whatever the generator does
  and whenever the processes start, the shares they bring together are shares of one such
  polynomial.

**The inductive invariant** `KInv` adds to `OneGeneration` how far the generator
is: the files of the current polynomial it may already have written (`Before`),
and that the file it has open is still empty, without which an append would mix
two polynomials. For a process it adds that what it has read so far is what the directory holds,
as long as no generator has run.

### Cargo table

`CargoDBProofs` proves, for any number of handlers, any rows, events and restarts, and
whichever statements and connections fail,
`FirstAdditionWins` (`Spec => FirstAddWins`), `LossesAccounted`
(`Spec => []LostItemsAccounted`), `AdditionsAreListed`
(`Spec => []AddedIsListed`) and `CargoTypeCorrect` (`Spec => []TypeOK`). A handler is
several transactions, so none of the four is
inductive. `CargoInv` says which methods a handler has left (`ThreadInv`), that `stored` has
what is in the table and that for every other id in it some handler has removed the row
and not put it back (`HistoryInv`), and that an added item is in the table between its two
transactions unless its INSERT failed (`AddInv`). For the types `RowInv` says that the row a
modification saves was completed from the table before: the event may leave columns out.

### Assumptions, and what stays with TLC

The proofs assume the constants' assumptions, which TLC evaluates in every run of the
module's MC module, and the model of signatures in `ThresholdSigs`:

* `ConstantsAssumption`: finite sets of validators and workers, a natural load, a
  positive batch size;
* `ConsensusAssumption`: finite booths, natural block ids;
* `StartupAssumption`: at least two servers, row *i* of the file has index *i* - 1 (the code
  finds a validator's row by position and a server's by its index), one to four message
  kinds, `-boo` at least 1 (with 0 the combinations panic), natural ids for the commit
  booths (`-ocsb`, `-ocdbwop`, `-ocdbnop`);
* `KeyFilesAssumption`: polynomials that are not empty and have coefficients below `P`,
  and fewer servers than `P` (7 in the run; what needs a prime is the hypothesis
  `SharesInterpolate`);
* `CargoAssumption`: rows are complete, and an addition has its text columns (the
  parameters of `save_entity` default to text, `cargodb.py:43-52`, so a column that
  `add_cargo` leaves out is never `None`).

**Only model-checked** is liveness, as fairness and ENABLED are out of the proof
system's reach: `QuorumOrders`, `OrderedProposed`, `SignedDelivers`, `PhasesStart`,
`ValidatorsFollow`, `WaitsEndUnlessRaised`; and what the theorems take as
hypotheses, for the instances of the runs: `AddressesOfInstance`,
`SharesInterpolate`. That interpolation inverts evaluation in every field is
not proved: it is algebra of the library, not of this code.

## 5. What is abstracted

* Requests are distinct, digests are injective, signatures cannot be made without
  their signers: `getDigest`, `PenSign`, `PenRecovery`, `PenVerify` by contract.
* Data races: the read of `tSig` without the lock (`vconsensus.go:90`) is a choice
  between the values before and after the write, not a torn value.
* `vgTxData.boo`, the proposer's own `vgTxData.tx`, latency measurements, yields,
  sleeps, logging and the printing in `storeVgTx` are left out; that an instance
  *is* stored is kept.
* Decode errors other than the end of a connection, and the end of a single
  connection while both processes live: the proposer closes connections only
  by ending an accept loop or itself.
* Scalars are numbers modulo a small prime, and a point of the curve is the scalar
  its base is multiplied with; the message that is signed is left out of `KeyFiles`.
* A server's address is a pair of configuration fields; ports in use by an earlier
  life of a validator may make its dialling fail, or not.
* In `Consensus` the certificate in a validator's `cmtSnapshot` is dropped: no
  handler of that phase reads it.
* The order of lists on their way to the dashboard, and the text of SQL values: that one
  may make its statement fail is kept, one with which the statement means something else
  is left out.

## 6. Not modelled

* **Latency metre** (`perfmetres.go`): measurement only, nothing in the protocol
  reads it. What can go wrong (a map written by two goroutines, on which the Go
  runtime aborts, and a division by the number of samples) is a matter of memory
  access and of one expression, not of an order of steps.
* **Transaction table and `DB_handler`** (`cargodb.py`): no caller in the repository,
  and `DB_handler.commit` fails on its first call for a missing import.
* **Dashboard** (`web/src`): views that poll and draw. The truck list that tabs share in
  `localStorage` is written whole by each of them; the lost update needs no more than two
  writes.
* **Logging, wording of output, the other flags**: logging is left out, flags are
  constants of the models.
* **Curve arithmetic** (kyber): external. `KeyMaster` in `tsigs.go` has no user,
  `fetchPubPoly` and `fetchPriShare` of `generator.go` neither.

## 7. Plan

Done: `Ordering`, `OrderedBlocks`, `Consensus`, `CargoDB`, `Booths`, `Startup`,
`KeyFiles`, their runs, and the proofs of section 4. Left:

1. Steps that lead up to the liveness properties, as action properties with proofs:
   what is enabled stays enabled until it is taken.
2. The end of a single connection, once the code handles one.
