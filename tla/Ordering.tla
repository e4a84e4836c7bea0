------------------------------- MODULE Ordering -------------------------------
(***************************************************************************)
(* The ordering phase of V-Guard: worker goroutines of the proposer batch  *)
(* requests into blocks (startOrderingPhaseA), the validators of the       *)
(* ordering booth reserve a block and return a share (validatingOAEntry),  *)
(* the proposer combines Threshold shares into an ordering certificate     *)
(* (asyncHandleOBReply) and announces it to the booth (validatingOBEntry). *)
(*                                                                         *)
(* Every message is handled by a goroutine of its own, so the four TCP     *)
(* streams of a validator impose no order on the handlers: a message is a  *)
(* record in a set, and the record is also the goroutine that handles it,  *)
(* its pc naming the next critical section.  Steps are cut where the code  *)
(* releases one lock before it takes the next.                             *)
(***************************************************************************)
EXTENDS Integers, Sequences, FiniteSets, GoMaps, ThresholdSigs

CONSTANTS
    Validators,  \* the members of the ordering booth, without the proposer
    Workers,     \* the proposer's ordering goroutines (flag -w)
    MsgLoad,     \* requests loaded in the queue of each worker (flag -ml)
    BatchSize,   \* requests in a block (flag -b)
    MaxCrashes   \* bound: validators that may crash in a behaviour

ASSUME ConstantsAssumption ==
    /\ IsFiniteSet(Validators)
    /\ IsFiniteSet(Workers)
    /\ MsgLoad \in Nat
    /\ BatchSize \in Nat \ {0}
    /\ MaxCrashes \in Nat

\* The booth is the validators and the proposer.
BoothSize == Cardinality(Validators) + 1
Thresh == Threshold(BoothSize)

Requests == Workers \X (1..MsgLoad)
Blocks == SUBSET Requests
Hashes == {"sha256"} \X Blocks
BlockIds == Nat
Sigs == {NoSig} \cup ({"tbls"} \X Hashes)
Shares == [by : Validators, on : Hashes]

\* The entries a digest stands for.
EntriesOf(hash) == hash[2]

VARIABLES
    \* proposer: workers
    requestQueue,   \* requestQueue[w]: number of requests not yet received
    shuffle,        \* shuffle[w]: the entries collected for the next block
    pc,             \* pc[w]: next step of worker w
    newBlockId,     \* newBlockId[w]: the block id worker w has read
    logIndex,       \* state.logIndex, shared by the workers
    \* proposer: caches
    ordSnapshot,    \* block id -> hash, the block it points to
    blocks,         \* hash -> the votes collected by that block's snapshot
    cmtSnapshot,    \* block id -> [hash, tSig]
    vgrec,          \* block ids in the order in which they were ordered
    broadcastError, \* set by the first failed send, never reset
    \* proposer: reply goroutines
    opaReplies,     \* replies that have not looked up their block yet
    voteHandlers,   \* replies that hold a pointer to a block snapshot
    orderHandlers,  \* the replies that reached Threshold, until OPB is sent
    \* validators
    vOrd,           \* vOrd[v]: block id -> hash, ordSnapshot of v
    vCmt,           \* vCmt[v]: block id -> [hash, tSig], cmtSnapshot of v
    ordJobs,        \* ordJobs[v]: ids with a token in valiOrdJobStack
    oa,             \* goroutines running validatingOAEntry
    ob,             \* goroutines running validatingOBEntry
    crashed         \* validators whose process has died

proposerVars == <<requestQueue, shuffle, pc, newBlockId, logIndex,
                  ordSnapshot, blocks, cmtSnapshot, vgrec>>
replyVars == <<opaReplies, voteHandlers, orderHandlers>>
validatorVars == <<vOrd, vCmt, ordJobs>>
vars == <<proposerVars, broadcastError, replyVars, validatorVars, oa, ob, crashed>>
-------------------------------------------------------------------------------
OAMessages == [to : Validators, id : BlockIds, hash : Hashes, pc : {"recv", "cmt"}]
OBMessages == [to : Validators, id : BlockIds, hash : Hashes, sig : Sigs,
               pc : {"recv", "cmt", "locked"}]
Replies == [id : BlockIds, sig : Shares]

TypeOK ==
    /\ requestQueue \in [Workers -> 0..MsgLoad]
    /\ shuffle \in [Workers -> Blocks]
    /\ pc \in [Workers -> {"recv", "index", "incr", "ord", "cmt", "bcast"}]
    /\ newBlockId \in [Workers -> BlockIds]
    /\ logIndex \in BlockIds
    /\ IsMap(ordSnapshot, BlockIds, Hashes)
    /\ IsMap(blocks, Hashes, [id : BlockIds, len : Nat, sigs : SUBSET Shares])
    /\ IsMap(cmtSnapshot, BlockIds, [hash : Hashes, tSig : Sigs])
    /\ vgrec \in Seq(BlockIds)
    /\ broadcastError \in BOOLEAN
    /\ opaReplies \subseteq Replies
    /\ voteHandlers \subseteq [id : BlockIds, sig : Shares, frag : Hashes]
    /\ orderHandlers \subseteq
           [id : BlockIds, hash : Hashes, pc : {"record", "tsig", "bcast"}]
    /\ DOMAIN vOrd = Validators
    /\ DOMAIN vCmt = Validators
    /\ \A v \in Validators :
           /\ IsMap(vOrd[v], BlockIds, Hashes)
           /\ IsMap(vCmt[v], BlockIds, [hash : Hashes, tSig : Sigs])
    /\ ordJobs \in [Validators -> SUBSET BlockIds]
    /\ oa \subseteq OAMessages
    /\ ob \subseteq OBMessages
    /\ crashed \subseteq Validators

Init ==
    /\ requestQueue = [w \in Workers |-> MsgLoad]
    /\ shuffle = [w \in Workers |-> {}]
    /\ pc = [w \in Workers |-> "recv"]
    /\ newBlockId = [w \in Workers |-> 0]
    /\ logIndex = 0
    /\ ordSnapshot = EmptyMap
    /\ blocks = EmptyMap
    /\ cmtSnapshot = EmptyMap
    /\ vgrec = <<>>
    /\ broadcastError = FALSE
    /\ opaReplies = {}
    /\ voteHandlers = {}
    /\ orderHandlers = {}
    /\ vOrd = [v \in Validators |-> EmptyMap]
    /\ vCmt = [v \in Validators |-> EmptyMap]
    /\ ordJobs = [v \in Validators |-> {}]
    /\ oa = {}
    /\ ob = {}
    /\ crashed = {}
-------------------------------------------------------------------------------
(***************************************************************************)
(* broadcastToBooth.  Encode to a dead peer may fail at once or succeed    *)
(* into the socket buffer; a failure suppresses every later broadcast but  *)
(* not the rest of this one.                                               *)
(***************************************************************************)
Reached == IF broadcastError THEN {} ELSE Validators \ crashed

EncodeOutcomes ==
    IF crashed # {} /\ ~broadcastError THEN BOOLEAN ELSE {broadcastError}

\* A cmtSnapshot in which the block with this id has got its certificate.
WithSigEverywhere(snapshot, id, sig) ==
    [i \in DOMAIN snapshot |-> [snapshot[i] EXCEPT !.tSig = sig]]
WithSig(snapshot, id, sig) == [snapshot EXCEPT ![id].tSig = sig]

(***************************************************************************)
(* The worker goroutines of the proposer.                                  *)
(***************************************************************************)

\* The map for the entries of the next block is a new one.
NextBatchReused(w) == shuffle[w]
NextBatch(w) == {}

\* Receive one request; a full batch goes on to form a block.  The queue is
\* loaded once and never closed: an empty one blocks the worker for good.
ReceiveIntoShared(w) ==
    /\ pc[w] = "recv"
    /\ requestQueue[w] > 0
    /\ requestQueue' = [requestQueue EXCEPT ![w] = @ - 1]
    /\ shuffle' = [x \in Workers |-> shuffle[x] \cup {<<w, requestQueue[w]>>}]
    /\ pc' = [pc EXCEPT ![w] =
                 IF Cardinality(shuffle'[w]) < BatchSize THEN "recv" ELSE "index"]
    /\ UNCHANGED <<newBlockId, logIndex, ordSnapshot, blocks, cmtSnapshot, vgrec,
                   broadcastError, replyVars, validatorVars, oa, ob, crashed>>
ReceiveRequest(w) ==
    /\ pc[w] = "recv"
    /\ requestQueue[w] > 0
    /\ requestQueue' = [requestQueue EXCEPT ![w] = @ - 1]
    /\ shuffle' = [shuffle EXCEPT ![w] = @ \cup {<<w, requestQueue[w]>>}]
    /\ pc' = [pc EXCEPT ![w] =
                 IF Cardinality(shuffle'[w]) < BatchSize THEN "recv" ELSE "index"]
    /\ UNCHANGED <<newBlockId, logIndex, ordSnapshot, blocks, cmtSnapshot, vgrec,
                   broadcastError, replyVars, validatorVars, oa, ob, crashed>>

\* getLogIndex: an atomic load, a step apart from the increment.
ReadLogIndex(w) ==
    /\ pc[w] = "index"
    /\ newBlockId' = [newBlockId EXCEPT ![w] = logIndex]
    /\ pc' = [pc EXCEPT ![w] = "incr"]
    /\ UNCHANGED <<requestQueue, shuffle, logIndex, ordSnapshot, blocks, cmtSnapshot,
                   vgrec, broadcastError, replyVars, validatorVars, oa, ob, crashed>>

\* incrementLogIndex.
IncrementBackwards(w) ==
    /\ pc[w] = "incr"
    /\ logIndex' = logIndex - 1
    /\ pc' = [pc EXCEPT ![w] = "ord"]
    /\ UNCHANGED <<requestQueue, shuffle, newBlockId, ordSnapshot, blocks, cmtSnapshot,
                   vgrec, broadcastError, replyVars, validatorVars, oa, ob, crashed>>
IncrementLogIndex(w) ==
    /\ pc[w] = "incr"
    /\ logIndex' = logIndex + 1
    /\ pc' = [pc EXCEPT ![w] = "ord"]
    /\ UNCHANGED <<requestQueue, shuffle, newBlockId, ordSnapshot, blocks, cmtSnapshot,
                   vgrec, broadcastError, replyVars, validatorVars, oa, ob, crashed>>

\* Store the snapshot that will collect the votes.
StoreOrdSnapshot(w) ==
    LET hash == Digest(shuffle[w])
    IN  /\ pc[w] = "ord"
        /\ ordSnapshot' = Put(ordSnapshot, newBlockId[w], hash)
        /\ blocks' = Put(blocks, hash, [id |-> newBlockId[w], len |-> 0, sigs |-> {}])
        /\ pc' = [pc EXCEPT ![w] = "cmt"]
        /\ UNCHANGED <<requestQueue, shuffle, newBlockId, logIndex, cmtSnapshot, vgrec,
                       broadcastError, replyVars, validatorVars, oa, ob, crashed>>

\* Store the snapshot for the consensus phase.
StoreCmtSnapshot(w) ==
    /\ pc[w] = "cmt"
    /\ cmtSnapshot' = Put(cmtSnapshot, newBlockId[w],
                          [hash |-> Digest(shuffle[w]), tSig |-> NoSig])
    /\ pc' = [pc EXCEPT ![w] = "bcast"]
    /\ UNCHANGED <<requestQueue, shuffle, newBlockId, logIndex, ordSnapshot, blocks,
                   vgrec, broadcastError, replyVars, validatorVars, oa, ob, crashed>>

\* Clear the batch and send the block to the booth.
BroadcastOPA(w) ==
    /\ pc[w] = "bcast"
    /\ oa' = oa \cup {[to |-> v, id |-> newBlockId[w], hash |-> Digest(shuffle[w]),
                       pc |-> "recv"] : v \in Reached}
    /\ broadcastError' \in EncodeOutcomes
    /\ shuffle' = [shuffle EXCEPT ![w] = NextBatch(w)]
    /\ pc' = [pc EXCEPT ![w] = "recv"]
    /\ UNCHANGED <<requestQueue, newBlockId, logIndex, ordSnapshot, blocks, cmtSnapshot,
                   vgrec, replyVars, validatorVars, ob, crashed>>

(***************************************************************************)
(* The reply goroutines of the proposer: asyncHandleOBReply.               *)
(***************************************************************************)

\* Fetch the pointer to the block's snapshot; an unknown block is dropped.
LookUpBlock(r) ==
    /\ opaReplies' = opaReplies \ {r}
    /\ voteHandlers' =
          IF r.id \in DOMAIN ordSnapshot
          THEN voteHandlers \cup {[id |-> r.id, sig |-> r.sig, frag |-> ordSnapshot[r.id]]}
          ELSE voteHandlers
    /\ UNCHANGED <<proposerVars, broadcastError, orderHandlers, validatorVars,
                   oa, ob, crashed>>

\* The shares of a block are complete: further votes are ignored.
CompleteTooEarly(frag) == frag.len + 1 = Thresh
VotesComplete(frag) == frag.len = Thresh

\* Append the share unless Threshold shares are already there; the goroutine
\* that brings the count to Threshold combines them, every other one returns.
CountVote(h) ==
    LET frag  == blocks[h.frag]
        sigs  == frag.sigs \cup {h.sig}
        count == frag.len + 1
    IN  /\ voteHandlers' = voteHandlers \ {h}
        /\ IF VotesComplete(frag)
           THEN UNCHANGED <<blocks, orderHandlers>>
           ELSE /\ blocks' = Put(blocks, h.frag, [frag EXCEPT !.len = count, !.sigs = sigs])
                /\ orderHandlers' =
                      IF count = Thresh /\ PenRecovers(sigs, h.frag, Thresh)
                      THEN orderHandlers \cup {[id |-> h.id, hash |-> h.frag, pc |-> "record"]}
                      ELSE orderHandlers
        /\ UNCHANGED <<requestQueue, shuffle, pc, newBlockId, logIndex, ordSnapshot,
                       cmtSnapshot, vgrec, broadcastError, opaReplies, validatorVars,
                       oa, ob, crashed>>

Advance(o, next) == (orderHandlers \ {o}) \cup {[o EXCEPT !.pc = next]}

\* vgrec.Add: from here on the consensus loop may pick the block.
RecordOrder(o) ==
    /\ o.pc = "record"
    /\ vgrec' = Append(vgrec, o.id)
    /\ orderHandlers' = Advance(o, "tsig")
    /\ UNCHANGED <<requestQueue, shuffle, pc, newBlockId, logIndex, ordSnapshot, blocks,
                   cmtSnapshot, broadcastError, opaReplies, voteHandlers, validatorVars,
                   oa, ob, crashed>>

\* Mutant: the certificate is stored before the record says that there is one.
StoreSigUnrecorded(o) ==
    /\ o.pc = "record"
    /\ cmtSnapshot' = WithSig(cmtSnapshot, o.id, CombSig(o.hash))
    /\ orderHandlers' = Advance(o, "bcast")
    /\ UNCHANGED <<requestQueue, shuffle, pc, newBlockId, logIndex, ordSnapshot, blocks,
                   vgrec, broadcastError, opaReplies, voteHandlers, validatorVars,
                   oa, ob, crashed>>

\* Store the certificate in whatever snapshot the id maps to by now.
StoreThresholdSig(o) ==
    /\ o.pc = "tsig"
    /\ cmtSnapshot' = WithSig(cmtSnapshot, o.id, CombSig(o.hash))
    /\ orderHandlers' = Advance(o, "bcast")
    /\ UNCHANGED <<requestQueue, shuffle, pc, newBlockId, logIndex, ordSnapshot, blocks,
                   vgrec, broadcastError, opaReplies, voteHandlers, validatorVars,
                   oa, ob, crashed>>

\* Announce the certificate to the booth.
BroadcastOPB(o) ==
    /\ o.pc = "bcast"
    /\ orderHandlers' = orderHandlers \ {o}
    /\ ob' = ob \cup {[to |-> v, id |-> o.id, hash |-> o.hash, sig |-> CombSig(o.hash),
                       pc |-> "recv"] : v \in Reached}
    /\ broadcastError' \in EncodeOutcomes
    /\ UNCHANGED <<proposerVars, opaReplies, voteHandlers, validatorVars, oa, crashed>>

(***************************************************************************)
(* The validators.  A goroutine blocked inside validatingOBEntry keeps the *)
(* write lock of cmtSnapshot.                                              *)
(***************************************************************************)
CmtLockFree(v) == \A m \in ob : m.to = v => m.pc # "locked"

\* v has a block under this id already.
UsedNever(v, id) == FALSE
AlreadyUsed(v, id) == id \in DOMAIN vOrd[v]

\* validatingOAEntry, first critical section: at most one block per id.
ReserveBlock(m) ==
    /\ m.pc = "recv"
    /\ IF AlreadyUsed(m.to, m.id)
       THEN oa' = oa \ {m} /\ UNCHANGED vOrd
       ELSE /\ vOrd' = [vOrd EXCEPT ![m.to] = Put(@, m.id, m.hash)]
            /\ oa' = (oa \ {m}) \cup {[m EXCEPT !.pc = "cmt"]}
    /\ UNCHANGED <<proposerVars, broadcastError, replyVars, vCmt, ordJobs, ob, crashed>>

\* validatingOAEntry, second critical section: store the block, leave the
\* token for the OB handler, sign and reply.
StoreAndVote(m) ==
    /\ m.pc = "cmt"
    /\ CmtLockFree(m.to)
    /\ vCmt' = [vCmt EXCEPT ![m.to] = Put(@, m.id, [hash |-> m.hash, tSig |-> NoSig])]
    /\ ordJobs' = [ordJobs EXCEPT ![m.to] = @ \cup {m.id}]
    /\ opaReplies' = opaReplies \cup {[id |-> m.id, sig |-> PenSign(m.to, m.hash)]}
    /\ oa' = oa \ {m}
    /\ UNCHANGED <<proposerVars, broadcastError, voteHandlers, orderHandlers, vOrd,
                   ob, crashed>>

\* validatingOBEntry up to the lookup: an invalid certificate is dropped, and so
\* is one whose block this validator has not reserved.
CheckOrdered(m) ==
    /\ m.pc = "recv"
    /\ ob' = IF PenVerify(m.hash, m.sig) /\ m.id \in DOMAIN vOrd[m.to]
             THEN (ob \ {m}) \cup {[m EXCEPT !.pc = "cmt"]}
             ELSE ob \ {m}
    /\ UNCHANGED <<proposerVars, broadcastError, replyVars, validatorVars, oa, crashed>>

\* cmtSnapshot.Lock() in validatingOBEntry.
LockCmtSnapshot(m) ==
    /\ m.pc = "cmt"
    /\ CmtLockFree(m.to)
    /\ ob' = (ob \ {m}) \cup {[m EXCEPT !.pc = "locked"]}
    /\ UNCHANGED <<proposerVars, broadcastError, replyVars, validatorVars, oa, crashed>>

\* Store the certificate and unlock.  Without the block the goroutine first
\* receives the OA handler's token, keeping the lock while it waits.
StoreCertificate(m) ==
    /\ m.pc = "locked"
    /\ m.id \in DOMAIN vCmt[m.to] \cup ordJobs[m.to]
    /\ vCmt' = [vCmt EXCEPT ![m.to] = WithSig(@, m.id, m.sig)]
    /\ ob' = ob \ {m}
    /\ UNCHANGED <<proposerVars, broadcastError, replyVars, vOrd, ordJobs, oa, crashed>>

\* The process of v dies, and its goroutines with it.  Nothing is persisted,
\* and what the connection still carried may be lost.
Crash(v) ==
    /\ v \notin crashed
    /\ Cardinality(crashed) < MaxCrashes
    /\ crashed' = crashed \cup {v}
    /\ oa' = {m \in oa : m.to # v}
    /\ ob' = {m \in ob : m.to # v}
    /\ \E lost \in SUBSET {r \in opaReplies : r.sig.by = v} :
           opaReplies' = opaReplies \ lost
    /\ UNCHANGED <<proposerVars, broadcastError, voteHandlers, orderHandlers,
                   validatorVars>>
-------------------------------------------------------------------------------
Worker(w) ==
    \/ ReceiveRequest(w)
    \/ ReadLogIndex(w)
    \/ IncrementLogIndex(w)
    \/ StoreOrdSnapshot(w)
    \/ StoreCmtSnapshot(w)
    \/ BroadcastOPA(w)

HandleReplies ==
    \/ \E r \in opaReplies : LookUpBlock(r)
    \/ \E h \in voteHandlers : CountVote(h)
    \/ \E o \in orderHandlers :
           RecordOrder(o) \/ StoreThresholdSig(o) \/ BroadcastOPB(o)

HandleOA(v) ==
    \E m \in oa : m.to = v /\ (ReserveBlock(m) \/ StoreAndVote(m))

HandleOB(v) ==
    \E m \in ob :
        m.to = v /\ (CheckOrdered(m) \/ LockCmtSnapshot(m) \/ StoreCertificate(m))

Next ==
    \/ \E w \in Workers : Worker(w)
    \/ HandleReplies
    \/ \E v \in Validators : HandleOA(v) \/ HandleOB(v) \/ Crash(v)

\* The Go scheduler runs every runnable goroutine eventually, and TCP delivers
\* what was sent to a live peer.  A crash is never forced.
Fairness ==
    /\ \A w \in Workers : WF_vars(Worker(w))
    /\ WF_vars(HandleReplies)
    /\ \A v \in Validators : WF_vars(HandleOA(v)) /\ WF_vars(HandleOB(v))

Spec == Init /\ [][Next]_vars
FairSpec == Spec /\ Fairness
-------------------------------------------------------------------------------
(***************************************************************************)
(* Properties.                                                             *)
(***************************************************************************)

\* Faulty servers a booth is meant to tolerate.
F == (BoothSize - 1) \div 3

\* v keeps the block with this hash under this id.
Holds(v, id, hash) == id \in DOMAIN vOrd[v] /\ vOrd[v][id] = hash
Holders(id, hash) == {v \in Validators : Holds(v, id, hash)}

\* The votes counted for a block make an ordering certificate.
Certified(hash) ==
    /\ hash \in DOMAIN blocks
    /\ blocks[hash].len = Thresh
    /\ PenRecovers(blocks[hash].sigs, hash, Thresh)

\* An ordering certificate exists only if 2F+1 servers, counting the proposer,
\* reserved exactly that block under exactly that id (vordering.go:147-224).
CertificateBacked ==
    \A hash \in DOMAIN blocks :
        Certified(hash) => Cardinality(Holders(blocks[hash].id, hash)) + 1 >= 2 * F + 1

\* No two blocks are certified under one block id, although the workers may
\* give two blocks the same id (vordering.go:90,105; comply.go:24-29).
OneCertificatePerId ==
    \A g, h \in DOMAIN blocks :
        Certified(g) /\ Certified(h) /\ blocks[g].id = blocks[h].id => g = h

\* No block id is handed to the consensus phase twice (vordering.go:203).
RecordedOnce ==
    \A i, j \in 1..Len(vgrec) : vgrec[i] = vgrec[j] => i = j

\* A certificate in the consensus cache is that of a certified block of its id.  It
\* may have landed next to another block of that id, stored there meanwhile, but
\* that one has no certificate of its own and never gets one: what the certificate
\* names is the one block this id stands for (vordering.go:126-128,188-222).
CertificateOfItsId ==
    \A id \in DOMAIN cmtSnapshot :
        LET next == cmtSnapshot[id]
        IN  next.tSig # NoSig =>
                \E h \in DOMAIN blocks :
                    /\ blocks[h].id = id /\ Certified(h) /\ next.tSig = CombSig(h)
                    /\ h # next.hash => ~Certified(next.hash)

\* The blocks are disjoint batches of BatchSize requests, however the workers
\* interleave (vordering.go:77-82,130-132).
BatchesDisjoint ==
    /\ \A h \in DOMAIN blocks : Cardinality(EntriesOf(h)) = BatchSize
    /\ \A g, h \in DOMAIN blocks : g # h => EntriesOf(g) \cap EntriesOf(h) = {}

\* A worker that waits at its empty queue, which is never closed, has put every
\* request into a block except the remainder of its load, fewer than a batch:
\* those stay behind (vordering.go:65-82).
RemainderStaysBehind ==
    LET batched == UNION {EntriesOf(h) : h \in DOMAIN blocks}
    IN  \A w \in Workers :
            pc[w] = "recv" /\ requestQueue[w] = 0 =>
                Cardinality(({w} \X (1..MsgLoad)) \ batched) = MsgLoad % BatchSize

\* v's OB goroutine for this id has the cmtSnapshot lock and waits for the token of
\* its own OA goroutine, which needs that lock to leave it.
KeepsLock(v, id) ==
    /\ \E m \in ob : m.to = v /\ m.id = id /\ m.pc = "locked"
    /\ id \notin DOMAIN vCmt[v]

\* An OB goroutine that can never go on: it keeps the lock, or waits for the lock
\* that another one keeps, for whatever block.
NeverReturns(m) ==
    \E id \in DOMAIN vOrd[m.to] :
        KeepsLock(m.to, id) /\ (m.pc = "cmt" \/ (m.pc = "locked" /\ m.id = id))

\* Whenever OB goroutines of a validator block for ever, those of blocks it voted
\* for included, the lock is kept by the goroutine of one block that this validator
\* did not vote for and that was certified without it; and no block keeps the lock
\* of more than all but Threshold validators (comply.go:117-129).
LockKeptByNonVoter ==
    \A m \in ob : NeverReturns(m) =>
        \E id \in DOMAIN vOrd[m.to] :
            /\ KeepsLock(m.to, id)
            /\ \E h \in DOMAIN blocks : blocks[h].id = id /\ Certified(h)
            /\ \A h \in DOMAIN blocks : blocks[h].id = id =>
                   \A s \in blocks[h].sigs : s.by # m.to
            /\ \A j \in DOMAIN vOrd[m.to] : KeepsLock(m.to, j) => j = id
            /\ Cardinality({v \in Validators : KeepsLock(v, id)})
                   <= Cardinality(Validators) - 2 * F

\* A block that a quorum has stored is recorded as ordered if that quorum stays
\* up, whatever the others do and in whatever order the replies are handled
\* (vordering.go:147-203).
StoredBy(id) == {v \in Validators \ crashed : id \in DOMAIN vCmt[v]}
QuorumOrders ==
    \A id \in 0..MsgLoad :
        <>[](Cardinality(StoredBy(id)) >= 2 * F)
            => <>(\E i \in DOMAIN vgrec : vgrec[i] = id)

\* A validator's OB goroutine returns (comply.go:120-129): it waits only for the
\* OA goroutine of the same block.
OBReturns ==
    \A v \in Validators :
        (\E m \in ob : m.to = v) ~> (\A m \in ob : m.to # v)
===============================================================================
