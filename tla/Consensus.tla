------------------------------ MODULE Consensus ------------------------------
(***************************************************************************)
(* The consensus phase of V-Guard.  A loop of the proposer turns the blocks *)
(* ordered since its last round into a consensus instance for the commit   *)
(* booth (startConsensusPhaseA); the validators compare its blocks with    *)
(* their own and sign the instance (validatingCAEntry); the proposer       *)
(* combines Threshold shares (asyncHandleCPAReply) and the validators      *)
(* deliver the instance (validatingCBEntry).                               *)
(*                                                                         *)
(* The ordering phase runs at the same time and changes the shared caches  *)
(* as OrderedBlocks says.  As in Ordering a message is the goroutine that  *)
(* handles it, and steps are cut where the code releases a lock.           *)
(***************************************************************************)
EXTENDS OrderedBlocks

CONSTANTS
    CmtValidators,   \* validators of the commit booth (flag -bm)
    PerfMetres,      \* flag -pm: the proposer does not store what it commits
    ConsWaitingSec,  \* flag -cw: polls without a new block before the end
    MaxWaited,       \* bound: polls counted; a larger -cw never runs out
    MaxCrashes       \* bound: validators that may crash in a behaviour

ASSUME ConsensusAssumption ==
    /\ IsFiniteSet(OrdValidators)
    /\ IsFiniteSet(CmtValidators)
    /\ BlockIds \subseteq Nat
    /\ PerfMetres \in BOOLEAN
    /\ ConsWaitingSec \in Nat
    /\ MaxWaited \in Nat
    /\ MaxCrashes \in Nat

Validators == OrdValidators \cup CmtValidators

\* Threshold is computed once, from the booth size that all booths share.
Thresh == OrdThresh

VARIABLES
    \* proposer: the loop
    consInstID,      \* the instance being built
    waited,          \* empty polls so far, never reset
    cpc,             \* next step of the loop; "exit" once the process has ended
    lastIdx,         \* vgrec.lastIdx: blocks handed to instances so far
    blockIDRange,    \* the blocks of the instance
    unread,          \* those of them not looked up yet
    rangeHash,       \* block id -> hash, the blocks looked up
    resentOPB,       \* entries for members that were not in the ordering booth
    \* proposer: caches
    metaHash,        \* vgTxMeta.hash: instance -> total hash
    metaSigs,        \* vgTxMeta.sigs: instance -> shares
    metaBlockIDs,    \* vgTxMeta.blockIDs: instance -> blocks
    pStored,         \* instances the proposer has stored
    broadcastError,  \* set by the first failed send, never reset
    \* proposer: reply goroutines
    cpaReplies,      \* replies before, and between, their two critical sections
    commits,         \* CPB entries made, one per goroutine that reached Threshold
    \* validators
    tx,              \* tx[v]: instance -> blocks of it found, vgTxData.tx of v
    vHash,           \* vHash[v]: instance -> total hash, vgTxMeta.hash of v
    consJobs,        \* consJobs[v]: instances with a token in valiConsJobStack
    stored,          \* stored[v]: instances v has delivered
    ca,              \* goroutines running validatingCAEntry
    cb,              \* goroutines running validatingCBEntry
    crashed          \* validators whose process has died

loopVars == <<consInstID, waited, cpc, lastIdx, blockIDRange, unread, rangeHash, resentOPB>>
metaVars == <<metaHash, metaSigs, metaBlockIDs>>
replyVars == <<cpaReplies, commits>>
validatorVars == <<tx, vHash, consJobs, stored>>
consVars == <<loopVars, metaVars, pStored, broadcastError, replyVars, validatorVars,
              ca, cb, crashed>>
vars == <<ordVars, consVars>>

Instances == 0..Cardinality(BlockIds)
-------------------------------------------------------------------------------
HashMaps == UNION {[ids -> BlockHashes] : ids \in SUBSET BlockIds}
TotalHashes == {"sha256"} \X HashMaps
OrdSigs == {NoSig} \cup ({"tbls"} \X BlockHashes)
OPBEntries == [id : BlockIds, hash : BlockHashes, sig : OrdSigs]
Shares == [by : Validators, on : TotalHashes]
Found == [id : BlockIds, hash : BlockHashes]

TypeOK ==
    /\ IsMap(cmtSnapshot, BlockIds, [hash : BlockHashes, tSig : OrdSigs])
    /\ vgrec \in Seq(BlockIds)
    /\ DOMAIN vCmt = Validators
    /\ \A v \in Validators : IsMap(vCmt[v], BlockIds, BlockHashes)
    /\ obStuck \subseteq OrdValidators
    /\ consInstID \in Instances
    /\ waited \in 0..MaxWaited
    /\ cpc \in {"range", "read", "bcast", "meta", "exit"}
    /\ lastIdx \in 0..Len(vgrec)
    /\ blockIDRange \in Seq(BlockIds)
    /\ unread \in Seq(BlockIds)
    /\ IsMap(rangeHash, BlockIds, BlockHashes)
    /\ resentOPB \subseteq OPBEntries
    /\ IsMap(metaHash, Instances, TotalHashes)
    /\ DOMAIN metaSigs \subseteq Instances
    /\ \A i \in DOMAIN metaSigs : metaSigs[i] \subseteq Shares
    /\ IsMap(metaBlockIDs, Instances, Seq(BlockIds))
    /\ pStored \subseteq Instances
    /\ broadcastError \in BOOLEAN
    /\ \A r \in cpaReplies :
           /\ r.inst \in Instances
           /\ r.sig \in Shares
           /\ r.pc \in {"fetch", "append"}
           /\ r.seen \subseteq Shares
    /\ \A c \in commits :
           /\ c.inst \in Instances
           /\ c.hash \in TotalHashes
           /\ c.by \in Validators
           /\ c.sent \in BOOLEAN
    /\ \A v \in Validators :
           /\ IsMap(tx[v], Instances, SUBSET Found)
           /\ IsMap(vHash[v], Instances, TotalHashes)
           /\ consJobs[v] \subseteq Instances
           /\ stored[v] \subseteq Instances
    /\ \A m \in ca :
           /\ m.to \in CmtValidators
           /\ m.inst \in Instances
           /\ m.bids \in Seq(BlockIds)
           /\ IsMap(m.rangeHash, BlockIds, BlockHashes)
           /\ m.prev \subseteq OPBEntries
           /\ m.pc \in {"recv", "check", "reply", "token"}
    /\ \A m \in cb :
           /\ m.to \in CmtValidators
           /\ m.inst \in Instances
           /\ m.hash \in TotalHashes
    /\ crashed \subseteq Validators

Init ==
    /\ OrdInit(Validators)
    /\ consInstID = 0
    /\ waited = 0
    /\ cpc = "range"
    /\ lastIdx = 0
    /\ blockIDRange = <<>>
    /\ unread = <<>>
    /\ rangeHash = EmptyMap
    /\ resentOPB = {}
    /\ metaHash = EmptyMap
    /\ metaSigs = EmptyMap
    /\ metaBlockIDs = EmptyMap
    /\ pStored = {}
    /\ broadcastError = FALSE
    /\ cpaReplies = {}
    /\ commits = {}
    /\ tx = [v \in Validators |-> EmptyMap]
    /\ vHash = [v \in Validators |-> EmptyMap]
    /\ consJobs = [v \in Validators |-> {}]
    /\ stored = [v \in Validators |-> {}]
    /\ ca = {}
    /\ cb = {}
    /\ crashed = {}
-------------------------------------------------------------------------------
\* The proposer's process: it ends when the loop gives up waiting.
Running == cpc # "exit"

\* As in Ordering: a failed send suppresses every later broadcast.
Reached == IF broadcastError THEN {} ELSE CmtValidators \ crashed

\* Members of the commit booth that were not in the ordering booth.
EveryMember == CmtValidators
NewMembers == CmtValidators \ OrdValidators

\* A failed send to a new member goes unnoticed; to any other one, or of a
\* broadcast of the ordering phase, it sets the flag.
EncodeOutcomes(members) ==
    IF crashed \cap members # {} /\ ~broadcastError THEN BOOLEAN ELSE {broadcastError}

(***************************************************************************)
(* The consensus loop of the proposer.                                     *)
(***************************************************************************)

\* GetIDRange: the blocks recorded since the last call.
RangeFromStart(from) == vgrec
RangeSkipsOne(from) == SubSeq(vgrec, from + 2, Len(vgrec))
RangeFrom(from) == SubSeq(vgrec, from + 1, Len(vgrec))

\* No new block: wait a second, and end the process when it waited long enough.
Wait ==
    /\ cpc = "range"
    /\ RangeFrom(lastIdx) = <<>>
    /\ waited' = IF waited < MaxWaited THEN waited + 1 ELSE waited
    /\ cpc' = IF waited + 1 < ConsWaitingSec THEN "range" ELSE "exit"
    /\ UNCHANGED <<ordVars, consInstID, lastIdx, blockIDRange, unread, rangeHash, resentOPB,
                   metaVars, pStored, broadcastError, replyVars, validatorVars,
                   ca, cb, crashed>>

\* Take the new blocks.
GetIDRange ==
    /\ cpc = "range"
    /\ RangeFrom(lastIdx) # <<>>
    /\ blockIDRange' = RangeFrom(lastIdx)
    /\ unread' = RangeFrom(lastIdx)
    /\ lastIdx' = Len(vgrec)
    /\ rangeHash' = EmptyMap
    /\ resentOPB' = {}
    /\ cpc' = "read"
    /\ UNCHANGED <<ordVars, consInstID, waited, metaVars, pStored, broadcastError, replyVars,
                   validatorVars, ca, cb, crashed>>

\* Look one block up.  Its certificate is read without the lock, and may not be
\* there yet; the entry goes to the new members as it is.
ReadBlock ==
    /\ cpc = "read"
    /\ LET id == Head(unread)
       IN  IF id \in DOMAIN cmtSnapshot
           THEN LET frag == cmtSnapshot[id]
                IN  /\ rangeHash' = Put(rangeHash, id, frag.hash)
                    /\ resentOPB' = IF NewMembers = {} THEN {} ELSE resentOPB \cup
                           {[id |-> id, hash |-> frag.hash, sig |-> frag.tSig]}
           ELSE UNCHANGED <<rangeHash, resentOPB>>
    /\ unread' = Tail(unread)
    /\ cpc' = IF unread' = <<>> THEN "bcast" ELSE "read"
    /\ UNCHANGED <<ordVars, consInstID, waited, lastIdx, blockIDRange, metaVars, pStored,
                   broadcastError, replyVars, validatorVars, ca, cb, crashed>>

\* broadcastToBooth, or broadcastToNewBooth: the old entries are for new members.
BroadcastCPA ==
    /\ cpc = "bcast"
    /\ ca' = ca \cup {[to |-> v, inst |-> consInstID, bids |-> blockIDRange,
                       rangeHash |-> rangeHash,
                       prev |-> IF v \in NewMembers THEN resentOPB ELSE {},
                       pc |-> "recv"] : v \in Reached}
    /\ broadcastError' \in EncodeOutcomes(CmtValidators \ NewMembers)
    /\ cpc' = "meta"
    /\ UNCHANGED <<ordVars, consInstID, waited, lastIdx, blockIDRange, unread, rangeHash,
                   resentOPB, metaVars, pStored, replyVars, validatorVars, cb, crashed>>

\* Only now can replies be handled.
StoreMeta ==
    /\ cpc = "meta"
    /\ metaHash' = Put(metaHash, consInstID, Digest(rangeHash))
    /\ metaBlockIDs' = Put(metaBlockIDs, consInstID, blockIDRange)
    /\ consInstID' = consInstID + 1
    /\ cpc' = "range"
    /\ UNCHANGED <<ordVars, waited, lastIdx, blockIDRange, unread, rangeHash, resentOPB,
                   metaSigs, pStored, broadcastError, replyVars, validatorVars,
                   ca, cb, crashed>>

(***************************************************************************)
(* The reply goroutines of the proposer: asyncHandleCPAReply.              *)
(***************************************************************************)
SigsOf(inst) == IF inst \in DOMAIN metaSigs THEN metaSigs[inst] ELSE {}

\* Read the shares under the read lock; a reply to an instance whose hash is not
\* stored yet is dropped, and so is one to a committed instance.
FetchSigs(r) ==
    /\ Running
    /\ r.pc = "fetch"
    /\ cpaReplies' =
          IF r.inst \in DOMAIN metaHash /\ Cardinality(SigsOf(r.inst)) # Thresh
          THEN (cpaReplies \ {r})
                   \cup {[r EXCEPT !.pc = "append", !.seen = SigsOf(r.inst)]}
          ELSE cpaReplies \ {r}
    /\ UNCHANGED <<ordVars, loopVars, metaVars, pStored, broadcastError, commits,
                   validatorVars, ca, cb, crashed>>

\* Write them back with one more, whatever was written in the meantime.
AppendSig(r) ==
    LET sigs == r.seen \cup {r.sig}
        hash == metaHash[r.inst]
    IN  /\ Running
        /\ r.pc = "append"
        /\ metaSigs' = Put(metaSigs, r.inst, sigs)
        /\ cpaReplies' = cpaReplies \ {r}
        /\ commits' = IF Cardinality(sigs) = Thresh /\ PenRecovers(sigs, hash, Thresh)
                      THEN commits \cup {[inst |-> r.inst, hash |-> hash, by |-> r.sig.by,
                                          sent |-> FALSE]}
                      ELSE commits
        /\ UNCHANGED <<ordVars, loopVars, metaHash, metaBlockIDs, pStored, broadcastError,
                       validatorVars, ca, cb, crashed>>

\* Send the combined signature to the booth, then store the instance.
BroadcastCPB(c) ==
    /\ Running
    /\ ~c.sent
    /\ commits' = (commits \ {c}) \cup {[c EXCEPT !.sent = TRUE]}
    /\ cb' = cb \cup {[to |-> v, inst |-> c.inst, hash |-> c.hash, sig |-> CombSig(c.hash),
                       by |-> c.by] : v \in Reached}
    /\ broadcastError' \in EncodeOutcomes(CmtValidators)
    /\ pStored' = IF PerfMetres THEN pStored ELSE pStored \cup {c.inst}
    /\ UNCHANGED <<ordVars, loopVars, metaVars, cpaReplies, validatorVars, ca, crashed>>

(***************************************************************************)
(* The validators.                                                         *)
(***************************************************************************)
AdvanceCA(m, next) == (ca \ {m}) \cup {[m EXCEPT !.pc = next]}

\* validatingOBEntry without an encoder: the blocks of the ordering phase that a
\* new member stores are those with a valid certificate.
SyncedUnverified(prev) == prev
Synced(prev) == {e \in prev : PenVerify(e.hash, e.sig)}

\* validatingCAEntry up to the loop.  No other handler of a new member touches
\* the blocks it is sent.
StartCA(m) ==
    LET old    == vCmt[m.to]
        synced == Synced(m.prev)
        ids    == {e.id : e \in synced}
    IN  /\ m.pc = "recv"
        /\ tx' = [tx EXCEPT ![m.to] = Put(@, m.inst, {})]
        /\ vCmt' = [vCmt EXCEPT ![m.to] = [id \in DOMAIN old \cup ids |->
               IF id \in ids THEN (CHOOSE e \in synced : e.id = id).hash ELSE old[id]]]
        /\ ca' = AdvanceCA(m, "check")
        /\ UNCHANGED <<cmtSnapshot, vgrec, obStuck, loopVars, metaVars, pStored,
                       broadcastError, replyVars, vHash, consJobs, stored, cb, crashed>>

\* The block of v differs from the one the proposer put in the instance.
MismatchIgnored(v, id, hashes) == FALSE
Mismatch(v, id, hashes) == id \notin DOMAIN hashes \/ vCmt[v][id] # hashes[id]

\* One round of the loop over the blocks: a block v does not have is skipped, one
\* that differs ends the handler, any other one is kept for delivery.
CheckBlock(m) ==
    LET v    == m.to
        id   == Head(m.bids)
        next == [m EXCEPT !.bids = Tail(@), !.pc = IF Tail(m.bids) = <<>> THEN "reply" ELSE "check"]
    IN  /\ m.pc = "check"
        /\ v \notin obStuck
        /\ IF id \notin DOMAIN vCmt[v]
           THEN ca' = (ca \ {m}) \cup {next} /\ UNCHANGED tx
           ELSE IF Mismatch(v, id, m.rangeHash)
                THEN ca' = ca \ {m} /\ UNCHANGED tx
                ELSE /\ ca' = (ca \ {m}) \cup {next}
                     /\ tx' = [tx EXCEPT ![v][m.inst] =
                                  @ \cup {[id |-> id, hash |-> vCmt[v][id]]}]
        /\ UNCHANGED <<ordVars, loopVars, metaVars, pStored, broadcastError, replyVars,
                       vHash, consJobs, stored, cb, crashed>>

\* Sign the instance and reply.
ReplyCA(m) ==
    /\ m.pc = "reply"
    /\ cpaReplies' = IF Running
                     THEN cpaReplies \cup {[inst |-> m.inst, pc |-> "fetch", seen |-> {},
                                            sig |-> PenSign(m.to, Digest(m.rangeHash))]}
                     ELSE cpaReplies
    /\ ca' = AdvanceCA(m, "token")
    /\ UNCHANGED <<ordVars, loopVars, metaVars, pStored, broadcastError, commits,
                   validatorVars, cb, crashed>>

\* The tokens of v once the CA handler of an instance has left its own.
TokenForgotten(v, inst) == consJobs[v]
WithToken(v, inst) == consJobs[v] \cup {inst}

\* Store the hash and leave the token for the CB handler.
FinishCA(m) ==
    /\ m.pc = "token"
    /\ vHash' = [vHash EXCEPT ![m.to] = Put(@, m.inst, Digest(m.rangeHash))]
    /\ consJobs' = [consJobs EXCEPT ![m.to] = WithToken(m.to, m.inst)]
    /\ ca' = ca \ {m}
    /\ UNCHANGED <<ordVars, loopVars, metaVars, pStored, broadcastError, replyVars,
                   tx, stored, cb, crashed>>

\* validatingCBEntry: take the token, then deliver if the signature is valid.
DeliverCB(m) ==
    /\ m.inst \in consJobs[m.to]
    /\ consJobs' = [consJobs EXCEPT ![m.to] = @ \ {m.inst}]
    /\ stored' = IF PenVerify(m.hash, m.sig)
                 THEN [stored EXCEPT ![m.to] = @ \cup {m.inst}] ELSE stored
    /\ cb' = cb \ {m}
    /\ UNCHANGED <<ordVars, loopVars, metaVars, pStored, broadcastError, replyVars,
                   tx, vHash, ca, crashed>>

\* The process of v dies: its goroutines stop, and what its connection still
\* carried may be lost.  The same happens once v has lost its proposer.  A lock that
\* a dead handler of the ordering phase kept is gone (LoseLock).
Crash(v) ==
    /\ v \notin crashed
    /\ Cardinality(crashed) < MaxCrashes \/ ~Running
    /\ crashed' = crashed \cup {v}
    /\ obStuck' = obStuck \ {v}
    /\ \E lost \in SUBSET {r \in cpaReplies : r.sig.by = v /\ r.pc = "fetch"} :
           cpaReplies' = cpaReplies \ lost
    /\ UNCHANGED <<cmtSnapshot, vgrec, vCmt, loopVars, metaVars, pStored, broadcastError,
                   commits, validatorVars, ca, cb>>

(***************************************************************************)
(* The ordering phase, as OrderedBlocks describes it.                      *)
(***************************************************************************)
Ordering ==
    /\ \/ Running /\ ProposerOrders
       \/ \E v \in OrdValidators \ crashed : ValidatorOrders(v)
    /\ UNCHANGED consVars

\* A broadcast of the ordering phase fails at a dead member of its booth.
OrderingSendFails ==
    /\ Running
    /\ TRUE \in EncodeOutcomes(OrdValidators)
    /\ broadcastError' = TRUE
    /\ UNCHANGED <<ordVars, loopVars, metaVars, pStored, replyVars, validatorVars,
                   ca, cb, crashed>>
-------------------------------------------------------------------------------
Loop == Wait \/ GetIDRange \/ ReadBlock \/ BroadcastCPA \/ StoreMeta

HandleReplies ==
    \/ \E r \in cpaReplies : FetchSigs(r) \/ AppendSig(r)
    \/ \E c \in commits : BroadcastCPB(c)

HandleCA(v) ==
    /\ v \notin crashed
    /\ \E m \in ca : m.to = v /\ (StartCA(m) \/ CheckBlock(m) \/ ReplyCA(m) \/ FinishCA(m))

HandleCB(v) ==
    /\ v \notin crashed
    /\ \E m \in cb : m.to = v /\ DeliverCB(m)

Next ==
    \/ Loop
    \/ HandleReplies
    \/ \E v \in CmtValidators : HandleCA(v) \/ HandleCB(v)
    \/ \E v \in Validators : Crash(v)
    \/ Ordering
    \/ OrderingSendFails

\* Every runnable goroutine runs eventually.  Nothing is assumed of the ordering
\* phase, whose validators may be blocked.
Fairness ==
    /\ WF_vars(Loop)
    /\ WF_vars(HandleReplies)
    /\ \A v \in CmtValidators : WF_vars(HandleCA(v)) /\ WF_vars(HandleCB(v))

Spec == Init /\ [][Next]_vars
FairSpec == Spec /\ Fairness
-------------------------------------------------------------------------------
(***************************************************************************)
(* Properties.                                                             *)
(***************************************************************************)

\* Faulty servers a booth is meant to tolerate.
F == Cardinality(OrdValidators) \div 3

\* v has signed an instance with this total hash.
Signed(v, inst, hash) ==
    \/ inst \in DOMAIN vHash[v] /\ vHash[v][inst] = hash
    \/ \E m \in ca : /\ m.to = v /\ m.inst = inst /\ m.pc = "token"
                     /\ Digest(m.rangeHash) = hash
Signers(inst, hash) == {v \in CmtValidators : Signed(v, inst, hash)}

\* An instance is committed only after 2F+1 members of the commit booth, the
\* proposer included, have signed exactly its blocks, although the reply
\* goroutines overwrite each other's shares (vconsensus.go:154-203).
CommitBacked ==
    \A c \in commits : Cardinality(Signers(c.inst, c.hash)) + 1 >= 2 * F + 1

\* What one validator delivers of an instance never contradicts what another one
\* delivers of it, even if the workers gave two blocks the same id
\* (comply.go:158-195, 248-254).
DeliveriesAgree ==
    \A u, v \in CmtValidators :
        \A i \in stored[u] \cap stored[v] :
            \A d \in tx[u][i], e \in tx[v][i] : d.id = e.id => d = e

\* The instances take the ordered blocks in order, each block once and none left
\* out, while the ordering phase goes on recording (vordering.go:23-35).
InstancesPartition ==
    LET upto[i \in 0..consInstID] == IF i = 0 THEN <<>> ELSE upto[i - 1] \o metaBlockIDs[i - 1]
        taken == IF cpc \in {"read", "bcast", "meta"} THEN blockIDRange ELSE <<>>
    IN  upto[consInstID] \o taken = SubSeq(vgrec, 1, lastIdx)

\* A member of the commit booth that took no part in ordering a block keeps it
\* only if a quorum of the ordering booth did store it (comply.go:85-111).
SyncedCertified ==
    \A v \in NewMembers : \A id \in DOMAIN vCmt[v] : OrderableAs(id, vCmt[v][id])

\* Every ordered block is put in an instance, as long as the proposer runs
\* (vordering.go:23-35, vconsensus.go:26-146).
OrderedProposed ==
    \A id \in BlockIds :
        Recorded(id) ~> \/ \E i \in DOMAIN metaBlockIDs :
                               \E k \in DOMAIN metaBlockIDs[i] : metaBlockIDs[i][k] = id
                        \/ ~Running

\* A validator that has signed an instance and receives its commit delivers it,
\* in whichever order its two handlers run (comply.go:214-254).
SignedDelivers ==
    \A v \in CmtValidators, i \in Instances :
        (\E m \in cb : m.to = v /\ m.inst = i /\ Signed(v, i, m.hash))
            ~> (i \in stored[v] \/ v \in crashed)

\* A validator that delivers an instance delivers all of its blocks: the members
\* that did not see the ordered entries get them piggybacked (msgformat.go:40).
DeliversAllBlocks ==
    \A v \in CmtValidators : \A i \in stored[v] :
        i \in DOMAIN metaBlockIDs =>
            \A k \in DOMAIN metaBlockIDs[i] : \E e \in tx[v][i] : e.id = metaBlockIDs[i][k]

\* A CB handler waits for the CA handler of its instance, and returns once that
\* one has finished (comply.go:236-246).
CBReturns ==
    \A v \in CmtValidators, i \in Instances :
        (i \in DOMAIN vHash[v] /\ \E m \in cb : m.to = v /\ m.inst = i)
            ~> (\A m \in cb : m.to = v => m.inst # i)

\* Consensus requires only 2F+1 servers (comply.go:97-99): when that many have
\* signed an instance, the proposer included, it is committed.
VotesCommit ==
    \A i \in Instances :
        Cardinality({v \in CmtValidators : i \in DOMAIN vHash[v]}) >= 2 * F
            ~> (\E c \in commits : c.inst = i)
===============================================================================
