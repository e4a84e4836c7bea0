------------------------- MODULE ConsensusRefinement --------------------------
(***************************************************************************)
(* The instances of the consensus phase, for any two booths, any finite    *)
(* number of blocks, workers that share block ids, and any number of       *)
(* crashes: their types, the blocks they take, that the phase implements   *)
(* the abstract log, and that it leaves the ordering phase alone.  Signing *)
(* is the vote; the reply goroutine that combines Threshold shares fills   *)
(* the slot of its instance.                                               *)
(***************************************************************************)
EXTENDS ConsensusProofs, MCConsensus, Recursion, SequenceTheorems

-------------------------------------------------------------------------------
(***************************************************************************)
(* The invariant.                                                          *)
(***************************************************************************)

\* A member handles an instance once.
OnceInv ==
    /\ \A m, k \in ca : m.to = k.to /\ m.inst = k.inst => m = k
    /\ \A m \in ca : m.inst \notin DOMAIN vHash[m.to]

\* Each instance has taken at least one block, and no block is recorded twice.
RangeInv ==
    /\ vgrec \in Seq(BlockIds)
    /\ \A i, j \in 1..Len(vgrec) : vgrec[i] = vgrec[j] => i = j
    /\ lastIdx \in 0..Len(vgrec)
    /\ consInstID <= lastIdx
    /\ cpc \in {"read", "bcast", "meta"} => consInstID < lastIdx

\* The hashes of instances are those of maps from ids to digests.
HashInv ==
    /\ DOMAIN cmtSnapshot \subseteq BlockIds
    /\ IsMap(rangeHash, BlockIds, BlockHashes)
    /\ \A i \in DOMAIN metaHash : metaHash[i] \in TotalHashes

RInv == CInv /\ OnceInv /\ RangeInv /\ HashInv

LEMMA RInit == Init => RInv
<1> SUFFICES ASSUME Init PROVE RInv
    OBVIOUS
<1>1. DOMAIN EmptyMap = {} /\ EmptyMap = [k \in {} |-> EmptyMap[k]]
    BY DEF EmptyMap
<1>2. OnceInv
    BY DEF Init, OnceInv
<1>3. RangeInv
    <2>1. vgrec = <<>> /\ Len(vgrec) = 0
        BY DEF Init, OrdInit
    <2> QED  BY <2>1 DEF Init, RangeInv
<1>4. HashInv
    BY <1>1 DEF Init, OrdInit, HashInv, IsMap
<1> QED  BY <1>2, <1>3, <1>4, CInit DEF RInv

-------------------------------------------------------------------------------
(***************************************************************************)
(* One handler for each member and instance.                               *)
(***************************************************************************)

\* A handler that goes on keeps its member and its instance.
LEMMA AdvancedCA ==
    ASSUME CAInv, NEW m \in ca, NEW next, NEW k, k = [m EXCEPT !.pc = next]
    PROVE  k.to = m.to /\ k.inst = m.inst /\ k.pc = next
BY DEF CAInv

\* One handler is replaced by at most one for the same member and instance.
LEMMA OnceKept ==
    ASSUME OnceInv, NEW m \in ca, NEW k, k.to = m.to, k.inst = m.inst,
           ca' \subseteq (ca \ {m}) \cup {k}, UNCHANGED vHash
    PROVE  OnceInv'
<1>1. \A x \in ca' : x = k \/ (x \in ca /\ x # m)
    OBVIOUS
<1>2. ASSUME NEW x \in ca', NEW y \in ca', x.to = y.to, x.inst = y.inst
      PROVE  x = y
    BY <1>1, <1>2 DEF OnceInv
<1>3. ASSUME NEW x \in ca' PROVE x.inst \notin DOMAIN vHash'[x.to]
    BY <1>1, <1>3 DEF OnceInv
<1> QED  BY <1>2, <1>3 DEF OnceInv

LEMMA OnceStep ==
    ASSUME LoopInv, CAInv, VoteInv, OnceInv, [Next]_vars
    PROVE  OnceInv'
<1>1. CASE UNCHANGED <<ca, vHash>>
    BY <1>1 DEF OnceInv
<1>2. CASE BroadcastCPA
    <2>1. /\ cpc = "bcast" /\ UNCHANGED vHash
          /\ \A x \in ca' : x \in ca \/ x.inst = consInstID
          /\ \A x, y \in ca' : x \notin ca /\ y \notin ca /\ x.to = y.to => x = y
        <3> DEFINE msg(v) == [to |-> v, inst |-> consInstID, bids |-> blockIDRange,
                              rangeHash |-> rangeHash,
                              prev |-> IF v \in NewMembers THEN resentOPB ELSE {},
                              pc |-> "recv"]
        <3>1. \A v : msg(v).to = v /\ msg(v).inst = consInstID
            OBVIOUS
        <3>2. cpc = "bcast" /\ UNCHANGED vHash /\ ca' = ca \cup {msg(v) : v \in Reached}
            BY <1>2 DEF BroadcastCPA, validatorVars
        <3> HIDE DEF msg
        <3> QED  BY <3>1, <3>2
    <2>2. \A x \in ca : x.inst # consInstID
        BY <2>1 DEF CAInv, Begun, LoopInv
    <2>3. \A v \in CmtValidators : consInstID \notin DOMAIN vHash[v]
        BY <2>1 DEF VoteInv, Begun, LoopInv
    <2>4. \A x \in ca' : x.to \in CmtValidators
        BY <1>2 DEF BroadcastCPA, Reached, CAInv
    <2>5. ASSUME NEW x \in ca', NEW y \in ca', x.to = y.to, x.inst = y.inst
          PROVE  x = y
        BY <2>1, <2>2, <2>5 DEF OnceInv
    <2>6. ASSUME NEW x \in ca' PROVE x.inst \notin DOMAIN vHash'[x.to]
        BY <2>1, <2>3, <2>4, <2>6 DEF OnceInv
    <2> QED  BY <2>5, <2>6 DEF OnceInv
<1>3. ASSUME NEW m \in ca, StartCA(m) \/ ReplyCA(m)
      PROVE  OnceInv'
    <2>1. PICK next : ca' = AdvanceCA(m, next) /\ UNCHANGED vHash
        BY <1>3 DEF StartCA, ReplyCA, validatorVars
    <2>2. PICK k : k = [m EXCEPT !.pc = next]
        OBVIOUS
    <2>3. k.to = m.to /\ k.inst = m.inst
        BY <2>2, AdvancedCA
    <2>4. ca' \subseteq (ca \ {m}) \cup {k}
        BY <2>1, <2>2 DEF AdvanceCA
    <2> QED  BY <2>1, <2>3, <2>4, OnceKept
<1>4. ASSUME NEW m \in ca, CheckBlock(m) PROVE OnceInv'
    <2>1. PICK next, bids, k : /\ k = [m EXCEPT !.bids = bids, !.pc = next]
                               /\ ca' \subseteq (ca \ {m}) \cup {k}
                               /\ UNCHANGED vHash
        BY <1>4 DEF CheckBlock
    <2>2. k.to = m.to /\ k.inst = m.inst
        BY <2>1 DEF CAInv
    <2> QED  BY <2>1, <2>2, OnceKept
<1>5. ASSUME NEW m \in ca, FinishCA(m) PROVE OnceInv'
    <2>1. ca' = ca \ {m} /\ vHash' = [vHash EXCEPT ![m.to] = Put(@, m.inst, Digest(m.rangeHash))]
        BY <1>5 DEF FinishCA
    <2>2. ASSUME NEW x \in ca'
          PROVE  x \in ca /\ x.inst \notin DOMAIN vHash[x.to] /\ (x.to = m.to => x.inst # m.inst)
        BY <2>1, <2>2 DEF OnceInv
    <2>3. \A v : v # m.to => vHash'[v] = vHash[v]
        BY <2>1
    <2>4. DOMAIN vHash'[m.to] \subseteq DOMAIN vHash[m.to] \cup {m.inst}
        BY <2>1 DEF VoteInv, Put, CAInv, Validators
    <2>5. ASSUME NEW x \in ca' PROVE x.inst \notin DOMAIN vHash'[x.to]
        BY <2>2, <2>3, <2>4, <2>5
    <2> QED  BY <2>1, <2>5 DEF OnceInv
<1>6. CASE \E v \in CmtValidators : HandleCA(v) \/ HandleCB(v)
    BY <1>1, <1>3, <1>4, <1>5, <1>6 DEF HandleCA, HandleCB, DeliverCB
<1>7. CASE Wait \/ GetIDRange \/ ReadBlock \/ StoreMeta
    BY <1>1, <1>7 DEF Wait, GetIDRange, ReadBlock, StoreMeta, validatorVars
<1>8. CASE HandleReplies
    BY <1>1, <1>8 DEF HandleReplies, FetchSigs, AppendSig, BroadcastCPB, validatorVars
<1>9. CASE (\E v \in Validators : Crash(v)) \/ Ordering \/ OrderingSendFails \/ UNCHANGED vars
    BY <1>1, <1>9 DEF Crash, Ordering, OrderingSendFails, vars, consVars, validatorVars
<1> QED  BY <1>2, <1>6, <1>7, <1>8, <1>9 DEF Next, Loop

-------------------------------------------------------------------------------
(***************************************************************************)
(* The numbers and the hashes of instances.                                *)
(***************************************************************************)

\* A range that is not empty takes at least one block.
LEMMA RangeTakes ==
    ASSUME RangeInv, RangeFrom(lastIdx) # <<>>
    PROVE  lastIdx < Len(vgrec)
<1> SUFFICES ASSUME lastIdx = Len(vgrec) PROVE FALSE
    BY DEF RangeInv
<1>1. SubSeq(vgrec, lastIdx + 1, Len(vgrec)) = <<>>
    BY DEF RangeInv
<1> QED  BY <1>1 DEF RangeFrom

LEMMA RangeStep ==
    ASSUME LoopInv, RangeInv, [Next]_vars
    PROVE  RangeInv'
<1>1. CASE UNCHANGED <<vgrec, lastIdx, consInstID, cpc>>
    BY <1>1 DEF RangeInv
<1>2. CASE GetIDRange
    <2>1. lastIdx < Len(vgrec)
        BY <1>2, RangeTakes DEF GetIDRange
    <2>2. UNCHANGED <<vgrec, consInstID>> /\ lastIdx' = Len(vgrec) /\ cpc' = "read"
        BY <1>2 DEF GetIDRange, ordVars
    <2> QED  BY <2>1, <2>2 DEF RangeInv, LoopInv
<1>3. CASE Wait \/ ReadBlock \/ BroadcastCPA
    <2>1. /\ UNCHANGED <<vgrec, consInstID, lastIdx>>
          /\ cpc' \in {"read", "bcast", "meta"} => cpc \in {"read", "bcast", "meta"}
        BY <1>3 DEF Wait, ReadBlock, BroadcastCPA, ordVars
    <2> QED  BY <2>1 DEF RangeInv
<1>4. CASE StoreMeta
    <2>1. /\ UNCHANGED <<vgrec, lastIdx>>
          /\ consInstID' = consInstID + 1 /\ cpc = "meta" /\ cpc' = "range"
        BY <1>4 DEF StoreMeta, ordVars
    <2> QED  BY <2>1 DEF RangeInv, LoopInv
<1>5. ASSUME NEW id \in BlockIds, RecordBlock(id), UNCHANGED consVars
      PROVE  RangeInv'
    <2>1. /\ vgrec' = Append(vgrec, id) /\ UNCHANGED <<lastIdx, consInstID, cpc>>
          /\ \A i \in 1..Len(vgrec) : vgrec[i] # id
        BY <1>5 DEF RecordBlock, Recorded, RangeInv, consVars, loopVars
    <2>2. /\ vgrec' \in Seq(BlockIds) /\ Len(vgrec') = Len(vgrec) + 1 /\ Len(vgrec) \in Nat
          /\ vgrec'[Len(vgrec')] = id
          /\ \A i \in 1..Len(vgrec) : vgrec'[i] = vgrec[i]
        BY <2>1 DEF RangeInv
    <2>3. \A i \in 1..Len(vgrec') : i \in 1..Len(vgrec) \/ i = Len(vgrec')
        BY <2>2
    <2>4. ASSUME NEW i \in 1..Len(vgrec'), NEW j \in 1..Len(vgrec'), vgrec'[i] = vgrec'[j]
          PROVE  i = j
        BY <2>1, <2>2, <2>3, <2>4 DEF RangeInv
    <2>5. lastIdx' \in 0..Len(vgrec')
        BY <2>1, <2>2 DEF RangeInv
    <2> QED  BY <2>1, <2>2, <2>4, <2>5 DEF RangeInv
<1>6. CASE Ordering
    <2>1. ASSUME ~\E id \in BlockIds : RecordBlock(id)
          PROVE  UNCHANGED vgrec
        BY <1>6, <2>1 DEF Ordering, ProposerOrders, ValidatorOrders, FormBlock, StoreOrderSig,
                          StoreBlock, BlockOB
    <2> QED  BY <1>1, <1>5, <1>6, <2>1 DEF Ordering, consVars, loopVars
<1>7. CASE \E v \in CmtValidators : HandleCA(v) \/ HandleCB(v)
    BY <1>1, <1>7 DEF HandleCA, HandleCB, StartCA, CheckBlock, ReplyCA, FinishCA, DeliverCB,
                      ordVars, loopVars
<1>8. CASE HandleReplies
    BY <1>1, <1>8 DEF HandleReplies, FetchSigs, AppendSig, BroadcastCPB, ordVars, loopVars
<1>9. CASE (\E v \in Validators : Crash(v)) \/ OrderingSendFails \/ UNCHANGED vars
    BY <1>1, <1>9 DEF Crash, OrderingSendFails, vars, consVars, ordVars, loopVars
<1> QED  BY <1>2, <1>3, <1>4, <1>6, <1>7, <1>8, <1>9 DEF Next, Loop

\* The digest of a map from ids to digests is the hash of an instance.
LEMMA DigestType ==
    ASSUME IsMap(rangeHash, BlockIds, BlockHashes)
    PROVE  Digest(rangeHash) \in TotalHashes
<1>1. DOMAIN rangeHash \in SUBSET BlockIds
      /\ rangeHash \in [DOMAIN rangeHash -> BlockHashes]
    BY DEF IsMap
<1>2. rangeHash \in HashMaps
    BY <1>1 DEF HashMaps
<1> QED  BY <1>2 DEF Digest, TotalHashes

LEMMA HashStep ==
    ASSUME LoopInv, CertInv, HashInv, [Next]_vars
    PROVE  HashInv'
<1>1. CASE UNCHANGED <<cmtSnapshot, rangeHash, metaHash>>
    BY <1>1 DEF HashInv, IsMap
<1>2. CASE GetIDRange
    <2>1. rangeHash' = EmptyMap /\ UNCHANGED <<cmtSnapshot, metaHash>>
        BY <1>2 DEF GetIDRange, ordVars, metaVars
    <2> QED  BY <2>1 DEF HashInv, IsMap, EmptyMap
<1>3. CASE ReadBlock
    <2>1. PICK id : \/ UNCHANGED rangeHash
                    \/ /\ id \in DOMAIN cmtSnapshot
                       /\ rangeHash' = Put(rangeHash, id, cmtSnapshot[id].hash)
        BY <1>3 DEF ReadBlock
    <2>2. UNCHANGED <<cmtSnapshot, metaHash>>
        BY <1>3 DEF ReadBlock, ordVars, metaVars
    <2>3. CASE UNCHANGED rangeHash
        BY <1>1, <2>2, <2>3
    <2>4. CASE id \in DOMAIN cmtSnapshot /\ rangeHash' = Put(rangeHash, id, cmtSnapshot[id].hash)
        <3>1. id \in BlockIds /\ cmtSnapshot[id].hash \in BlockHashes
            BY <2>4 DEF HashInv, CertInv
        <3>2. IsMap(rangeHash', BlockIds, BlockHashes)
            BY <2>4, <3>1 DEF HashInv, IsMap, Put
        <3> QED  BY <2>2, <3>2 DEF HashInv
    <2> QED  BY <2>1, <2>3, <2>4
<1>4. CASE StoreMeta
    <2>1. /\ metaHash' = Put(metaHash, consInstID, Digest(rangeHash))
          /\ UNCHANGED <<cmtSnapshot, rangeHash>>
        BY <1>4 DEF StoreMeta, ordVars
    <2>2. \A i \in DOMAIN metaHash' : metaHash'[i] \in TotalHashes
        BY <2>1, DigestType DEF HashInv, Put
    <2> QED  BY <2>1, <2>2 DEF HashInv, IsMap
<1>5. CASE Ordering
    <2>1. UNCHANGED <<rangeHash, metaHash>>
        BY <1>5 DEF Ordering, consVars, loopVars, metaVars
    <2>2. DOMAIN cmtSnapshot' \subseteq BlockIds
        BY <1>5 DEF Ordering, ProposerOrders, ValidatorOrders, FormBlock, StoreOrderSig,
                    RecordBlock, StoreBlock, BlockOB, HashInv, Put
    <2> QED  BY <2>1, <2>2 DEF HashInv, IsMap
<1>6. CASE Wait \/ BroadcastCPA
    BY <1>1, <1>6 DEF Wait, BroadcastCPA, ordVars, metaVars
<1>7. CASE \E v \in CmtValidators : HandleCA(v) \/ HandleCB(v)
    BY <1>1, <1>7 DEF HandleCA, HandleCB, StartCA, CheckBlock, ReplyCA, FinishCA, DeliverCB,
                      ordVars, loopVars, metaVars
<1>8. CASE HandleReplies
    BY <1>1, <1>8 DEF HandleReplies, FetchSigs, AppendSig, BroadcastCPB, ordVars, loopVars,
                      metaVars
<1>9. CASE (\E v \in Validators : Crash(v)) \/ OrderingSendFails \/ UNCHANGED vars
    BY <1>1, <1>9 DEF Crash, OrderingSendFails, vars, consVars, ordVars, loopVars, metaVars
<1> QED  BY <1>2, <1>3, <1>4, <1>5, <1>6, <1>7, <1>8, <1>9 DEF Next, Loop

LEMMA RStep == RInv /\ [Next]_vars => RInv'
BY CStep, OnceStep, RangeStep, HashStep DEF RInv, CInv

\* The invariant holds in every reachable state.
THEOREM InstanceInvariance == Spec => []RInv
BY RInit, RStep, PTL DEF Spec

-------------------------------------------------------------------------------
(***************************************************************************)
(* The slots.                                                              *)
(***************************************************************************)

\* No more blocks are recorded than there are.
LEMMA RecordsFit ==
    ASSUME IsFiniteSet(BlockIds), RangeInv
    PROVE  Len(vgrec) <= Cardinality(BlockIds)
<1>1. Cardinality(BlockIds) \in Nat
    BY FS_CardinalityType
<1>2. Len(vgrec) \in Nat /\ vgrec \in [1..Len(vgrec) -> BlockIds]
    BY DEF RangeInv
<1>3. IsFiniteSet(1..Len(vgrec)) /\ Cardinality(1..Len(vgrec)) = Len(vgrec)
    BY <1>2, FS_Interval
<1>4. ~(Cardinality(BlockIds) < Cardinality(1..Len(vgrec)))
    <2> SUFFICES ASSUME Cardinality(BlockIds) < Cardinality(1..Len(vgrec)) PROVE FALSE
        OBVIOUS
    <2>1. \E x, y \in 1..Len(vgrec) : x # y /\ vgrec[x] = vgrec[y]
        BY <1>2, <1>3, FS_PigeonHole
    <2> QED  BY <2>1 DEF RangeInv
<1> QED  BY <1>1, <1>2, <1>3, <1>4

\* There are no more instances than blocks.
LEMMA InstancesAreSlots ==
    ASSUME IsFiniteSet(BlockIds), LoopInv, RangeInv, NEW i, Begun(i)
    PROVE  i \in Instances
<1>1. Len(vgrec) <= Cardinality(BlockIds) /\ Cardinality(BlockIds) \in Nat
    BY RecordsFit, FS_CardinalityType
<1>2. i \in Nat /\ i <= Len(vgrec)
    BY DEF Begun, LoopInv, RangeInv
<1> QED  BY <1>1, <1>2 DEF Instances, RangeInv

\* The hash of a begun instance is one.
LEMMA BegunHash ==
    ASSUME LoopInv, HashInv, NEW i, Begun(i)
    PROVE  HashOf(i) \in TotalHashes
<1>1. CASE i < consInstID
    BY <1>1 DEF HashOf, HashInv, LoopInv, Begun
<1>2. CASE ~(i < consInstID)
    BY <1>2, DigestType DEF HashOf, HashInv
<1> QED  BY <1>1, <1>2

-------------------------------------------------------------------------------
(***************************************************************************)
(* The types.                                                              *)
(***************************************************************************)

\* The loop reads a block only while some are left, and none of its instances is empty.
LoopTypes ==
    /\ waited \in 0..MaxWaited
    /\ cpc \in {"range", "read", "bcast", "meta", "exit"}
    /\ blockIDRange \in Seq(BlockIds)
    /\ unread \in Seq(BlockIds)
    /\ cpc = "read" => unread # <<>>
    /\ cpc \in {"read", "bcast", "meta"} => blockIDRange # <<>>
    /\ resentOPB \subseteq OPBEntries
    /\ broadcastError \in BOOLEAN

\* The caches of the proposer, the replies and the commits: what carries the number of
\* an instance belongs to one whose hash is stored.
MetaTypes ==
    /\ metaHash = [i \in DOMAIN metaHash |-> metaHash[i]]
    /\ IsMap(metaBlockIDs, DOMAIN metaHash, Seq(BlockIds))
    /\ \A i \in DOMAIN metaSigs : metaSigs[i] \subseteq Shares
    /\ pStored \subseteq DOMAIN metaHash
    /\ \A r \in cpaReplies :
           r.sig \in Shares /\ r.pc \in {"fetch", "append"} /\ r.seen \subseteq Shares
    /\ \A c \in commits : c.by \in Validators /\ c.sent \in BOOLEAN
    /\ \A m \in cb :
           m.to \in CmtValidators /\ m.inst \in DOMAIN metaHash /\ m.hash \in TotalHashes

\* A CA handler compares a block only while some are left.
CATypes ==
    \A m \in ca :
        /\ m.bids \in Seq(BlockIds)
        /\ m.pc \in {"recv", "check"} => m.bids # <<>>
        /\ IsMap(m.rangeHash, BlockIds, BlockHashes)
        /\ m.prev \subseteq OPBEntries
        /\ m.pc \in {"recv", "check", "reply", "token"}

OrdTypes ==
    /\ \A v \in Validators : IsMap(vCmt[v], BlockIds, BlockHashes)
    /\ obStuck \subseteq OrdValidators
    /\ crashed \subseteq Validators

\* Validators outside the commit booth see no instance.
TxTypes ==
    /\ \A v \in Validators :
           /\ tx[v] = [i \in DOMAIN tx[v] |-> tx[v][i]]
           /\ \A i \in DOMAIN tx[v] : tx[v][i] \subseteq Found
           /\ vHash[v] = [i \in DOMAIN vHash[v] |-> vHash[v][i]]
    /\ \A v \in Validators \ CmtValidators :
           DOMAIN tx[v] \cup DOMAIN vHash[v] \cup consJobs[v] \cup stored[v] = {}

ConsTypes == LoopTypes /\ MetaTypes /\ CATypes /\ OrdTypes /\ TxTypes

LEMMA TypesInit == Init => ConsTypes
<1> SUFFICES ASSUME Init PROVE ConsTypes
    OBVIOUS
<1>1. DOMAIN EmptyMap = {} /\ EmptyMap = [k \in {} |-> EmptyMap[k]]
    BY DEF EmptyMap
<1>2. LoopTypes
    <2>1. <<>> \in Seq(BlockIds) /\ 0 \in 0..MaxWaited
        BY ConsensusAssumption
    <2> QED  BY <2>1 DEF Init, LoopTypes
<1>3. MetaTypes
    BY <1>1 DEF Init, MetaTypes, IsMap
<1>4. CATypes
    BY DEF Init, CATypes
<1>5. OrdTypes
    BY <1>1 DEF Init, OrdInit, OrdTypes, IsMap
<1>6. TxTypes
    BY <1>1 DEF Init, TxTypes
<1> QED  BY <1>2, <1>3, <1>4, <1>5, <1>6 DEF ConsTypes

LEMMA LoopTypesStep ==
    ASSUME RInv, LoopTypes, [Next]_vars
    PROVE  LoopTypes'
<1>1. CASE UNCHANGED loopVars /\ broadcastError' \in BOOLEAN
    BY <1>1 DEF LoopTypes, loopVars
<1>2. CASE Wait
    <2>1. /\ waited' = IF waited < MaxWaited THEN waited + 1 ELSE waited
          /\ cpc' \in {"range", "exit"}
          /\ UNCHANGED <<blockIDRange, unread, resentOPB, broadcastError>>
        BY <1>2 DEF Wait
    <2>2. waited' \in 0..MaxWaited
        BY <2>1, ConsensusAssumption DEF LoopTypes
    <2> QED  BY <2>1, <2>2 DEF LoopTypes
<1>3. CASE GetIDRange
    <2>1. RangeFrom(lastIdx) \in Seq(BlockIds)
        BY DEF RInv, RangeInv, RangeFrom
    <2>2. /\ blockIDRange' = RangeFrom(lastIdx) /\ unread' = RangeFrom(lastIdx)
          /\ RangeFrom(lastIdx) # <<>> /\ cpc' = "read" /\ resentOPB' = {}
          /\ UNCHANGED <<waited, broadcastError>>
        BY <1>3 DEF GetIDRange
    <2> QED  BY <2>1, <2>2 DEF LoopTypes
<1>4. CASE ReadBlock
    <2>1. /\ unread' = Tail(unread)
          /\ cpc = "read" /\ cpc' = IF unread' = <<>> THEN "bcast" ELSE "read"
          /\ UNCHANGED <<waited, blockIDRange, broadcastError>>
        BY <1>4 DEF ReadBlock
    <2>2. unread' \in Seq(BlockIds)
        BY <2>1 DEF LoopTypes
    <2>3. resentOPB' \subseteq OPBEntries
        <3>1. PICK id : id = Head(unread)
            OBVIOUS
        <3>2. CASE UNCHANGED resentOPB
            BY <3>2 DEF LoopTypes
        <3>3. CASE /\ id \in DOMAIN cmtSnapshot
                   /\ resentOPB' \subseteq resentOPB \cup {[id |-> id,
                          hash |-> cmtSnapshot[id].hash, sig |-> cmtSnapshot[id].tSig]}
            <4>1. id \in BlockIds /\ cmtSnapshot[id].hash \in BlockHashes
                  /\ cmtSnapshot[id].tSig \in OrdSigs
                BY <3>3 DEF RInv, CInv, CertInv, HashInv
            <4>2. [id |-> id, hash |-> cmtSnapshot[id].hash, sig |-> cmtSnapshot[id].tSig]
                      \in OPBEntries
                BY <4>1 DEF OPBEntries
            <4> QED  BY <3>3, <4>2 DEF LoopTypes
        <3> QED  BY <1>4, <3>1, <3>2, <3>3 DEF ReadBlock
    <2> QED  BY <2>1, <2>2, <2>3 DEF LoopTypes
<1>5. CASE BroadcastCPA
    <2>1. broadcastError' \in BOOLEAN
        BY <1>5 DEF BroadcastCPA, EncodeOutcomes, LoopTypes
    <2>2. /\ cpc = "bcast" /\ cpc' = "meta"
          /\ UNCHANGED <<waited, blockIDRange, unread, resentOPB>>
        BY <1>5 DEF BroadcastCPA
    <2> QED  BY <2>1, <2>2 DEF LoopTypes
<1>6. CASE StoreMeta
    BY <1>6 DEF StoreMeta, LoopTypes
<1>7. CASE HandleReplies
    <2>1. UNCHANGED loopVars
        BY <1>7 DEF HandleReplies, FetchSigs, AppendSig, BroadcastCPB
    <2>2. broadcastError' \in BOOLEAN
        BY <1>7 DEF HandleReplies, FetchSigs, AppendSig, BroadcastCPB, EncodeOutcomes, LoopTypes
    <2> QED  BY <1>1, <2>1, <2>2
<1>8. CASE \E v \in CmtValidators : HandleCA(v) \/ HandleCB(v)
    <2>1. UNCHANGED loopVars /\ UNCHANGED broadcastError
        BY <1>8 DEF HandleCA, HandleCB, StartCA, CheckBlock, ReplyCA, FinishCA, DeliverCB
    <2> QED  BY <1>1, <2>1 DEF LoopTypes
<1>9. CASE (\E v \in Validators : Crash(v)) \/ Ordering \/ OrderingSendFails \/ UNCHANGED vars
    <2>1. UNCHANGED loopVars /\ broadcastError' \in {broadcastError, TRUE}
        BY <1>9 DEF Crash, Ordering, OrderingSendFails, vars, consVars
    <2> QED  BY <1>1, <2>1 DEF LoopTypes
<1> QED  BY <1>2, <1>3, <1>4, <1>5, <1>6, <1>7, <1>8, <1>9 DEF Next, Loop

\* A share on the hash of a begun instance.
LEMMA ShareType ==
    ASSUME LoopInv, HashInv, NEW v \in CmtValidators, NEW i, Begun(i)
    PROVE  PenSign(v, HashOf(i)) \in Shares
<1>1. HashOf(i) \in TotalHashes
    BY BegunHash
<1> QED  BY <1>1 DEF PenSign, Shares, Validators

LEMMA MetaTypesStep ==
    ASSUME RInv, LoopTypes, MetaTypes, [Next]_vars
    PROVE  MetaTypes'
<1> DEFINE RepliesTyped ==
               \A r \in cpaReplies :
                   r.sig \in Shares /\ r.pc \in {"fetch", "append"} /\ r.seen \subseteq Shares
           CommitsTyped == \A c \in commits : c.by \in Validators /\ c.sent \in BOOLEAN
           SigsTyped == \A i \in DOMAIN metaSigs : metaSigs[i] \subseteq Shares
           CBTyped == \A m \in cb : /\ m.to \in CmtValidators /\ m.inst \in DOMAIN metaHash
                                    /\ m.hash \in TotalHashes
           HashTyped == /\ metaHash = [i \in DOMAIN metaHash |-> metaHash[i]]
                        /\ IsMap(metaBlockIDs, DOMAIN metaHash, Seq(BlockIds))
<1>1. /\ LoopInv /\ CAInv /\ VoteInv /\ HashInv
      /\ RepliesTyped /\ CommitsTyped /\ SigsTyped /\ CBTyped /\ HashTyped
      /\ pStored \subseteq DOMAIN metaHash
    BY DEF RInv, CInv, MetaTypes
<1>2. SUFFICES /\ RepliesTyped' /\ CommitsTyped' /\ SigsTyped' /\ CBTyped' /\ HashTyped'
               /\ pStored' \subseteq DOMAIN metaHash'
    BY DEF MetaTypes
<1>3. CASE UNCHANGED <<metaVars, pStored, replyVars, cb>>
    BY <1>1, <1>3 DEF metaVars, replyVars, IsMap
<1>4. CASE StoreMeta
    <2>1. /\ metaHash' = Put(metaHash, consInstID, Digest(rangeHash))
          /\ metaBlockIDs' = Put(metaBlockIDs, consInstID, blockIDRange)
          /\ UNCHANGED <<metaSigs, pStored, replyVars, cb>>
        BY <1>4 DEF StoreMeta
    <2>2. DOMAIN metaHash' = DOMAIN metaHash \cup {consInstID}
        BY <2>1 DEF Put
    <2>3. metaHash' = [i \in DOMAIN metaHash' |-> metaHash'[i]]
        BY <2>1 DEF Put
    <2>4. IsMap(metaBlockIDs', DOMAIN metaHash', Seq(BlockIds))
        BY <1>1, <2>1, <2>2 DEF IsMap, Put, LoopTypes
    <2> QED  BY <1>1, <2>1, <2>2, <2>3, <2>4 DEF replyVars
<1>5. ASSUME NEW r \in cpaReplies, FetchSigs(r)
      PROVE  MetaTypes'
    <2>1. SigsOf(r.inst) \subseteq Shares
        BY <1>1 DEF SigsOf
    <2>2. PICK k : k = [r EXCEPT !.pc = "append", !.seen = SigsOf(r.inst)]
        OBVIOUS
    <2>3. k.sig \in Shares /\ k.pc = "append" /\ k.seen \subseteq Shares
        BY <1>1, <2>1, <2>2 DEF VoteInv
    <2>4. cpaReplies' \subseteq cpaReplies \cup {k} /\ UNCHANGED <<metaVars, pStored, commits, cb>>
        BY <1>5, <2>2 DEF FetchSigs
    <2>5. RepliesTyped'
        BY <1>1, <2>3, <2>4
    <2> QED  BY <1>1, <2>4, <2>5 DEF metaVars, MetaTypes, IsMap
<1>6. ASSUME NEW r \in cpaReplies, AppendSig(r)
      PROVE  MetaTypes'
    <2>1. r.seen \cup {r.sig} \subseteq Shares /\ r.sig.by \in Validators
        BY <1>1 DEF Shares
    <2>2. /\ metaSigs' = Put(metaSigs, r.inst, r.seen \cup {r.sig})
          /\ cpaReplies' \subseteq cpaReplies
          /\ UNCHANGED <<metaHash, metaBlockIDs, pStored, cb>>
        BY <1>6 DEF AppendSig
    <2>3. SigsTyped'
        BY <1>1, <2>1, <2>2 DEF Put
    <2>4. PICK c : c = [inst |-> r.inst, hash |-> metaHash[r.inst], by |-> r.sig.by,
                        sent |-> FALSE]
        OBVIOUS
    <2>5. c.by \in Validators /\ c.sent \in BOOLEAN
        BY <2>1, <2>4
    <2>6. commits' \subseteq commits \cup {c}
        BY <1>6, <2>4 DEF AppendSig
    <2>7. CommitsTyped'
        BY <1>1, <2>5, <2>6
    <2> QED  BY <1>1, <2>2, <2>3, <2>7 DEF MetaTypes, IsMap
<1>7. ASSUME NEW c \in commits, BroadcastCPB(c)
      PROVE  MetaTypes'
    <2>1. PICK d : d = [c EXCEPT !.sent = TRUE] /\ commits' = (commits \ {c}) \cup {d}
        BY <1>7 DEF BroadcastCPB
    <2>2. d.by = c.by /\ d.sent = TRUE
        BY <1>1, <2>1 DEF VoteInv
    <2>3. CommitsTyped'
        BY <1>1, <2>1, <2>2
    <2>4. c.inst \in DOMAIN metaHash /\ c.hash \in TotalHashes
        BY <1>1 DEF VoteInv, HashInv
    <2> DEFINE msg(v) == [to |-> v, inst |-> c.inst, hash |-> c.hash, sig |-> CombSig(c.hash),
                          by |-> c.by]
    <2>5. \A v : msg(v).to = v /\ msg(v).inst = c.inst /\ msg(v).hash = c.hash
        OBVIOUS
    <2>6. cb' = cb \cup {msg(v) : v \in Reached}
        BY <1>7 DEF BroadcastCPB
    <2> HIDE DEF msg
    <2>7. UNCHANGED <<metaVars, cpaReplies>> /\ pStored' \subseteq pStored \cup {c.inst}
        BY <1>7 DEF BroadcastCPB
    <2>8. CBTyped'
        BY <1>1, <2>4, <2>5, <2>6, <2>7 DEF Reached, metaVars
    <2> QED  BY <1>1, <2>3, <2>4, <2>7, <2>8 DEF metaVars, MetaTypes, IsMap
<1>8. ASSUME NEW m \in ca, ReplyCA(m)
      PROVE  MetaTypes'
    <2>1. m.to \in CmtValidators /\ Begun(m.inst) /\ HashOf(m.inst) = Digest(m.rangeHash)
        BY <1>1 DEF CAInv
    <2>2. PenSign(m.to, Digest(m.rangeHash)) \in Shares
        BY <1>1, <2>1, ShareType
    <2>3. PICK k : k = [inst |-> m.inst, pc |-> "fetch", seen |-> {},
                        sig |-> PenSign(m.to, Digest(m.rangeHash))]
        OBVIOUS
    <2>4. k.sig \in Shares /\ k.pc = "fetch" /\ k.seen = {}
        BY <2>2, <2>3
    <2>5. cpaReplies' \subseteq cpaReplies \cup {k} /\ UNCHANGED <<metaVars, pStored, commits, cb>>
        BY <1>8, <2>3 DEF ReplyCA
    <2>6. RepliesTyped'
        BY <1>1, <2>4, <2>5
    <2> QED  BY <1>1, <2>5, <2>6 DEF metaVars, MetaTypes, IsMap
<1>9. CASE HandleReplies
    BY <1>1, <1>5, <1>6, <1>7, <1>9 DEF HandleReplies, MetaTypes
<1>10. CASE \E v \in CmtValidators : HandleCA(v) \/ HandleCB(v)
    <2>1. ASSUME NEW m \in ca, StartCA(m) \/ CheckBlock(m) \/ FinishCA(m)
          PROVE  UNCHANGED <<metaVars, pStored, replyVars, cb>>
        BY <2>1 DEF StartCA, CheckBlock, FinishCA
    <2>2. ASSUME NEW m \in cb, DeliverCB(m)
          PROVE  UNCHANGED <<metaVars, pStored, replyVars>> /\ cb' \subseteq cb
        BY <2>2 DEF DeliverCB
    <2>3. CASE UNCHANGED <<metaVars, pStored, replyVars>> /\ cb' \subseteq cb
        BY <1>1, <2>3 DEF metaVars, replyVars, IsMap
    <2>4. CASE \E m \in ca : ReplyCA(m)
        BY <1>8, <2>4 DEF MetaTypes
    <2> QED  BY <1>3, <1>10, <2>1, <2>2, <2>3, <2>4 DEF HandleCA, HandleCB
<1>11. CASE \E v \in Validators : Crash(v)
    <2>1. cpaReplies' \subseteq cpaReplies /\ UNCHANGED <<metaVars, pStored, commits, cb>>
        BY <1>11 DEF Crash
    <2> QED  BY <1>1, <2>1 DEF metaVars, IsMap
<1>12. CASE Wait \/ GetIDRange \/ ReadBlock \/ BroadcastCPA
    BY <1>3, <1>12 DEF Wait, GetIDRange, ReadBlock, BroadcastCPA
<1>13. CASE Ordering \/ OrderingSendFails \/ UNCHANGED vars
    BY <1>3, <1>13 DEF Ordering, OrderingSendFails, vars, consVars
<1> QED  BY <1>4, <1>9, <1>10, <1>11, <1>12, <1>13 DEF Next, Loop

LEMMA CATypesStep ==
    ASSUME RInv, LoopTypes, CATypes, [Next]_vars
    PROVE  CATypes'
<1> DEFINE Typed(m) ==
        /\ m.bids \in Seq(BlockIds)
        /\ m.pc \in {"recv", "check"} => m.bids # <<>>
        /\ IsMap(m.rangeHash, BlockIds, BlockHashes)
        /\ m.prev \subseteq OPBEntries
        /\ m.pc \in {"recv", "check", "reply", "token"}
<1>1. /\ CAInv /\ IsMap(rangeHash, BlockIds, BlockHashes)
      /\ \A m \in ca : Typed(m)
    BY DEF RInv, CInv, HashInv, CATypes
<1>2. SUFFICES \A m \in ca' : Typed(m)
    BY DEF CATypes
<1>3. CASE ca' \subseteq ca
    BY <1>1, <1>3
<1>4. CASE BroadcastCPA
    <2> DEFINE msg(v) == [to |-> v, inst |-> consInstID, bids |-> blockIDRange,
                          rangeHash |-> rangeHash,
                          prev |-> IF v \in NewMembers THEN resentOPB ELSE {}, pc |-> "recv"]
    <2>1. \A v : /\ msg(v).bids = blockIDRange /\ msg(v).rangeHash = rangeHash
                 /\ msg(v).prev \subseteq resentOPB /\ msg(v).pc = "recv"
        OBVIOUS
    <2>2. cpc = "bcast" /\ ca' = ca \cup {msg(v) : v \in Reached}
        BY <1>4 DEF BroadcastCPA
    <2> HIDE DEF msg
    <2>3. blockIDRange \in Seq(BlockIds) /\ blockIDRange # <<>> /\ resentOPB \subseteq OPBEntries
        BY <2>2 DEF LoopTypes
    <2>4. \A v : Typed(msg(v))
        <3>1. ASSUME NEW v PROVE msg(v).prev \subseteq OPBEntries
            BY <2>1, <2>3
        <3> QED  BY <1>1, <2>1, <2>3, <3>1
    <2> HIDE DEF Typed
    <2> QED  BY <1>1, <2>2, <2>4
<1>5. ASSUME NEW m \in ca, StartCA(m) \/ ReplyCA(m)
      PROVE  \A k \in ca' : Typed(k)
    <2>1. PICK next : /\ ca' = AdvanceCA(m, next)
                      /\ (m.pc = "recv" /\ next = "check") \/ next = "token"
        BY <1>5 DEF StartCA, ReplyCA
    <2>2. PICK k : k = [m EXCEPT !.pc = next]
        OBVIOUS
    <2>3. k.bids = m.bids /\ k.rangeHash = m.rangeHash /\ k.prev = m.prev /\ k.pc = next
        BY <1>1, <2>2 DEF CAInv
    <2>4. Typed(k)
        BY <1>1, <2>1, <2>3
    <2>5. ca' \subseteq ca \cup {k}
        BY <2>1, <2>2 DEF AdvanceCA
    <2> HIDE DEF Typed
    <2> QED  BY <1>1, <2>4, <2>5
<1>6. ASSUME NEW m \in ca, CheckBlock(m)
      PROVE  \A k \in ca' : Typed(k)
    <2>1. PICK bids, next : bids = Tail(m.bids) /\ next = IF bids = <<>> THEN "reply" ELSE "check"
        OBVIOUS
    <2>2. PICK k : k = [m EXCEPT !.bids = bids, !.pc = next]
        OBVIOUS
    <2>3. k.bids = bids /\ k.rangeHash = m.rangeHash /\ k.prev = m.prev /\ k.pc = next
        BY <1>1, <2>2 DEF CAInv
    <2>4. bids \in Seq(BlockIds)
        <3>1. m.bids \in Seq(BlockIds) /\ m.bids # <<>>
            BY <1>1, <1>6 DEF CheckBlock
        <3> QED  BY <2>1, <3>1
    <2>5. Typed(k)
        BY <1>1, <2>1, <2>3, <2>4
    <2>6. ca' \subseteq ca \cup {k}
        <3>1. [m EXCEPT !.bids = Tail(@),
                        !.pc = IF Tail(m.bids) = <<>> THEN "reply" ELSE "check"] = k
            BY <1>1, <2>1, <2>2
        <3> QED  BY <1>6, <3>1 DEF CheckBlock
    <2> HIDE DEF Typed
    <2> QED  BY <1>1, <2>5, <2>6
<1> HIDE DEF Typed
<1>7. CASE \E v \in CmtValidators : HandleCA(v) \/ HandleCB(v)
    BY <1>3, <1>5, <1>6, <1>7 DEF HandleCA, HandleCB, FinishCA, DeliverCB
<1>8. CASE Wait \/ GetIDRange \/ ReadBlock \/ StoreMeta
    BY <1>3, <1>8 DEF Wait, GetIDRange, ReadBlock, StoreMeta
<1>9. CASE HandleReplies
    BY <1>3, <1>9 DEF HandleReplies, FetchSigs, AppendSig, BroadcastCPB
<1>10. CASE (\E v \in Validators : Crash(v)) \/ Ordering \/ OrderingSendFails \/ UNCHANGED vars
    BY <1>3, <1>10 DEF Crash, Ordering, OrderingSendFails, vars, consVars
<1> QED  BY <1>4, <1>7, <1>8, <1>9, <1>10 DEF Next, Loop

LEMMA OrdTypesStep ==
    ASSUME RInv, CATypes, OrdTypes, [Next]_vars
    PROVE  OrdTypes'
<1>1. CASE UNCHANGED <<vCmt, obStuck, crashed>>
    BY <1>1 DEF OrdTypes, IsMap
<1>2. ASSUME NEW v \in OrdValidators, NEW id \in BlockIds, NEW hash \in BlockHashes,
             StoreBlock(v, id, hash), UNCHANGED crashed
      PROVE  OrdTypes'
    <2>1. vCmt' = [vCmt EXCEPT ![v] = Put(@, id, hash)] /\ UNCHANGED obStuck
        BY <1>2 DEF StoreBlock
    <2>2. IsMap(Put(vCmt[v], id, hash), BlockIds, BlockHashes)
        BY DEF OrdTypes, IsMap, Put, Validators
    <2>3. \A w \in Validators : vCmt'[w] = IF w = v THEN Put(vCmt[v], id, hash) ELSE vCmt[w]
        BY <2>1 DEF RInv, CInv, CertInv
    <2>4. ASSUME NEW w \in Validators PROVE IsMap(vCmt'[w], BlockIds, BlockHashes)
        BY <2>2, <2>3 DEF OrdTypes
    <2> QED  BY <1>2, <2>1, <2>4 DEF OrdTypes, IsMap
<1>3. ASSUME NEW m \in ca, StartCA(m)
      PROVE  OrdTypes'
    <2> DEFINE old    == vCmt[m.to]
               synced == Synced(m.prev)
               ids    == {e.id : e \in synced}
               new    == [id \in DOMAIN old \cup ids |->
                             IF id \in ids THEN (CHOOSE e \in synced : e.id = id).hash
                             ELSE old[id]]
    <2>1. m.to \in Validators
        BY DEF RInv, CInv, CAInv, Validators
    <2>2. synced \subseteq OPBEntries
        BY DEF Synced, CATypes
    <2>3. \A e \in synced : e.id \in BlockIds /\ e.hash \in BlockHashes
        BY <2>2 DEF OPBEntries
    <2>4. \A id \in ids : (CHOOSE e \in synced : e.id = id) \in synced
        OBVIOUS
    <2>5. IsMap(old, BlockIds, BlockHashes)
        BY <2>1 DEF OrdTypes
    <2>6. vCmt' = [vCmt EXCEPT ![m.to] = new] /\ UNCHANGED <<obStuck, crashed>>
        BY <1>3 DEF StartCA
    <2> HIDE DEF synced
    <2>7. IsMap(new, BlockIds, BlockHashes)
        <3>1. DOMAIN new \subseteq BlockIds
            BY <2>3, <2>5 DEF IsMap
        <3>2. ASSUME NEW id \in DOMAIN new PROVE new[id] \in BlockHashes
            <4>1. CASE id \in ids
                BY <2>3, <2>4, <4>1
            <4>2. CASE id \notin ids
                BY <2>5, <4>2 DEF IsMap
            <4> QED  BY <4>1, <4>2
        <3>3. new = [id \in DOMAIN new |-> new[id]]
            OBVIOUS
        <3> QED  BY <3>1, <3>2, <3>3 DEF IsMap
    <2> HIDE DEF new
    <2>8. \A w \in Validators : vCmt'[w] = IF w = m.to THEN new ELSE vCmt[w]
        BY <2>6 DEF RInv, CInv, CertInv
    <2>9. ASSUME NEW w \in Validators PROVE IsMap(vCmt'[w], BlockIds, BlockHashes)
        BY <2>7, <2>8 DEF OrdTypes
    <2> QED  BY <2>6, <2>9 DEF OrdTypes, IsMap
<1>4. ASSUME NEW v \in Validators, Crash(v)
      PROVE  OrdTypes'
    BY <1>4 DEF Crash, OrdTypes, IsMap
<1>5. ASSUME NEW v \in OrdValidators, NEW id, BlockOB(v, id), UNCHANGED crashed
      PROVE  OrdTypes'
    BY <1>5 DEF BlockOB, OrdTypes, IsMap
<1>6. CASE Ordering
    <2>1. UNCHANGED crashed
        BY <1>6 DEF Ordering, consVars
    <2> QED  BY <1>1, <1>2, <1>5, <1>6, <2>1 DEF Ordering, ProposerOrders, ValidatorOrders,
                                        FormBlock, RecordBlock, StoreOrderSig
<1>7. CASE \E v \in CmtValidators : HandleCA(v) \/ HandleCB(v)
    BY <1>1, <1>3, <1>7 DEF HandleCA, HandleCB, CheckBlock, ReplyCA, FinishCA, DeliverCB, ordVars
<1>8. CASE Loop
    BY <1>1, <1>8 DEF Loop, Wait, GetIDRange, ReadBlock, BroadcastCPA, StoreMeta, ordVars
<1>9. CASE HandleReplies
    BY <1>1, <1>9 DEF HandleReplies, FetchSigs, AppendSig, BroadcastCPB, ordVars
<1>10. CASE OrderingSendFails \/ UNCHANGED vars
    BY <1>1, <1>10 DEF OrderingSendFails, vars, consVars, ordVars
<1> QED  BY <1>4, <1>6, <1>7, <1>8, <1>9, <1>10 DEF Next

LEMMA TxTypesStep ==
    ASSUME RInv, MetaTypes, CATypes, OrdTypes, TxTypes, [Next]_vars
    PROVE  TxTypes'
<1>1. CASE UNCHANGED validatorVars
    BY <1>1 DEF TxTypes, validatorVars
<1>2. TxInv /\ CAInv /\ vHash = [v \in Validators |-> vHash[v]]
    BY DEF RInv, CInv, VoteInv
<1>3. \A m \in ca : m.to \in CmtValidators /\ m.to \in Validators
    BY <1>2 DEF CAInv, Validators
<1>4. ASSUME NEW m \in ca, StartCA(m)
      PROVE  TxTypes'
    <2>1. tx' = [tx EXCEPT ![m.to] = Put(@, m.inst, {})] /\ UNCHANGED <<vHash, consJobs, stored>>
        BY <1>4 DEF StartCA
    <2>2. \A v \in Validators : tx'[v] = IF v = m.to THEN Put(tx[m.to], m.inst, {}) ELSE tx[v]
        BY <1>2, <1>3, <2>1 DEF TxInv
    <2>3. ASSUME NEW v \in Validators
          PROVE  /\ tx'[v] = [i \in DOMAIN tx'[v] |-> tx'[v][i]]
                 /\ \A i \in DOMAIN tx'[v] : tx'[v][i] \subseteq Found
        <3>1. CASE v = m.to
            <4>1. tx'[v] = Put(tx[v], m.inst, {})
                BY <2>2, <3>1
            <4> QED  BY <4>1 DEF TxTypes, Put
        <3>2. CASE v # m.to
            BY <2>2, <3>2 DEF TxTypes
        <3> QED  BY <3>1, <3>2
    <2>4. \A v \in Validators \ CmtValidators : tx'[v] = tx[v]
        BY <1>3, <2>2
    <2> QED  BY <2>1, <2>3, <2>4 DEF TxTypes
<1>5. ASSUME NEW m \in ca, CheckBlock(m)
      PROVE  TxTypes'
    <2>1. CASE UNCHANGED tx
        BY <1>1, <1>5, <2>1 DEF CheckBlock, validatorVars
    <2>2. CASE tx' # tx
        <3>1. PICK id, e : id = Head(m.bids) /\ e = [id |-> id, hash |-> vCmt[m.to][id]]
            OBVIOUS
        <3>2. /\ id \in DOMAIN vCmt[m.to]
              /\ tx' = [tx EXCEPT ![m.to][m.inst] = @ \cup {e}]
              /\ m.pc = "check" /\ UNCHANGED <<vHash, consJobs, stored>>
            BY <1>5, <2>2, <3>1 DEF CheckBlock
        <3>3. e \in Found
            <4>1. id \in BlockIds /\ vCmt[m.to][id] \in BlockHashes
                BY <1>3, <3>2 DEF OrdTypes, IsMap
            <4> QED  BY <3>1, <4>1 DEF Found
        <3>4. m.inst \in DOMAIN tx[m.to]
            BY <1>2, <3>2 DEF TxInv
        <3>5. PICK new : new = [tx[m.to] EXCEPT ![m.inst] = @ \cup {e}]
            OBVIOUS
        <3>6. \A v \in Validators : tx'[v] = IF v = m.to THEN new ELSE tx[v]
            BY <1>2, <1>3, <3>2, <3>5 DEF TxInv
        <3>7. new = [i \in DOMAIN new |-> new[i]] /\ \A i \in DOMAIN new : new[i] \subseteq Found
            BY <1>3, <3>3, <3>4, <3>5 DEF TxTypes
        <3>8. ASSUME NEW v \in Validators
              PROVE  /\ tx'[v] = [i \in DOMAIN tx'[v] |-> tx'[v][i]]
                     /\ \A i \in DOMAIN tx'[v] : tx'[v][i] \subseteq Found
            BY <3>6, <3>7 DEF TxTypes
        <3>9. \A v \in Validators \ CmtValidators : tx'[v] = tx[v]
            BY <1>3, <3>6
        <3> QED  BY <3>2, <3>8, <3>9 DEF TxTypes
    <2> QED  BY <2>1, <2>2
<1>6. ASSUME NEW m \in ca, FinishCA(m)
      PROVE  TxTypes'
    <2>1. /\ vHash' = [vHash EXCEPT ![m.to] = Put(@, m.inst, Digest(m.rangeHash))]
          /\ consJobs' = [consJobs EXCEPT ![m.to] = WithToken(m.to, m.inst)]
          /\ UNCHANGED <<tx, stored>>
        BY <1>6 DEF FinishCA
    <2>2. \A v \in Validators : vHash'[v] = IF v = m.to
              THEN Put(vHash[m.to], m.inst, Digest(m.rangeHash)) ELSE vHash[v]
        BY <1>2, <1>3, <2>1
    <2>3. ASSUME NEW v \in Validators PROVE vHash'[v] = [i \in DOMAIN vHash'[v] |-> vHash'[v][i]]
        BY <2>2 DEF TxTypes, Put
    <2>4. \A v \in Validators \ CmtValidators : vHash'[v] = vHash[v] /\ consJobs'[v] = consJobs[v]
        BY <1>2, <1>3, <2>1, <2>2 DEF TxInv
    <2> QED  BY <2>1, <2>3, <2>4 DEF TxTypes
<1>7. ASSUME NEW m \in cb, DeliverCB(m)
      PROVE  TxTypes'
    <2>1. /\ m.to \in CmtValidators
          /\ consJobs' = [consJobs EXCEPT ![m.to] = @ \ {m.inst}]
          /\ stored' = stored \/ stored' = [stored EXCEPT ![m.to] = @ \cup {m.inst}]
          /\ UNCHANGED <<tx, vHash>>
        BY <1>7 DEF DeliverCB, MetaTypes
    <2>2. \A v \in Validators \ CmtValidators : consJobs'[v] = consJobs[v] /\ stored'[v] = stored[v]
        BY <1>2, <2>1 DEF TxInv
    <2> QED  BY <2>1, <2>2 DEF TxTypes
<1>8. CASE \E v \in CmtValidators : HandleCA(v) \/ HandleCB(v)
    BY <1>1, <1>4, <1>5, <1>6, <1>7, <1>8 DEF HandleCA, HandleCB, ReplyCA
<1>9. CASE Loop
    BY <1>1, <1>9 DEF Loop, Wait, GetIDRange, ReadBlock, BroadcastCPA, StoreMeta
<1>10. CASE HandleReplies
    BY <1>1, <1>10 DEF HandleReplies, FetchSigs, AppendSig, BroadcastCPB
<1>11. CASE (\E v \in Validators : Crash(v)) \/ Ordering \/ OrderingSendFails \/ UNCHANGED vars
    BY <1>1, <1>11 DEF Crash, Ordering, OrderingSendFails, vars, consVars
<1> QED  BY <1>8, <1>9, <1>10, <1>11 DEF Next

LEMMA TypesInvariance == Spec => []ConsTypes
<1>1. RInv /\ ConsTypes /\ [Next]_vars => ConsTypes'
    BY LoopTypesStep, MetaTypesStep, CATypesStep, OrdTypesStep, TxTypesStep DEF ConsTypes
<1> QED  BY <1>1, TypesInit, InstanceInvariance, PTL DEF Spec

\* Every variable of the composition keeps its type (vconsensus.go, comply.go): the
\* loop never looks for a block in an empty range, and no cache has an instance that
\* is not one of the at most as many as there are blocks.
THEOREM ConsensusTypeCorrect == IsFiniteSet(BlockIds) => (Spec => []TypeOK)
<1> SUFFICES ASSUME IsFiniteSet(BlockIds) PROVE Spec => []TypeOK
    OBVIOUS
<1>1. RInv /\ ConsTypes => TypeOK
    <2> SUFFICES ASSUME RInv, ConsTypes PROVE TypeOK
        OBVIOUS
    <2>1. /\ LoopInv /\ CAInv /\ CertInv /\ TxInv /\ VoteInv /\ RangeInv /\ HashInv
          /\ LoopTypes /\ MetaTypes /\ CATypes /\ OrdTypes /\ TxTypes
        BY DEF RInv, CInv, ConsTypes
    <2>2. \A i : Begun(i) => i \in Instances /\ HashOf(i) \in TotalHashes
        BY <2>1, InstancesAreSlots, BegunHash
    <2>3. \A i \in DOMAIN metaHash : i \in Instances
        BY <2>1, <2>2, StoredBegun
    <2>4. consInstID \in Instances
        <3>1. Len(vgrec) <= Cardinality(BlockIds) /\ Cardinality(BlockIds) \in Nat
            BY <2>1, RecordsFit, FS_CardinalityType
        <3> QED  BY <2>1, <3>1 DEF LoopInv, RangeInv, Instances
    <2>5. /\ IsMap(cmtSnapshot, BlockIds, [hash : BlockHashes, tSig : OrdSigs])
          /\ vgrec \in Seq(BlockIds) /\ lastIdx \in 0..Len(vgrec)
          /\ DOMAIN vCmt = Validators
        BY <2>1 DEF CertInv, HashInv, IsMap, RangeInv
    <2>6. /\ IsMap(rangeHash, BlockIds, BlockHashes)
          /\ IsMap(metaHash, Instances, TotalHashes)
          /\ DOMAIN metaSigs \subseteq Instances
          /\ IsMap(metaBlockIDs, Instances, Seq(BlockIds))
          /\ pStored \subseteq Instances
        BY <2>1, <2>3 DEF HashInv, MetaTypes, VoteInv, IsMap
    <2>7. /\ \A r \in cpaReplies : r.inst \in Instances
          /\ \A c \in commits : c.inst \in Instances /\ c.hash \in TotalHashes
          /\ \A m \in ca : m.to \in CmtValidators /\ m.inst \in Instances
          /\ \A m \in cb : m.inst \in Instances
        BY <2>1, <2>2, <2>3 DEF VoteInv, HashInv, CAInv, MetaTypes
    <2>8. ASSUME NEW v \in Validators
          PROVE  /\ IsMap(tx[v], Instances, SUBSET Found)
                 /\ IsMap(vHash[v], Instances, TotalHashes)
                 /\ consJobs[v] \subseteq Instances
                 /\ stored[v] \subseteq Instances
        <3>1. CASE v \in CmtValidators
            <4>1. IsMap(tx[v], Instances, SUBSET Found)
                BY <2>1, <2>2, <3>1 DEF TxInv, TxTypes, IsMap
            <4>2. IsMap(vHash[v], Instances, TotalHashes)
                <5>1. ASSUME NEW i \in DOMAIN vHash[v]
                      PROVE  i \in Instances /\ vHash[v][i] \in TotalHashes
                    <6>1. Begun(i) /\ vHash[v][i] = HashOf(i)
                        BY <2>1, <3>1 DEF VoteInv
                    <6> QED  BY <2>2, <6>1
                <5>2. vHash[v] = [i \in DOMAIN vHash[v] |-> vHash[v][i]]
                    BY <2>1 DEF TxTypes
                <5> QED  BY <5>1, <5>2 DEF IsMap
            <4>3. consJobs[v] \cup stored[v] \subseteq DOMAIN tx[v]
                BY <2>1, <3>1 DEF TxInv
            <4> QED  BY <4>1, <4>2, <4>3 DEF IsMap
        <3>2. CASE v \notin CmtValidators
            BY <2>1, <3>2 DEF TxTypes, IsMap
        <3> QED  BY <3>1, <3>2
    <2> QED  BY <2>1, <2>4, <2>5, <2>6, <2>7, <2>8
             DEF TypeOK, LoopTypes, MetaTypes, CATypes, OrdTypes
<1> QED  BY <1>1, InstanceInvariance, TypesInvariance, PTL

-------------------------------------------------------------------------------
(***************************************************************************)
(* The blocks of the instances.                                            *)
(***************************************************************************)

\* Instance i has the blocks recorded after the first cut[i] and up to cut[i + 1]; the
\* instance being built has those from there up to lastIdx.
Cuts(cut) ==
    /\ cut \in [0..consInstID -> 0..lastIdx]
    /\ cut[0] = 0
    /\ \A i \in 0..(consInstID - 1) :
           /\ cut[i] <= cut[i + 1]
           /\ metaBlockIDs[i] = SubSeq(vgrec, cut[i] + 1, cut[i + 1])
    /\ IF cpc \in {"read", "bcast", "meta"}
       THEN blockIDRange = SubSeq(vgrec, cut[consInstID] + 1, lastIdx)
       ELSE cut[consInstID] = lastIdx

CutInv ==
    /\ DOMAIN metaBlockIDs = 0..(consInstID - 1)
    /\ \E cut : Cuts(cut)

LEMMA CutInit == Init => CutInv
<1> SUFFICES ASSUME Init PROVE CutInv
    OBVIOUS
<1> DEFINE cut == [i \in 0..0 |-> 0]
<1>1. consInstID = 0 /\ lastIdx = 0 /\ cpc = "range"
    BY DEF Init
<1>2. cut \in [0..0 -> 0..0] /\ cut[0] = 0 /\ \A i \in 0..(0 - 1) : FALSE
    OBVIOUS
<1> HIDE DEF cut
<1>3. Cuts(cut)
    BY <1>1, <1>2 DEF Cuts
<1>4. DOMAIN metaBlockIDs = 0..(0 - 1)
    BY DEF Init, EmptyMap
<1> QED  BY <1>1, <1>3, <1>4 DEF CutInv

\* What was recorded stays where it is.
LEMMA RecordKeepsRanges ==
    ASSUME NEW s \in Seq(BlockIds), NEW id \in BlockIds,
           NEW m \in 1..(Len(s) + 1), NEW n \in 0..Len(s)
    PROVE  SubSeq(Append(s, id), m, n) = SubSeq(s, m, n)
OBVIOUS

\* The cuts stay when the numbers, the instances and the recorded blocks do.
LEMMA CutsKept ==
    ASSUME CutInv, LoopInv, RangeInv, UNCHANGED <<consInstID, lastIdx, metaBlockIDs, blockIDRange>>,
           (cpc \in {"read", "bcast", "meta"}) <=> (cpc' \in {"read", "bcast", "meta"}),
           vgrec' = vgrec \/ \E id \in BlockIds : vgrec' = Append(vgrec, id)
    PROVE  CutInv'
<1>1. PICK cut : Cuts(cut)
    BY DEF CutInv
<1>2. ASSUME NEW m \in 0..lastIdx, NEW n \in 0..lastIdx
      PROVE  SubSeq(vgrec', m + 1, n) = SubSeq(vgrec, m + 1, n)
    <2>1. vgrec \in Seq(BlockIds) /\ m + 1 \in 1..(Len(vgrec) + 1) /\ n \in 0..Len(vgrec)
        BY DEF RangeInv
    <2> QED  BY <2>1, RecordKeepsRanges
<1>3. /\ cut \in [0..consInstID -> 0..lastIdx] /\ cut[0] = 0
      /\ \A i \in 0..(consInstID - 1) :
             /\ cut[i] <= cut[i + 1]
             /\ metaBlockIDs[i] = SubSeq(vgrec, cut[i] + 1, cut[i + 1])
      /\ cpc \in {"read", "bcast", "meta"} =>
             blockIDRange = SubSeq(vgrec, cut[consInstID] + 1, lastIdx)
      /\ cpc \notin {"read", "bcast", "meta"} => cut[consInstID] = lastIdx
    BY <1>1 DEF Cuts
<1>4. /\ consInstID \in Nat /\ lastIdx \in Nat
      /\ \A i \in 0..(consInstID - 1) : i \in 0..consInstID /\ i + 1 \in 0..consInstID
    BY DEF LoopInv, RangeInv
<1>5. \A i \in 0..(consInstID - 1) :
          SubSeq(vgrec', cut[i] + 1, cut[i + 1]) = SubSeq(vgrec, cut[i] + 1, cut[i + 1])
    BY <1>2, <1>3, <1>4
<1>6. SubSeq(vgrec', cut[consInstID] + 1, lastIdx) = SubSeq(vgrec, cut[consInstID] + 1, lastIdx)
    <2>1. cut[consInstID] \in 0..lastIdx /\ lastIdx \in 0..lastIdx
        BY <1>3, <1>4
    <2> QED  BY <1>2, <2>1
<1>7. Cuts(cut)'
    BY <1>3, <1>5, <1>6 DEF Cuts
<1> QED  BY <1>7 DEF CutInv

LEMMA CutStep ==
    ASSUME LoopInv, RangeInv, CutInv, [Next]_vars
    PROVE  CutInv'
<1>1. CASE GetIDRange
    <2>1. PICK cut : Cuts(cut)
        BY DEF CutInv
    <2>2. /\ cpc = "range" /\ cpc' = "read" /\ UNCHANGED <<vgrec, consInstID, metaBlockIDs>>
          /\ blockIDRange' = SubSeq(vgrec, lastIdx + 1, Len(vgrec)) /\ lastIdx' = Len(vgrec)
        BY <1>1 DEF GetIDRange, RangeFrom, ordVars, metaVars
    <2>3. cut \in [0..consInstID -> 0..lastIdx'] /\ cut[consInstID] = lastIdx
        BY <2>1, <2>2 DEF Cuts, RangeInv
    <2>4. Cuts(cut)'
        BY <2>1, <2>2, <2>3 DEF Cuts
    <2> QED  BY <2>2, <2>4 DEF CutInv
<1>2. CASE StoreMeta
    <2>1. PICK cut : Cuts(cut)
        BY DEF CutInv
    <2>2. /\ cpc = "meta" /\ cpc' = "range" /\ UNCHANGED <<vgrec, lastIdx>>
          /\ metaBlockIDs' = Put(metaBlockIDs, consInstID, blockIDRange)
          /\ consInstID' = consInstID + 1
        BY <1>2 DEF StoreMeta, ordVars
    <2>3. PICK new :
              new = [i \in 0..(consInstID + 1) |-> IF i <= consInstID THEN cut[i] ELSE lastIdx]
        OBVIOUS
    <2>4. /\ consInstID \in Nat /\ lastIdx \in Nat
          /\ cut \in [0..consInstID -> 0..lastIdx] /\ cut[0] = 0
        BY <2>1 DEF LoopInv, RangeInv, Cuts
    <2>5. /\ new \in [0..(consInstID + 1) -> 0..lastIdx]
          /\ \A i \in 0..consInstID : new[i] = cut[i]
          /\ new[consInstID + 1] = lastIdx
        BY <2>3, <2>4
    <2>6. ASSUME NEW i \in 0..consInstID
          PROVE  new[i] <= new[i + 1] /\ metaBlockIDs'[i] = SubSeq(vgrec, new[i] + 1, new[i + 1])
        <3>1. CASE i = consInstID
            <4>1. metaBlockIDs'[i] = blockIDRange
                BY <2>2, <3>1 DEF Put
            <4>2. blockIDRange = SubSeq(vgrec, cut[consInstID] + 1, lastIdx)
                BY <2>1, <2>2 DEF Cuts
            <4>3. new[i] = cut[consInstID] /\ new[i + 1] = lastIdx /\ new[i] <= lastIdx
                BY <2>4, <2>5, <3>1
            <4> QED  BY <4>1, <4>2, <4>3
        <3>2. CASE i # consInstID
            <4>1. i \in 0..(consInstID - 1) /\ i + 1 \in 0..consInstID
                BY <2>4, <3>2
            <4>2. metaBlockIDs'[i] = metaBlockIDs[i]
                BY <2>2, <3>2, <4>1 DEF Put, CutInv
            <4>3. cut[i] <= cut[i + 1] /\ metaBlockIDs[i] = SubSeq(vgrec, cut[i] + 1, cut[i + 1])
                BY <2>1, <4>1 DEF Cuts
            <4> QED  BY <2>5, <4>1, <4>2, <4>3
        <3> QED  BY <3>1, <3>2
    <2>7. (consInstID + 1) - 1 = consInstID /\ 0 \in 0..consInstID
        BY <2>4
    <2>8. new[0] = 0 /\ new[consInstID'] = lastIdx' /\ new \in [0..consInstID' -> 0..lastIdx']
          /\ cpc' \notin {"read", "bcast", "meta"}
        BY <2>2, <2>4, <2>5, <2>7
    <2>9. \A i \in 0..(consInstID' - 1) :
              new[i] <= new[i + 1] /\ metaBlockIDs'[i] = SubSeq(vgrec', new[i] + 1, new[i + 1])
        BY <2>2, <2>6, <2>7
    <2>10. Cuts(new)'
        BY <2>8, <2>9, Zenon DEF Cuts
    <2>11. DOMAIN metaBlockIDs' = 0..(consInstID' - 1)
        BY <2>2, <2>4 DEF CutInv, Put
    <2> QED  BY <2>10, <2>11 DEF CutInv
<1>3. CASE Wait \/ ReadBlock \/ BroadcastCPA
    <2>1. /\ UNCHANGED <<consInstID, lastIdx, metaBlockIDs, blockIDRange, vgrec>>
          /\ (cpc \in {"read", "bcast", "meta"}) <=> (cpc' \in {"read", "bcast", "meta"})
        BY <1>3 DEF Wait, ReadBlock, BroadcastCPA, ordVars, metaVars
    <2> QED  BY <2>1, CutsKept
<1>4. CASE UNCHANGED <<loopVars, metaBlockIDs, vgrec>>
    BY <1>4, CutsKept DEF loopVars
<1>5. CASE HandleReplies
    BY <1>4, <1>5 DEF HandleReplies, FetchSigs, AppendSig, BroadcastCPB, ordVars, metaVars
<1>6. CASE \E v \in CmtValidators : HandleCA(v) \/ HandleCB(v)
    BY <1>4, <1>6 DEF HandleCA, HandleCB, StartCA, CheckBlock, ReplyCA, FinishCA, DeliverCB,
                      ordVars, metaVars
<1>7. CASE Ordering
    <2>1. UNCHANGED <<loopVars, metaBlockIDs>>
        BY <1>7 DEF Ordering, consVars, metaVars
    <2>2. vgrec' = vgrec \/ \E id \in BlockIds : vgrec' = Append(vgrec, id)
        BY <1>7 DEF Ordering, ProposerOrders, ValidatorOrders, FormBlock, RecordBlock,
                    StoreOrderSig, StoreBlock, BlockOB
    <2> QED  BY <2>1, <2>2, CutsKept DEF loopVars
<1>8. CASE (\E v \in Validators : Crash(v)) \/ OrderingSendFails \/ UNCHANGED vars
    BY <1>4, <1>8 DEF Crash, OrderingSendFails, vars, consVars, ordVars, metaVars
<1> QED  BY <1>1, <1>2, <1>3, <1>5, <1>6, <1>7, <1>8 DEF Next, Loop

\* Joining the blocks of the instances, one instance after the other, gives what was
\* recorded up to the last cut.
LEMMA CutsJoin ==
    ASSUME LoopInv, RangeInv, CutInv
    PROVE  InstancesPartition
<1> DEFINE Joins(g) == [i \in 0..consInstID |->
                           IF i = 0 THEN <<>> ELSE g[i - 1] \o metaBlockIDs[i - 1]]
           upto == CHOOSE g : g = Joins(g)
           taken == IF cpc \in {"read", "bcast", "meta"} THEN blockIDRange ELSE <<>>
<1>1. PICK cut : Cuts(cut)
    BY DEF CutInv
<1>2. /\ consInstID \in Nat /\ lastIdx \in 0..Len(vgrec) /\ Len(vgrec) \in Nat
      /\ vgrec \in Seq(BlockIds)
      /\ cut \in [0..consInstID -> 0..lastIdx] /\ cut[0] = 0
      /\ \A i \in 0..(consInstID - 1) :
             /\ cut[i] <= cut[i + 1]
             /\ metaBlockIDs[i] = SubSeq(vgrec, cut[i] + 1, cut[i + 1])
    BY <1>1 DEF LoopInv, RangeInv, Cuts
<1>3. ASSUME NEW m \in 0..lastIdx, NEW n \in m..lastIdx
      PROVE  SubSeq(vgrec, 1, m) \o SubSeq(vgrec, m + 1, n) = SubSeq(vgrec, 1, n)
    <2>1. 1 \in 1..(Len(vgrec) + 1) /\ m \in (1 - 1)..Len(vgrec) /\ n \in m..Len(vgrec)
        BY <1>2
    <2> QED  BY <1>2, <2>1, ConcatAdjacentSubSeq
<1>4. SubSeq(vgrec, 1, 0) = <<>>
    BY <1>2
<1> DEFINE sofar == [i \in 0..consInstID |-> SubSeq(vgrec, 1, cut[i])]
<1>5. ASSUME NEW i \in 0..(consInstID - 1)
      PROVE  SubSeq(vgrec, 1, cut[i]) \o metaBlockIDs[i] = SubSeq(vgrec, 1, cut[i + 1])
    <2>1. i \in 0..consInstID /\ i + 1 \in 0..consInstID
        BY <1>2
    <2>2. cut[i] \in 0..lastIdx /\ cut[i + 1] \in cut[i]..lastIdx
        BY <1>2, <2>1
    <2>3. metaBlockIDs[i] = SubSeq(vgrec, cut[i] + 1, cut[i + 1])
        BY <1>2
    <2> QED  BY <1>3, <2>2, <2>3
<1>6. sofar = Joins(sofar)
    <2>1. ASSUME NEW i \in 0..consInstID
          PROVE  sofar[i] = IF i = 0 THEN <<>> ELSE sofar[i - 1] \o metaBlockIDs[i - 1]
        <3>1. CASE i = 0
            BY <1>2, <1>4, <3>1
        <3>2. CASE i # 0
            <4>1. i - 1 \in 0..(consInstID - 1) /\ i - 1 \in 0..consInstID /\ (i - 1) + 1 = i
                BY <1>2, <3>2
            <4>2. SubSeq(vgrec, 1, cut[i - 1]) \o metaBlockIDs[i - 1] = SubSeq(vgrec, 1, cut[i])
                BY <1>5, <4>1
            <4> QED  BY <3>2, <4>1, <4>2
        <3> QED  BY <3>1, <3>2
    <2> DEFINE f == sofar
    <2>2. f = [i \in 0..consInstID |-> f[i]]
        OBVIOUS
    <2>3. \A i \in 0..consInstID : f[i] = IF i = 0 THEN <<>> ELSE f[i - 1] \o metaBlockIDs[i - 1]
        BY <2>1
    <2> HIDE DEF f, sofar
    <2>4. f = Joins(f)
        BY <2>2, <2>3
    <2> QED  BY <2>4 DEF f
<1>7. upto = Joins(upto)
    <2> HIDE DEF Joins
    <2>1. \E g : g = Joins(g)
        BY <1>6
    <2> QED  BY <2>1
<1>8. /\ upto[0] = <<>>
      /\ \A i \in 0..(consInstID - 1) : upto[i + 1] = upto[i] \o metaBlockIDs[i]
    <2> HIDE DEF upto
    <2>1. \A i \in 0..consInstID :
              upto[i] = IF i = 0 THEN <<>> ELSE upto[i - 1] \o metaBlockIDs[i - 1]
        BY <1>7, Zenon
    <2>2. 0 \in 0..consInstID
        BY <1>2
    <2>3. ASSUME NEW i \in 0..(consInstID - 1)
          PROVE  i + 1 \in 0..consInstID /\ i + 1 # 0 /\ (i + 1) - 1 = i
        BY <1>2
    <2>4. upto[0] = <<>>
        BY <2>1, <2>2
    <2>5. ASSUME NEW i \in 0..(consInstID - 1)
          PROVE  upto[i + 1] = upto[i] \o metaBlockIDs[i]
        <3>1. upto[i + 1] = upto[(i + 1) - 1] \o metaBlockIDs[(i + 1) - 1]
            BY <2>1, <2>3
        <3> QED  BY <2>3, <3>1
    <2> QED  BY <2>4, <2>5
<1> HIDE DEF upto
<1>9. 0..consInstID \subseteq {i \in 0..consInstID : upto[i] = SubSeq(vgrec, 1, cut[i])}
    <2> DEFINE G == {i \in 0..consInstID : upto[i] = SubSeq(vgrec, 1, cut[i])}
    <2>1. 0 \in G
        <3>1. cut[0] = 0 /\ 0 \in 0..consInstID
            BY <1>2
        <3>2. upto[0] = SubSeq(vgrec, 1, cut[0])
            BY <1>4, <1>8, <3>1, Zenon
        <3> QED  BY <3>1, <3>2
    <2>2. ASSUME NEW i \in 0..(consInstID - 1), i \in G PROVE i + 1 \in G
        <3>1. upto[i + 1] = SubSeq(vgrec, 1, cut[i + 1])
            BY <1>5, <1>8, <2>2
        <3>2. i + 1 \in 0..consInstID
            BY <1>2
        <3> QED  BY <3>1, <3>2
    <2> HIDE DEF G
    <2>3. 0..consInstID \subseteq G
        BY <1>2, <2>1, <2>2, InductionTo
    <2> QED  BY <2>3 DEF G
<1>10. consInstID \in 0..consInstID /\ cut[consInstID] \in 0..lastIdx
       /\ lastIdx \in cut[consInstID]..lastIdx
    BY <1>2
<1>11. upto[consInstID] = SubSeq(vgrec, 1, cut[consInstID])
    BY <1>9, <1>10
<1>12. upto[consInstID] \o taken = SubSeq(vgrec, 1, lastIdx)
    <2>1. CASE cpc \in {"read", "bcast", "meta"}
        <3>1. taken = SubSeq(vgrec, cut[consInstID] + 1, lastIdx)
            BY <1>1, <2>1 DEF Cuts
        <3> QED  BY <1>3, <1>10, <1>11, <3>1
    <2>2. CASE cpc \notin {"read", "bcast", "meta"}
        <3>1. taken = <<>> /\ cut[consInstID] = lastIdx
            BY <1>1, <2>2 DEF Cuts
        <3>2. SubSeq(vgrec, 1, lastIdx) \in Seq(BlockIds)
            BY <1>2
        <3> QED  BY <1>11, <3>1, <3>2
    <2> QED  BY <2>1, <2>2
<1> QED  BY <1>12 DEF InstancesPartition, upto, Joins, taken

\* The instances take the ordered blocks in order, each block once and none left
\* out, while the ordering phase goes on recording (vordering.go:23-35).
THEOREM InstancesTakeAll == Spec => []InstancesPartition
<1>1. RInv /\ CutInv /\ [Next]_vars => CutInv'
    BY CutStep DEF RInv, CInv
<1>2. RInv /\ CutInv => InstancesPartition
    BY CutsJoin DEF RInv, CInv
<1> QED  BY <1>1, <1>2, CutInit, InstanceInvariance, PTL DEF Spec

-------------------------------------------------------------------------------
(***************************************************************************)
(* The votes.                                                              *)
(***************************************************************************)

\* The instances v has signed.
SignedIn(v) == DOMAIN vHash[v] \cup {m.inst : m \in {k \in ca : k.to = v /\ k.pc = "token"}}

\* The votes, with the settled hash for what each handler keeps of it.
Voted == [v \in CmtValidators |-> [i \in SignedIn(v) |-> HashOf(i)]]

\* The votes as the refinement mapping reads them.
Mapped ==
    [v \in CmtValidators |->
        LET signing == {m \in ca : m.to = v /\ m.pc = "token"}
        IN  [i \in DOMAIN vHash[v] \cup {m.inst : m \in signing} |->
                IF i \in DOMAIN vHash[v] THEN vHash[v][i]
                ELSE Digest((CHOOSE m \in signing : m.inst = i).rangeHash)]]

MappedAgrees == CAInv /\ VoteInv => Mapped = Voted

LEMMA MappedIsVoted == MappedAgrees
<1> SUFFICES ASSUME CAInv, VoteInv PROVE Mapped = Voted
    BY DEF MappedAgrees
<1> SUFFICES ASSUME NEW v \in CmtValidators
             PROVE  Mapped[v] = Voted[v]
    BY DEF Mapped, Voted
<1> DEFINE signing == {m \in ca : m.to = v /\ m.pc = "token"}
           hash(i) == IF i \in DOMAIN vHash[v] THEN vHash[v][i]
                      ELSE Digest((CHOOSE m \in signing : m.inst = i).rangeHash)
<1>1. /\ SignedIn(v) = DOMAIN vHash[v] \cup {m.inst : m \in signing}
      /\ Mapped[v] = [i \in SignedIn(v) |-> hash(i)]
      /\ Voted[v] = [i \in SignedIn(v) |-> HashOf(i)]
    BY DEF Mapped, Voted, SignedIn
<1>2. ASSUME NEW i \in SignedIn(v) PROVE hash(i) = HashOf(i)
    <2>1. CASE i \in DOMAIN vHash[v]
        BY <2>1 DEF VoteInv
    <2>2. CASE i \notin DOMAIN vHash[v]
        <3>1. \E m \in signing : m.inst = i
            BY <1>1, <2>2
        <3>2. PICK k : k = CHOOSE m \in signing : m.inst = i
            OBVIOUS
        <3>3. k \in signing /\ k.inst = i
            BY <3>1, <3>2
        <3>4. HashOf(i) = Digest(k.rangeHash)
            BY <3>3 DEF CAInv
        <3> QED  BY <2>2, <3>2, <3>4
    <2> QED  BY <2>1, <2>2
<1> HIDE DEF hash
<1> QED  BY <1>1, <1>2

LEMMA MappedIsVotedNext == MappedAgrees'
BY MappedIsVoted, PTL

\* What is signed is begun.
LEMMA SignedBegun ==
    ASSUME CAInv, VoteInv, NEW v \in CmtValidators, NEW i \in SignedIn(v)
    PROVE  Begun(i)
BY DEF CAInv, VoteInv, SignedIn

\* The vote of a validator that signs nothing stays as it is.
LEMMA VotesStay ==
    ASSUME CAInv, VoteInv, Settled, NEW v \in CmtValidators, SignedIn(v)' = SignedIn(v)
    PROVE  Voted'[v] = Voted[v]
<1>1. \A i \in SignedIn(v) : HashOf(i)' = HashOf(i)
    BY SignedBegun DEF Settled
<1>2. Voted'[v] = [i \in SignedIn(v)' |-> HashOf(i)']
    BY DEF Voted
<1>3. Voted[v] = [i \in SignedIn(v) |-> HashOf(i)]
    BY DEF Voted
<1> QED  BY <1>1, <1>2, <1>3

LEMMA VotedStays ==
    ASSUME CAInv, VoteInv, Settled, \A v \in CmtValidators : SignedIn(v)' = SignedIn(v)
    PROVE  Voted' = Voted
<1>1. \A v \in CmtValidators : Voted'[v] = Voted[v]
    BY VotesStay
<1> QED  BY <1>1 DEF Voted

\* A handler that has not signed is that of an instance its member has not signed.
LEMMA NotSignedYet ==
    ASSUME OnceInv, NEW m \in ca, m.pc # "token"
    PROVE  m.inst \notin SignedIn(m.to)
BY DEF OnceInv, SignedIn

\* Signing is a vote.
LEMMA ReplyVotes ==
    ASSUME CAInv, VoteInv, OnceInv, Settled, NEW m \in ca, ReplyCA(m)
    PROVE  /\ m.inst \notin SignedIn(m.to)
           /\ Voted' = [Voted EXCEPT ![m.to] = Put(@, m.inst, HashOf(m.inst))]
<1>1. PICK k : k = [m EXCEPT !.pc = "token"]
    OBVIOUS
<1>2. k.to = m.to /\ k.inst = m.inst /\ k.pc = "token"
    BY <1>1, AdvancedCA
<1>3. m.pc = "reply" /\ UNCHANGED vHash /\ ca' = (ca \ {m}) \cup {k} /\ m.to \in CmtValidators
    BY <1>1 DEF ReplyCA, AdvanceCA, validatorVars, CAInv
<1>4. m.inst \notin SignedIn(m.to)
    BY <1>3, NotSignedYet
<1>5. ASSUME NEW v \in CmtValidators
      PROVE  SignedIn(v)' = IF v = m.to THEN SignedIn(v) \cup {m.inst} ELSE SignedIn(v)
    BY <1>2, <1>3 DEF SignedIn
<1>6. ASSUME NEW v \in CmtValidators, v # m.to PROVE Voted'[v] = Voted[v]
    BY <1>5, <1>6, VotesStay
<1>7. Voted'[m.to] = Put(Voted[m.to], m.inst, HashOf(m.inst))
    <2>1. \A i \in SignedIn(m.to) \cup {m.inst} : HashOf(i)' = HashOf(i)
        BY <1>3, SignedBegun DEF Settled, CAInv
    <2>2. Voted'[m.to] = [i \in SignedIn(m.to)' |-> HashOf(i)']
        BY <1>3 DEF Voted
    <2>3. Voted[m.to] = [i \in SignedIn(m.to) |-> HashOf(i)]
        BY <1>3 DEF Voted
    <2>4. SignedIn(m.to)' = SignedIn(m.to) \cup {m.inst}
        BY <1>3, <1>5
    <2> QED  BY <2>1, <2>2, <2>3, <2>4 DEF Put
<1>8. Voted' = [v \in CmtValidators |-> Voted'[v]] /\ Voted = [v \in CmtValidators |-> Voted[v]]
    BY DEF Voted
<1>9. Voted' = [Voted EXCEPT ![m.to] = Put(Voted[m.to], m.inst, HashOf(m.inst))]
    BY <1>3, <1>6, <1>7, <1>8
<1> QED  BY <1>4, <1>9

\* Every other step leaves the votes alone.
LEMMA OtherStepsKeepVotes ==
    ASSUME CAInv, VoteInv, Settled, [Next]_vars, ~\E m \in ca : ReplyCA(m)
    PROVE  Voted' = Voted
<1> SUFFICES \A v \in CmtValidators : SignedIn(v)' = SignedIn(v)
    BY VotedStays
<1>1. CASE UNCHANGED <<ca, vHash>>
    BY <1>1 DEF SignedIn
<1>2. CASE BroadcastCPA
    <2>1. UNCHANGED vHash /\ ca \subseteq ca' /\ \A x \in ca' \ ca : x.pc = "recv"
        BY <1>2 DEF BroadcastCPA, validatorVars
    <2> QED  BY <2>1 DEF SignedIn
<1>3. ASSUME NEW m \in ca, NEW k, NEW next, m.pc # "token", k.pc = next, next # "token",
             ca' = ca \ {m} \/ ca' = (ca \ {m}) \cup {k}, UNCHANGED vHash
      PROVE  \A v \in CmtValidators : SignedIn(v)' = SignedIn(v)
    BY <1>3 DEF SignedIn
<1>4. ASSUME NEW m \in ca, StartCA(m)
      PROVE  \A v \in CmtValidators : SignedIn(v)' = SignedIn(v)
    <2>1. PICK k : k = [m EXCEPT !.pc = "check"]
        OBVIOUS
    <2>2. m.pc = "recv" /\ UNCHANGED vHash /\ ca' = (ca \ {m}) \cup {k}
        BY <1>4, <2>1 DEF StartCA, AdvanceCA
    <2>3. k.pc = "check"
        BY <2>1, AdvancedCA
    <2> QED  BY <1>3, <2>2, <2>3
<1>5. ASSUME NEW m \in ca, CheckBlock(m)
      PROVE  \A v \in CmtValidators : SignedIn(v)' = SignedIn(v)
    <2>1. PICK next, bids, k : /\ k = [m EXCEPT !.bids = bids, !.pc = next]
                               /\ next \in {"reply", "check"}
                               /\ ca' = ca \ {m} \/ ca' = (ca \ {m}) \cup {k}
        BY <1>5 DEF CheckBlock
    <2>2. k.pc = next
        BY <2>1 DEF CAInv
    <2>3. m.pc = "check" /\ UNCHANGED vHash
        BY <1>5 DEF CheckBlock
    <2>4. next # "token"
        BY <2>1
    <2> QED  BY <1>3, <2>1, <2>2, <2>3, <2>4
<1>6. ASSUME NEW m \in ca, FinishCA(m)
      PROVE  \A v \in CmtValidators : SignedIn(v)' = SignedIn(v)
    <2>1. /\ ca' = ca \ {m} /\ m.pc = "token" /\ m.to \in CmtValidators
          /\ vHash' = [vHash EXCEPT ![m.to] = Put(@, m.inst, Digest(m.rangeHash))]
        BY <1>6 DEF FinishCA, CAInv
    <2>2. ASSUME NEW v \in CmtValidators
          PROVE  DOMAIN vHash'[v] = IF v = m.to THEN DOMAIN vHash[v] \cup {m.inst}
                                    ELSE DOMAIN vHash[v]
        BY <2>1 DEF VoteInv, Put, Validators
    <2> QED  BY <2>1, <2>2 DEF SignedIn
<1>7. CASE \E v \in CmtValidators : HandleCA(v) \/ HandleCB(v)
    BY <1>1, <1>4, <1>5, <1>6, <1>7 DEF HandleCA, HandleCB, DeliverCB
<1>8. CASE Wait \/ GetIDRange \/ ReadBlock \/ StoreMeta
    BY <1>1, <1>8 DEF Wait, GetIDRange, ReadBlock, StoreMeta, validatorVars
<1>9. CASE HandleReplies
    BY <1>1, <1>9 DEF HandleReplies, FetchSigs, AppendSig, BroadcastCPB, validatorVars
<1>10. CASE (\E v \in Validators : Crash(v)) \/ Ordering \/ OrderingSendFails \/ UNCHANGED vars
    BY <1>1, <1>10 DEF Crash, Ordering, OrderingSendFails, vars, consVars, validatorVars
<1> QED  BY <1>2, <1>7, <1>8, <1>9, <1>10 DEF Next, Loop

-------------------------------------------------------------------------------
(***************************************************************************)
(* The log.                                                                *)
(***************************************************************************)

\* The instances that are filled.
Filled == {[slot |-> c.inst, hash |-> c.hash] : c \in commits}

\* A reply goroutine that combines the shares fills the slot, or finds it filled with
\* the same hash by another goroutine.
LEMMA AppendFills ==
    ASSUME VoteInv, VoteInv', LoopInv, NEW r \in cpaReplies, AppendSig(r)
    PROVE  \/ Filled' = Filled
           \/ /\ Filled' = Filled \cup {[slot |-> r.inst, hash |-> HashOf(r.inst)]}
              /\ \A e \in Filled : e.slot # r.inst
              /\ Begun(r.inst)
              /\ Cardinality(Voters(r.inst)') >= OrdThresh
<1>1. CASE commits' = commits
    BY <1>1 DEF Filled
<1>2. CASE commits' # commits
    <2>1. PICK c : /\ c = [inst |-> r.inst, hash |-> metaHash[r.inst], by |-> r.sig.by,
                           sent |-> FALSE]
                   /\ commits' = commits \cup {c}
        BY <1>2 DEF AppendSig
    <2>2. c.inst = r.inst /\ c.hash = metaHash[r.inst] /\ c \in commits'
        BY <2>1
    <2>3. r.inst \in DOMAIN metaHash
        BY DEF AppendSig, VoteInv
    <2>4. Begun(r.inst) /\ HashOf(r.inst) = metaHash[r.inst]
        BY <2>3, StoredBegun
    <2>5. Filled' = Filled \cup {[slot |-> r.inst, hash |-> HashOf(r.inst)]}
        <3>1. Filled' = Filled \cup {[slot |-> c.inst, hash |-> c.hash]}
            BY <2>1 DEF Filled
        <3> QED  BY <2>2, <2>4, <3>1
    <2>6. Cardinality(Voters(r.inst)') >= OrdThresh
        BY <2>2 DEF VoteInv
    <2>7. CASE \E d \in commits : d.inst = r.inst
        <3>1. PICK d \in commits : d.inst = r.inst
            BY <2>7
        <3>2. d.hash = HashOf(r.inst)
            BY <2>4, <3>1 DEF VoteInv
        <3>3. [slot |-> r.inst, hash |-> HashOf(r.inst)] \in Filled
            BY <3>1, <3>2 DEF Filled
        <3> QED  BY <2>5, <3>3
    <2>8. CASE ~\E d \in commits : d.inst = r.inst
        <3>1. \A e \in Filled : e.slot # r.inst
            BY <2>8 DEF Filled
        <3> QED  BY <2>4, <2>5, <2>6, <3>1
    <2> QED  BY <2>7, <2>8
<1> QED  BY <1>1, <1>2

\* Sending a commit fills nothing.
LEMMA OtherStepsKeepLog ==
    ASSUME VoteInv, [Next]_vars, ~\E r \in cpaReplies : AppendSig(r)
    PROVE  Filled' = Filled
<1>1. CASE UNCHANGED commits
    BY <1>1 DEF Filled
<1>2. ASSUME NEW c \in commits, BroadcastCPB(c) PROVE Filled' = Filled
    <2>1. PICK d : d = [c EXCEPT !.sent = TRUE] /\ commits' = (commits \ {c}) \cup {d}
        BY <1>2 DEF BroadcastCPB
    <2>2. d.inst = c.inst /\ d.hash = c.hash
        BY <2>1 DEF VoteInv
    <2> QED  BY <2>1, <2>2 DEF Filled
<1>3. CASE HandleReplies
    BY <1>1, <1>2, <1>3 DEF HandleReplies, FetchSigs
<1>4. CASE \E v \in CmtValidators : HandleCA(v) \/ HandleCB(v)
    BY <1>1, <1>4 DEF HandleCA, HandleCB, StartCA, CheckBlock, ReplyCA, FinishCA, DeliverCB,
                      replyVars
<1>5. CASE Loop \/ Ordering \/ OrderingSendFails \/ (\E v \in Validators : Crash(v))
               \/ UNCHANGED vars
    BY <1>1, <1>5 DEF Loop, Wait, GetIDRange, ReadBlock, BroadcastCPA, StoreMeta, Ordering,
                      OrderingSendFails, Crash, vars, consVars, replyVars
<1> QED  BY <1>3, <1>4, <1>5 DEF Next

\* The log counts as the phase does.
LEMMA LogCardinality == \A S : Log!Cardinality(S) = Cardinality(S)
BY Zenon DEF Log!Cardinality, Cardinality

\* Every step is a step of the log, or leaves it alone.
LEMMA LogStep ==
    ASSUME IsFiniteSet(BlockIds), RInv, RInv', [Next]_vars
    PROVE  [Log!Next]_(Log!vars)
<1> DEFINE Votes == /\ UNCHANGED Filled
                    /\ \E v \in CmtValidators, slot \in Instances, hash \in TotalHashes :
                           Log!Vote(v, slot, hash)
           Fills == /\ UNCHANGED Mapped
                    /\ \E slot \in Instances, hash \in TotalHashes : Log!Fill(slot, hash)
<1> SUFFICES UNCHANGED <<Mapped, Filled>> \/ Votes \/ Fills
    BY DEF Log!Next, Log!vars, Mapped, Filled
<1>1. /\ LoopInv /\ CAInv /\ VoteInv /\ VoteInv' /\ OnceInv /\ RangeInv /\ HashInv /\ Settled
      /\ Mapped = Voted /\ Mapped' = Voted'
    <2>1. LoopInv /\ CAInv /\ VoteInv /\ OnceInv /\ RangeInv /\ HashInv /\ CAInv' /\ VoteInv'
        BY DEF RInv, CInv
    <2>2. Mapped = Voted /\ Mapped' = Voted'
        BY <2>1, MappedIsVoted, MappedIsVotedNext DEF MappedAgrees
    <2> QED  BY <2>1, <2>2, SettledStep
<1>3. ASSUME NEW m \in ca, ReplyCA(m) PROVE Votes
    <2>1. /\ m.inst \notin SignedIn(m.to)
          /\ Voted' = [Voted EXCEPT ![m.to] = Put(@, m.inst, HashOf(m.inst))]
        BY <1>1, <1>3, ReplyVotes
    <2>2. m.to \in CmtValidators /\ m.inst \in Instances /\ HashOf(m.inst) \in TotalHashes
        BY <1>1, InstancesAreSlots, BegunHash DEF CAInv
    <2>3. m.inst \notin DOMAIN Mapped[m.to]
        BY <1>1, <2>1, <2>2 DEF Voted
    <2>4. Mapped' = [Mapped EXCEPT ![m.to] = Log!Put(@, m.inst, HashOf(m.inst))]
        BY <1>1, <2>1 DEF Put, Log!Put
    <2>5. Filled' = Filled
        BY <1>3 DEF ReplyCA, Filled
    <2>6. PICK v \in CmtValidators, slot \in Instances, hash \in TotalHashes :
              v = m.to /\ slot = m.inst /\ hash = HashOf(m.inst)
        BY <2>2
    <2>7. Log!Vote(v, slot, hash)
        BY <2>3, <2>4, <2>6 DEF Log!Vote, Mapped
    <2> QED  BY <2>5, <2>7
<1>4. ASSUME NEW r \in cpaReplies, AppendSig(r), Filled' # Filled PROVE Fills
    <2>1. /\ Filled' = Filled \cup {[slot |-> r.inst, hash |-> HashOf(r.inst)]}
          /\ \A e \in Filled : e.slot # r.inst
          /\ Begun(r.inst)
          /\ Cardinality(Voters(r.inst)') >= OrdThresh
        BY <1>1, <1>4, AppendFills
    <2>2. r.inst \in Instances /\ HashOf(r.inst) \in TotalHashes
        BY <1>1, <2>1, InstancesAreSlots, BegunHash
    <2>3. UNCHANGED <<vHash, ca>>
        BY <1>4 DEF AppendSig, validatorVars
    <2>4. Voters(r.inst)' = Voters(r.inst) /\ Mapped' = Mapped
        BY <2>3 DEF Voters, HasSigned, Mapped
    <2>5. Log!Voters(r.inst, HashOf(r.inst)) = Voters(r.inst)
        <3>1. Log!Voters(r.inst, HashOf(r.inst)) =
                  {v \in CmtValidators : r.inst \in DOMAIN Mapped[v]
                                         /\ Mapped[v][r.inst] = HashOf(r.inst)}
            BY DEF Log!Voters, Mapped
        <3>2. \A v \in CmtValidators : /\ DOMAIN Mapped[v] = SignedIn(v)
                                       /\ \A i \in SignedIn(v) : Mapped[v][i] = HashOf(i)
            BY <1>1 DEF Voted
        <3>3. \A v \in CmtValidators : r.inst \in SignedIn(v) <=> HasSigned(v, r.inst)
            BY DEF SignedIn, HasSigned
        <3> QED  BY <3>1, <3>2, <3>3 DEF Voters
    <2>6. Log!Cardinality(Log!Voters(r.inst, HashOf(r.inst))) >= 2 * F
        <3>1. IsFiniteSet(Voters(r.inst))
            BY ConsensusAssumption, FS_Subset DEF Voters
        <3>2. Cardinality(Voters(r.inst)) \in Nat
            BY <3>1, FS_CardinalityType
        <3>3. OrdThresh \in Int /\ F \in Int /\ OrdThresh >= 2 * F
            BY ConsensusAssumption, FS_CardinalityType DEF OrdThresh, Threshold, Quorum, F
        <3>4. Cardinality(Voters(r.inst)) >= 2 * F
            BY <2>1, <2>4, <3>2, <3>3
        <3> QED  BY <2>5, <3>4, LogCardinality
    <2>7. PICK slot \in Instances, hash \in TotalHashes :
              slot = r.inst /\ hash = HashOf(r.inst)
        BY <2>2
    <2>8. Log!Fill(slot, hash)
        BY <2>1, <2>6, <2>7 DEF Log!Fill, Filled
    <2> QED  BY <2>4, <2>8
<1>5. CASE \E m \in ca : ReplyCA(m)
    BY <1>3, <1>5
<1>6. CASE \E r \in cpaReplies : AppendSig(r)
    <2>1. PICK r \in cpaReplies : AppendSig(r)
        BY <1>6
    <2>2. Mapped' = Mapped
        BY <2>1 DEF AppendSig, validatorVars, Mapped
    <2> QED  BY <1>4, <2>1, <2>2
<1>7. CASE ~(\E m \in ca : ReplyCA(m)) /\ ~(\E r \in cpaReplies : AppendSig(r))
    <2>1. Voted' = Voted
        BY <1>1, <1>7, OtherStepsKeepVotes
    <2>2. Filled' = Filled
        BY <1>1, <1>7, OtherStepsKeepLog
    <2> QED  BY <1>1, <2>1, <2>2
<1> QED  BY <1>5, <1>6, <1>7

\* The consensus phase implements the log: a member signs one range for an instance,
\* and at most one is committed for it, after a quorum has signed it
\* (vconsensus.go:152-203, comply.go:197-212).
THEOREM ConsensusImplementsLog == IsFiniteSet(BlockIds) => (Spec => ImplementsLog)
<1> SUFFICES ASSUME IsFiniteSet(BlockIds) PROVE Spec => Log!Spec
    BY DEF ImplementsLog
<1>1. Init => Log!Init
    <2> SUFFICES ASSUME Init PROVE Log!Init
        OBVIOUS
    <2>1. DOMAIN EmptyMap = {} /\ Log!EmptyMap = [i \in {} |-> HashOf(i)]
        BY DEF EmptyMap, Log!EmptyMap
    <2>2. CAInv /\ VoteInv /\ commits = {}
        BY CInit DEF CInv, Init
    <2>3. \A v \in CmtValidators : SignedIn(v) = {}
        BY <2>1 DEF Init, SignedIn, Validators
    <2>4. Voted = [v \in CmtValidators |-> Log!EmptyMap]
        BY <2>1, <2>3 DEF Voted
    <2>5. Mapped = Voted
        BY <2>2, MappedIsVoted DEF MappedAgrees
    <2> QED  BY <2>2, <2>4, <2>5 DEF Log!Init, Mapped
<1>2. RInv /\ RInv' /\ [Next]_vars => [Log!Next]_(Log!vars)
    BY LogStep
<1> QED  BY <1>1, <1>2, InstanceInvariance, PTL DEF Spec, Log!Spec

-------------------------------------------------------------------------------
(***************************************************************************)
(* The ordering phase is left alone.                                       *)
(***************************************************************************)

\* The cache of the ordering booth.
OrdBooths == [v \in OrdValidators |-> vCmt[v]]

\* The interface reads the shared state as Consensus does.
LEMMA PhaseOperators ==
    /\ \A m, k, x : Phase!Put(m, k, x) = Put(m, k, x)
    /\ \A hash : Phase!CombSig(hash) = CombSig(hash)
    /\ Phase!NoSig = NoSig /\ Phase!EmptyMap = EmptyMap
    /\ \A id : Phase!Recorded(id) <=> Recorded(id)
    /\ \A id, hash : Phase!OrderableAs(id, hash) <=> OrderableAs(id, hash)
<1>1. \A m, k, x : Phase!Put(m, k, x) = Put(m, k, x)
    BY DEF Phase!Put, Put
<1>2. \A hash : Phase!CombSig(hash) = CombSig(hash)
    BY DEF Phase!CombSig, CombSig
<1>3. Phase!NoSig = NoSig /\ Phase!EmptyMap = EmptyMap
    BY DEF Phase!NoSig, NoSig, Phase!EmptyMap, EmptyMap
<1>4. \A id : Phase!Recorded(id) <=> Recorded(id)
    BY DEF Phase!Recorded, Recorded
<1>5. \A S : Phase!Cardinality(S) = Cardinality(S)
    BY Zenon DEF Phase!Cardinality, Cardinality
<1>6. Phase!OrdThresh = OrdThresh
    BY <1>5 DEF Phase!OrdThresh, Phase!Threshold, Phase!Quorum, OrdThresh, Threshold, Quorum
<1>7. \A id, hash : Phase!OrdHolders(id, hash) = OrdHolders(id, hash)
    BY DEF Phase!OrdHolders, OrdHolders
<1>8. \A id, hash : Phase!OrderableAs(id, hash) <=> OrderableAs(id, hash)
    BY <1>5, <1>6, <1>7 DEF Phase!OrderableAs, OrderableAs
<1> QED  BY <1>1, <1>2, <1>3, <1>4, <1>8

\* A handler of the commit booth that stores what it is sent is that of a new member.
LEMMA SyncLeavesOrdering ==
    ASSUME RInv, OrdTypes, NEW m \in ca, StartCA(m)
    PROVE  OrdBooths' = OrdBooths
<1>1. m.to \in Validators /\ vCmt = [v \in Validators |-> vCmt[v]]
    BY DEF RInv, CInv, CAInv, CertInv, Validators
<1>2. CASE m.to \in OrdValidators
    <2>1. Synced(m.prev) = {}
        BY <1>2 DEF RInv, CInv, CertInv, Synced
    <2>2. vCmt' = [vCmt EXCEPT ![m.to] = [id \in DOMAIN vCmt[m.to] |-> vCmt[m.to][id]]]
        BY <2>1 DEF StartCA
    <2>3. vCmt[m.to] = [id \in DOMAIN vCmt[m.to] |-> vCmt[m.to][id]]
        BY <1>1 DEF OrdTypes, IsMap
    <2> QED  BY <1>1, <2>2, <2>3 DEF OrdBooths
<1>3. CASE m.to \notin OrdValidators
    <2>1. \A v \in OrdValidators : vCmt'[v] = vCmt[v]
        BY <1>1, <1>3 DEF StartCA, Validators
    <2> QED  BY <2>1 DEF OrdBooths
<1> QED  BY <1>2, <1>3

\* Every step of the ordering phase is one of the interface.
LEMMA PhaseOrders ==
    ASSUME RInv, Ordering
    PROVE  Phase!OrdNext
<1>1. ASSUME UNCHANGED vCmt PROVE OrdBooths' = OrdBooths
    BY <1>1 DEF OrdBooths
<1>2. ASSUME NEW id \in BlockIds, NEW hash \in BlockHashes, FormBlock(id, hash)
      PROVE  Phase!FormBlock(id, hash)
    BY <1>1, <1>2, PhaseOperators DEF FormBlock, Phase!FormBlock, OrdBooths
<1>3. ASSUME NEW id \in BlockIds, NEW hash \in BlockHashes, StoreOrderSig(id, hash)
      PROVE  Phase!StoreOrderSig(id, hash)
    BY <1>1, <1>3, PhaseOperators DEF StoreOrderSig, Phase!StoreOrderSig, OrdBooths
<1>4. ASSUME NEW id \in BlockIds, RecordBlock(id)
      PROVE  Phase!RecordBlock(id)
    BY <1>1, <1>4, PhaseOperators DEF RecordBlock, Phase!RecordBlock, OrdBooths
<1>5. ASSUME NEW v \in OrdValidators, NEW id \in BlockIds, BlockOB(v, id)
      PROVE  Phase!BlockOB(v, id)
    BY <1>1, <1>5, PhaseOperators DEF BlockOB, Phase!BlockOB, OrdBooths
<1>6. ASSUME NEW v \in OrdValidators, NEW id \in BlockIds, NEW hash \in BlockHashes,
             StoreBlock(v, id, hash)
      PROVE  Phase!StoreBlock(v, id, hash)
    <2>1. vCmt' = [vCmt EXCEPT ![v] = Put(@, id, hash)] /\ vCmt = [w \in Validators |-> vCmt[w]]
        BY <1>6 DEF StoreBlock, RInv, CInv, CertInv
    <2>2. OrdBooths' = [OrdBooths EXCEPT ![v] = Phase!Put(@, id, hash)]
        BY <2>1, PhaseOperators DEF OrdBooths, Validators
    <2>3. /\ id \in DOMAIN cmtSnapshot /\ id \notin DOMAIN OrdBooths[v] /\ v \notin obStuck
          /\ UNCHANGED <<cmtSnapshot, vgrec, obStuck>>
        BY <1>6 DEF StoreBlock, OrdBooths
    <2> QED  BY <2>2, <2>3 DEF Phase!StoreBlock, OrdBooths
<1>7. CASE ProposerOrders
    <2>1. Phase!ProposerOrders
        BY <1>2, <1>3, <1>4, <1>7 DEF ProposerOrders, Phase!ProposerOrders
    <2> QED  BY <2>1 DEF Phase!OrdNext
<1>8. ASSUME NEW v \in OrdValidators, ValidatorOrders(v) PROVE Phase!OrdNext
    <2>1. Phase!ValidatorOrders(v)
        BY <1>5, <1>6, <1>8 DEF ValidatorOrders, Phase!ValidatorOrders
    <2> QED  BY <2>1 DEF Phase!OrdNext
<1> QED  BY <1>7, <1>8 DEF Ordering

LEMMA PhaseStep ==
    ASSUME RInv, OrdTypes, [Next]_vars
    PROVE  [Phase!OrdNext]_(Phase!ordVars)
<1> SUFFICES Phase!OrdNext \/ UNCHANGED <<cmtSnapshot, vgrec, OrdBooths, obStuck>>
    BY DEF Phase!ordVars, OrdBooths
<1>1. CASE UNCHANGED ordVars
    BY <1>1 DEF ordVars, OrdBooths
<1>2. CASE Ordering
    BY <1>2, PhaseOrders
<1>3. ASSUME NEW m \in ca, StartCA(m)
      PROVE  UNCHANGED <<cmtSnapshot, vgrec, OrdBooths, obStuck>>
    BY <1>3, SyncLeavesOrdering DEF StartCA
<1>4. ASSUME NEW v \in Validators, Crash(v)
      PROVE  Phase!OrdNext \/ UNCHANGED <<cmtSnapshot, vgrec, OrdBooths, obStuck>>
    <2>1. obStuck' = obStuck \ {v} /\ UNCHANGED <<cmtSnapshot, vgrec, OrdBooths>>
        BY <1>4 DEF Crash, OrdBooths
    <2>2. CASE v \in obStuck
        <3>1. v \in OrdValidators
            BY <2>2 DEF OrdTypes
        <3>2. Phase!LoseLock(v)
            BY <2>1, <2>2 DEF Phase!LoseLock, OrdBooths
        <3> QED  BY <3>1, <3>2 DEF Phase!OrdNext
    <2> QED  BY <2>1, <2>2
<1>5. CASE \E v \in CmtValidators : HandleCA(v) \/ HandleCB(v)
    BY <1>1, <1>3, <1>5 DEF HandleCA, HandleCB, CheckBlock, ReplyCA, FinishCA, DeliverCB
<1>6. CASE Loop
    BY <1>1, <1>6 DEF Loop, Wait, GetIDRange, ReadBlock, BroadcastCPA, StoreMeta
<1>7. CASE HandleReplies
    BY <1>1, <1>7 DEF HandleReplies, FetchSigs, AppendSig, BroadcastCPB
<1>8. CASE OrderingSendFails \/ UNCHANGED vars
    BY <1>1, <1>8 DEF OrderingSendFails, vars
<1> QED  BY <1>2, <1>4, <1>5, <1>6, <1>7, <1>8 DEF Next

\* The handlers of the commit booth and the crashes do to the caches of the ordering
\* booth nothing that the ordering phase might not do itself: the phase that Ordering
\* implements and the one that Consensus runs with are the same (comply.go:76-111).
THEOREM ConsensusLeavesOrdering == Spec => ImplementsOrdering
<1>1. Init => Phase!OrdInit(OrdValidators)
    <2> SUFFICES ASSUME Init PROVE Phase!OrdInit(OrdValidators)
        OBVIOUS
    <2>1. OrdBooths = [v \in OrdValidators |-> Phase!EmptyMap]
        BY PhaseOperators DEF Init, OrdInit, OrdBooths, Validators
    <2> QED  BY <2>1, PhaseOperators DEF Init, OrdInit, Phase!OrdInit, OrdBooths
<1>2. RInv /\ ConsTypes /\ [Next]_vars => [Phase!OrdNext]_(Phase!ordVars)
    BY PhaseStep DEF ConsTypes
<1> QED  BY <1>1, <1>2, InstanceInvariance, TypesInvariance, PTL
         DEF Spec, ImplementsOrdering, Phase!OrdSpec
===============================================================================
