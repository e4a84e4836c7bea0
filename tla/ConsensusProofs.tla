--------------------------- MODULE ConsensusProofs ---------------------------
(***************************************************************************)
(* Proofs about the consensus phase, for all booths, any number of blocks, *)
(* workers that share block ids, and any number of crashes.  The thread of *)
(* the argument is that the hash of an instance is settled by the time the *)
(* instance is broadcast: whatever carries an instance's number from then  *)
(* on carries that hash, so what one handler signs, another one counts and *)
(* a third one delivers can be compared.                                   *)
(***************************************************************************)
EXTENDS Consensus, FiniteSetTheorems, TLAPS

-------------------------------------------------------------------------------
(***************************************************************************)
(* The inductive invariant.                                                *)
(***************************************************************************)

\* Instance i has been broadcast, and its hash from then on.
Begun(i) == i \in Nat /\ (i < consInstID \/ (i = consInstID /\ cpc = "meta"))
HashOf(i) == IF i < consInstID THEN metaHash[i] ELSE Digest(rangeHash)

\* The members that have signed instance i, and the shares they may have sent.
HasSigned(v, i) ==
    \/ i \in DOMAIN vHash[v]
    \/ \E m \in ca : m.to = v /\ m.inst = i /\ m.pc = "token"
Voters(i) == {v \in CmtValidators : HasSigned(v, i)}
Valid(s, i) == s.by \in Voters(i) /\ s.on = HashOf(i)

\* A certificate of a block that a quorum has stored, or none.
Certified(id, sig) ==
    \A hash \in BlockHashes : sig = CombSig(hash) => OrderableAs(id, hash)
CertifiedEntry(e) == e.hash \in BlockHashes /\ Certified(e.id, e.sig)

LoopInv ==
    /\ consInstID \in Nat
    /\ DOMAIN metaHash = 0..(consInstID - 1)

CAInv ==
    \A m \in ca :
        /\ m = [to |-> m.to, inst |-> m.inst, bids |-> m.bids, rangeHash |-> m.rangeHash,
                prev |-> m.prev, pc |-> m.pc]
        /\ m.to \in CmtValidators
        /\ Begun(m.inst)
        /\ HashOf(m.inst) = Digest(m.rangeHash)

CertInv ==
    /\ cmtSnapshot = [id \in DOMAIN cmtSnapshot |-> cmtSnapshot[id]]
    /\ \A id \in DOMAIN cmtSnapshot :
           /\ cmtSnapshot[id] \in [hash : BlockHashes, tSig : OrdSigs]
           /\ Certified(id, cmtSnapshot[id].tSig)
    /\ \A e \in resentOPB : CertifiedEntry(e)
    /\ \A m \in ca :
           /\ m.to \in OrdValidators => m.prev = {}
           /\ \A e \in m.prev : CertifiedEntry(e)
    /\ vCmt = [v \in Validators |-> vCmt[v]]
    /\ SyncedCertified

TxInv ==
    /\ tx = [v \in Validators |-> tx[v]]
    /\ consJobs = [v \in Validators |-> consJobs[v]]
    /\ stored = [v \in Validators |-> stored[v]]
    /\ \A v \in CmtValidators :
           /\ \A i \in DOMAIN tx[v] :
                  /\ Begun(i)
                  /\ \A e \in tx[v][i] : e = [id |-> e.id, hash |-> HashOf(i)[2][e.id]]
           /\ consJobs[v] \cup stored[v] \subseteq DOMAIN tx[v]
    /\ \A m \in ca : m.pc # "recv" => m.inst \in DOMAIN tx[m.to]

VoteInv ==
    /\ vHash = [v \in Validators |-> vHash[v]]
    /\ \A v \in CmtValidators : \A i \in DOMAIN vHash[v] :
           Begun(i) /\ vHash[v][i] = HashOf(i)
    /\ \A i \in DOMAIN metaSigs :
           i \in DOMAIN metaHash /\ \A s \in metaSigs[i] : Valid(s, i)
    /\ \A r \in cpaReplies :
           /\ r = [inst |-> r.inst, pc |-> r.pc, seen |-> r.seen, sig |-> r.sig]
           /\ Begun(r.inst)
           /\ Valid(r.sig, r.inst)
           /\ \A s \in r.seen : Valid(s, r.inst)
           /\ r.pc = "append" => r.inst \in DOMAIN metaHash
    /\ \A c \in commits :
           /\ c = [inst |-> c.inst, hash |-> c.hash, by |-> c.by, sent |-> c.sent]
           /\ c.inst \in DOMAIN metaHash
           /\ c.hash = metaHash[c.inst]
           /\ Cardinality(Voters(c.inst)) >= OrdThresh

CInv == LoopInv /\ CAInv /\ CertInv /\ TxInv /\ VoteInv
-------------------------------------------------------------------------------
(***************************************************************************)
(* Initially.                                                              *)
(***************************************************************************)
LEMMA CInit == Init => CInv
<1> SUFFICES ASSUME Init PROVE CInv
    OBVIOUS
<1>1. DOMAIN EmptyMap = {}
    BY DEF EmptyMap
<1>2. LoopInv
    BY <1>1 DEF Init, LoopInv
<1>3. CAInv
    BY DEF Init, CAInv
<1>4. CertInv
    BY <1>1 DEF Init, OrdInit, CertInv, SyncedCertified, EmptyMap, NewMembers, Validators
<1>5. TxInv
    BY <1>1 DEF Init, TxInv, Validators
<1>6. VoteInv
    BY <1>1 DEF Init, VoteInv, Validators
<1> QED  BY <1>2, <1>3, <1>4, <1>5, <1>6 DEF CInv

-------------------------------------------------------------------------------
(***************************************************************************)
(* What never changes back.                                                *)
(***************************************************************************)

\* The hash of a begun instance is settled.
Settled ==
    /\ \A i : Begun(i) => Begun(i)' /\ HashOf(i)' = HashOf(i)
    /\ \A i \in DOMAIN metaHash : i \in DOMAIN metaHash' /\ metaHash'[i] = metaHash[i]

\* Steps outside the loop do not touch it.
LEMMA SettledOutside ==
    ASSUME UNCHANGED <<consInstID, cpc, rangeHash, metaHash>>
    PROVE  Settled
BY DEF Settled, Begun, HashOf

LEMMA SettledStep ==
    ASSUME LoopInv, [Next]_vars
    PROVE  LoopInv' /\ Settled
<1>1. CASE StoreMeta
    <2>1. /\ consInstID' = consInstID + 1
          /\ metaHash' = Put(metaHash, consInstID, Digest(rangeHash))
          /\ cpc = "meta" /\ cpc' = "range"
          /\ UNCHANGED rangeHash
        BY <1>1 DEF StoreMeta
    <2>2. DOMAIN metaHash' = DOMAIN metaHash \cup {consInstID}
        BY <2>1 DEF Put
    <2>3. DOMAIN metaHash' = 0..(consInstID' - 1)
        BY <2>1, <2>2 DEF LoopInv
    <2>4. \A i \in DOMAIN metaHash : metaHash'[i] = metaHash[i]
        BY <2>1 DEF Put, LoopInv
    <2>5. metaHash'[consInstID] = Digest(rangeHash)
        BY <2>1 DEF Put
    <2>6. ASSUME NEW i, Begun(i)
          PROVE  Begun(i)' /\ HashOf(i)' = HashOf(i)
        <3>1. i \in Nat /\ i <= consInstID
            BY <2>6 DEF Begun, LoopInv
        <3>2. CASE i = consInstID
            BY <2>1, <2>5, <3>2 DEF Begun, HashOf, LoopInv
        <3>3. CASE i < consInstID
            BY <2>1, <2>4, <3>1, <3>3 DEF Begun, HashOf, LoopInv
        <3> QED  BY <3>1, <3>2, <3>3 DEF LoopInv
    <2> QED  BY <2>1, <2>2, <2>3, <2>4, <2>6 DEF Settled, LoopInv
<1>2. CASE Wait \/ GetIDRange \/ ReadBlock \/ BroadcastCPA
    <2>1. /\ UNCHANGED <<consInstID, metaHash>>
          /\ cpc # "meta"
        BY <1>2 DEF Wait, GetIDRange, ReadBlock, BroadcastCPA, metaVars
    <2> QED  BY <2>1 DEF Settled, LoopInv, Begun, HashOf
<1>3. CASE UNCHANGED <<consInstID, cpc, rangeHash, metaHash>>
    BY <1>3, SettledOutside DEF LoopInv
<1>4. CASE HandleReplies
    BY <1>3, <1>4 DEF HandleReplies, FetchSigs, AppendSig, BroadcastCPB, loopVars, metaVars
<1>5. CASE \E v \in CmtValidators : HandleCA(v) \/ HandleCB(v)
    BY <1>3, <1>5 DEF HandleCA, HandleCB, StartCA, CheckBlock, ReplyCA, FinishCA, DeliverCB,
                      loopVars, metaVars
<1>6. CASE (\E v \in Validators : Crash(v)) \/ Ordering \/ OrderingSendFails
    BY <1>3, <1>6 DEF Crash, Ordering, OrderingSendFails, consVars, loopVars, metaVars
<1>7. CASE UNCHANGED vars
    BY <1>3, <1>7 DEF vars, consVars, loopVars, metaVars
<1> QED  BY <1>1, <1>2, <1>4, <1>5, <1>6, <1>7 DEF Next, Loop

\* A validator of the ordering booth keeps the blocks it has stored.
BlocksKept ==
    \A v \in OrdValidators : \A id \in DOMAIN vCmt[v] :
        id \in DOMAIN vCmt'[v] /\ vCmt'[v][id] = vCmt[v][id]

LEMMA OrderableStays ==
    ASSUME BlocksKept
    PROVE  \A id, hash : OrderableAs(id, hash) => OrderableAs(id, hash)'
<1> SUFFICES ASSUME NEW id, NEW hash, OrderableAs(id, hash)
             PROVE  OrderableAs(id, hash)'
    OBVIOUS
<1>1. OrdHolders(id, hash) \subseteq OrdHolders(id, hash)'
    BY DEF OrdHolders, BlocksKept
<1>2. IsFiniteSet(OrdHolders(id, hash)')
    BY ConsensusAssumption, FS_Subset DEF OrdHolders
<1>3. Cardinality(OrdHolders(id, hash)) <= Cardinality(OrdHolders(id, hash)')
    BY <1>1, <1>2, FS_Subset
<1>4. /\ Cardinality(OrdHolders(id, hash)) \in Nat
      /\ Cardinality(OrdHolders(id, hash)') \in Nat
    BY <1>1, <1>2, FS_Subset, FS_CardinalityType
<1>5. OrdThresh \in Int
    BY ConsensusAssumption, FS_CardinalityType DEF OrdThresh, Threshold, Quorum
<1> QED  BY <1>3, <1>4, <1>5 DEF OrderableAs

\* Members that have signed an instance have signed it.
SignedStays == \A i : Voters(i) \subseteq Voters(i)'

LEMMA SignedStaysOutside ==
    ASSUME vHash' = vHash,
           \A m \in ca : m.pc = "token" =>
               \E k \in ca' : k.to = m.to /\ k.inst = m.inst /\ k.pc = "token"
    PROVE  SignedStays
BY DEF SignedStays, Voters, HasSigned

LEMMA VotersFinite ==
    ASSUME SignedStays
    PROVE  \A i : /\ Cardinality(Voters(i)) \in Nat
                  /\ Cardinality(Voters(i)') \in Nat
                  /\ Cardinality(Voters(i)) <= Cardinality(Voters(i)')
<1> SUFFICES ASSUME NEW i
             PROVE  /\ Cardinality(Voters(i)) \in Nat
                    /\ Cardinality(Voters(i)') \in Nat
                    /\ Cardinality(Voters(i)) <= Cardinality(Voters(i)')
    OBVIOUS
<1>1. IsFiniteSet(Voters(i)) /\ IsFiniteSet(Voters(i)')
    BY ConsensusAssumption, FS_Subset DEF Voters
<1>2. Voters(i) \subseteq Voters(i)'
    BY DEF SignedStays
<1> QED  BY <1>1, <1>2, FS_Subset, FS_CardinalityType

LEMMA BlocksKeptStep ==
    ASSUME CAInv, CertInv, [Next]_vars
    PROVE  BlocksKept
<1>1. CASE UNCHANGED vCmt
    BY <1>1 DEF BlocksKept
<1>2. ASSUME NEW m \in ca, StartCA(m) PROVE BlocksKept
    <2>1. CASE m.to \in OrdValidators
        <3>1. Synced(m.prev) = {}
            BY <2>1 DEF CertInv, Synced
        <3>2. vCmt' = [vCmt EXCEPT ![m.to] =
                          [id \in DOMAIN vCmt[m.to] |-> vCmt[m.to][id]]]
            BY <1>2, <3>1 DEF StartCA
        <3> QED  BY <3>2 DEF BlocksKept, CertInv
    <2>2. CASE m.to \notin OrdValidators
        <3>1. \A v \in OrdValidators : vCmt'[v] = vCmt[v]
            BY <1>2, <2>2 DEF StartCA, CertInv, Validators
        <3> QED  BY <3>1 DEF BlocksKept
    <2> QED  BY <2>1, <2>2
<1>3. ASSUME NEW v \in OrdValidators, NEW id, NEW hash, StoreBlock(v, id, hash)
      PROVE  BlocksKept
    BY <1>3 DEF StoreBlock, BlocksKept, CertInv, Put, Validators
<1>4. CASE Ordering
    BY <1>1, <1>3, <1>4 DEF Ordering, ProposerOrders, ValidatorOrders, FormBlock, RecordBlock,
                            StoreOrderSig, BlockOB
<1>5. CASE Loop \/ HandleReplies \/ OrderingSendFails \/ (\E v \in Validators : Crash(v))
    BY <1>1, <1>5 DEF Loop, Wait, GetIDRange, ReadBlock, BroadcastCPA, StoreMeta, HandleReplies,
                      FetchSigs, AppendSig, BroadcastCPB, OrderingSendFails, Crash, ordVars
<1>6. CASE \E v \in CmtValidators : HandleCA(v) \/ HandleCB(v)
    BY <1>1, <1>2, <1>6 DEF HandleCA, HandleCB, CheckBlock, ReplyCA, FinishCA, DeliverCB, ordVars
<1>7. CASE UNCHANGED vars
    BY <1>1, <1>7 DEF vars, ordVars
<1> QED  BY <1>4, <1>5, <1>6, <1>7 DEF Next

LEMMA SignedStaysStep ==
    ASSUME CAInv, VoteInv, [Next]_vars
    PROVE  SignedStays
<1>1. CASE vHash' = vHash /\ ca \subseteq ca'
    BY <1>1, SignedStaysOutside
<1>2. ASSUME NEW m \in ca, StartCA(m) \/ CheckBlock(m) \/ ReplyCA(m)
      PROVE  SignedStays
    <2>1. m.pc # "token" /\ ca \ {m} \subseteq ca' /\ vHash' = vHash
        BY <1>2 DEF StartCA, CheckBlock, ReplyCA, AdvanceCA, validatorVars
    <2> QED  BY <2>1, SignedStaysOutside
<1>3. ASSUME NEW m \in ca, FinishCA(m) PROVE SignedStays
    <2>1. m.to \in Validators
        BY DEF CAInv, Validators
    <2>2. \A v \in CmtValidators :
              DOMAIN vHash'[v] = DOMAIN vHash[v] \cup (IF v = m.to THEN {m.inst} ELSE {})
        BY <1>3, <2>1 DEF FinishCA, VoteInv, Put, Validators
    <2>3. ca' = ca \ {m}
        BY <1>3 DEF FinishCA
    <2> QED  BY <2>2, <2>3 DEF SignedStays, Voters, HasSigned
<1>4. CASE Loop \/ HandleReplies \/ Ordering \/ OrderingSendFails \/ (\E v \in Validators : Crash(v))
    BY <1>1, <1>4 DEF Loop, Wait, GetIDRange, ReadBlock, BroadcastCPA, StoreMeta, HandleReplies,
                      FetchSigs, AppendSig, BroadcastCPB, Ordering, OrderingSendFails, Crash,
                      consVars, validatorVars
<1>5. CASE \E v \in CmtValidators : HandleCA(v) \/ HandleCB(v)
    BY <1>1, <1>2, <1>3, <1>5 DEF HandleCA, HandleCB, DeliverCB
<1>6. CASE UNCHANGED vars
    BY <1>1, <1>6 DEF vars, consVars, validatorVars
<1> QED  BY <1>4, <1>5, <1>6 DEF Next

-------------------------------------------------------------------------------
(***************************************************************************)
(* The CA handlers carry the blocks of their instance.                     *)
(***************************************************************************)

\* A handler in another place of its program is still that of its message.
Follows(k, m) ==
    /\ k = [to |-> k.to, inst |-> k.inst, bids |-> k.bids, rangeHash |-> k.rangeHash,
            prev |-> k.prev, pc |-> k.pc]
    /\ k.to = m.to /\ k.inst = m.inst /\ k.rangeHash = m.rangeHash /\ k.prev = m.prev
    /\ (m.pc = "recv" /\ k.pc # "recv") => StartCA(m)

\* Every handler after a step is one from before it, or starts with that step.
CASources ==
    \A k \in ca' :
        \/ \E m \in ca : Follows(k, m)
        \/ /\ BroadcastCPA
           /\ k = [to |-> k.to, inst |-> consInstID, bids |-> k.bids,
                   rangeHash |-> rangeHash, prev |-> k.prev, pc |-> "recv"]
           /\ k.to \in CmtValidators
           /\ k.prev = IF k.to \in NewMembers THEN resentOPB ELSE {}

LEMMA CASourcesStep ==
    ASSUME CAInv, [Next]_vars
    PROVE  CASources
<1>1. CASE ca' \subseteq ca
    BY <1>1 DEF CASources, CAInv, Follows
<1>2. CASE BroadcastCPA
    <2>1. \A k \in ca' : k \in ca \/ \E v \in Reached :
              k = [to |-> v, inst |-> consInstID, bids |-> blockIDRange,
                   rangeHash |-> rangeHash,
                   prev |-> IF v \in NewMembers THEN resentOPB ELSE {}, pc |-> "recv"]
        BY <1>2 DEF BroadcastCPA
    <2>2. Reached \subseteq CmtValidators
        BY DEF Reached
    <2> QED  BY <1>2, <2>1, <2>2 DEF CASources, CAInv, Follows
<1>3. ASSUME NEW m \in ca, StartCA(m) \/ CheckBlock(m) \/ ReplyCA(m) \/ FinishCA(m)
      PROVE  CASources
    <2>1. m = [to |-> m.to, inst |-> m.inst, bids |-> m.bids, rangeHash |-> m.rangeHash,
               prev |-> m.prev, pc |-> m.pc]
        BY DEF CAInv
    <2> DEFINE Started == m.pc = "recv" => StartCA(m)
    <2>2. Started
        BY <1>3 DEF CheckBlock, ReplyCA, FinishCA
    <2> HIDE DEF Started
    <2>3. \A pc : Follows([m EXCEPT !.pc = pc], m)
        BY <2>1, <2>2 DEF Follows, Started
    <2>4. ASSUME NEW bids, NEW pc, NEW k, k = [m EXCEPT !.bids = bids, !.pc = pc]
          PROVE  Follows(k, m)
        BY <2>1, <2>2, <2>4 DEF Follows, Started
    <2>5. \A k \in ca' : k \in ca \/ Follows(k, m)
        <3>1. CASE StartCA(m) \/ ReplyCA(m) \/ FinishCA(m)
            BY <2>3, <3>1 DEF StartCA, ReplyCA, FinishCA, AdvanceCA
        <3>2. CASE CheckBlock(m)
            <4> DEFINE next == [m EXCEPT !.bids = Tail(@),
                                         !.pc = IF Tail(m.bids) = <<>> THEN "reply" ELSE "check"]
            <4>1. ca' \subseteq ca \cup {next}
                BY <3>2 DEF CheckBlock
            <4>2. Follows(next, m)
                BY <2>4
            <4> QED  BY <4>1, <4>2
        <3> QED  BY <1>3, <3>1, <3>2
    <2> QED  BY <2>5 DEF CASources, CAInv, Follows
<1>4. CASE Wait \/ GetIDRange \/ ReadBlock \/ StoreMeta \/ HandleReplies \/ Ordering
               \/ OrderingSendFails \/ (\E v \in Validators : Crash(v)) \/ UNCHANGED vars
    BY <1>1, <1>4 DEF Wait, GetIDRange, ReadBlock, StoreMeta, HandleReplies, FetchSigs,
                      AppendSig, BroadcastCPB, Ordering, OrderingSendFails, Crash, vars, consVars
<1>5. CASE \E v \in CmtValidators : HandleCA(v) \/ HandleCB(v)
    BY <1>1, <1>3, <1>5 DEF HandleCA, HandleCB, DeliverCB
<1> QED  BY <1>2, <1>4, <1>5 DEF Next, Loop

LEMMA CAStep ==
    ASSUME LoopInv, CAInv, [Next]_vars
    PROVE  CAInv'
<1>1. Settled /\ CASources
    BY SettledStep, CASourcesStep
<1>2. ASSUME NEW k \in ca', NEW m \in ca, Follows(k, m)
      PROVE  k.to \in CmtValidators /\ Begun(k.inst)' /\ HashOf(k.inst)' = Digest(k.rangeHash)
    BY <1>1, <1>2 DEF CAInv, Follows, Settled
<1>3. ASSUME BroadcastCPA, NEW i, i = consInstID
      PROVE  Begun(i)' /\ HashOf(i)' = Digest(rangeHash)
    BY <1>3 DEF BroadcastCPA, Begun, HashOf, LoopInv
<1>4. ASSUME NEW k \in ca'
      PROVE  /\ k = [to |-> k.to, inst |-> k.inst, bids |-> k.bids, rangeHash |-> k.rangeHash,
                     prev |-> k.prev, pc |-> k.pc]
             /\ k.to \in CmtValidators
             /\ Begun(k.inst)'
             /\ HashOf(k.inst)' = Digest(k.rangeHash)
    BY <1>1, <1>2, <1>3 DEF CASources, Follows
<1> QED  BY <1>4 DEF CAInv

-------------------------------------------------------------------------------
(***************************************************************************)
(* Certificates.                                                           *)
(***************************************************************************)
LEMMA CertifiedStays ==
    ASSUME BlocksKept
    PROVE  /\ \A id, sig : Certified(id, sig) => Certified(id, sig)'
           /\ \A e : CertifiedEntry(e) => CertifiedEntry(e)'
<1>1. \A id, sig : Certified(id, sig) => Certified(id, sig)'
    BY OrderableStays DEF Certified
<1> QED  BY <1>1 DEF CertifiedEntry

\* The blocks of the proposer, and their certificates.
LEMMA SnapshotStep ==
    ASSUME CertInv, BlocksKept, [Next]_vars
    PROVE  /\ cmtSnapshot' = [id \in DOMAIN cmtSnapshot' |-> cmtSnapshot'[id]]
           /\ \A id \in DOMAIN cmtSnapshot' :
                  /\ cmtSnapshot'[id] \in [hash : BlockHashes, tSig : OrdSigs]
                  /\ Certified(id, cmtSnapshot[id].tSig)'
<1> DEFINE Snapshot ==
        /\ cmtSnapshot = [id \in DOMAIN cmtSnapshot |-> cmtSnapshot[id]]
        /\ \A id \in DOMAIN cmtSnapshot :
               /\ cmtSnapshot[id] \in [hash : BlockHashes, tSig : OrdSigs]
               /\ Certified(id, cmtSnapshot[id].tSig)
<1>1. Snapshot
    BY DEF CertInv
<1>2. CASE UNCHANGED cmtSnapshot
    BY <1>1, <1>2, CertifiedStays
<1>3. ASSUME NEW id \in BlockIds, NEW hash \in BlockHashes, FormBlock(id, hash)
      PROVE  Snapshot'
    <2>1. cmtSnapshot' = Put(cmtSnapshot, id, [hash |-> hash, tSig |-> NoSig])
        BY <1>3 DEF FormBlock
    <2>2. \A g : NoSig # CombSig(g)
        BY DEF NoSig, CombSig
    <2>3. NoSig \in OrdSigs
        BY DEF OrdSigs
    <2>4. Certified(id, NoSig)'
        BY <2>2 DEF Certified
    <2>5. ASSUME NEW x \in DOMAIN cmtSnapshot'
          PROVE  /\ cmtSnapshot'[x] \in [hash : BlockHashes, tSig : OrdSigs]
                 /\ Certified(x, cmtSnapshot[x].tSig)'
        <3>1. CASE x = id
            BY <2>1, <2>3, <2>4, <3>1 DEF Put
        <3>2. CASE x # id
            <4>1. x \in DOMAIN cmtSnapshot /\ cmtSnapshot'[x] = cmtSnapshot[x]
                BY <2>1, <3>2 DEF Put
            <4> QED  BY <1>1, <4>1, CertifiedStays
        <3> QED  BY <3>1, <3>2
    <2> QED  BY <2>1, <2>5 DEF Put
<1>4. ASSUME NEW id \in BlockIds, NEW hash \in BlockHashes, StoreOrderSig(id, hash)
      PROVE  Snapshot'
    <2>1. /\ cmtSnapshot' = [cmtSnapshot EXCEPT ![id].tSig = CombSig(hash)]
          /\ OrderableAs(id, hash)
        BY <1>4 DEF StoreOrderSig
    <2>2. CombSig(hash) \in OrdSigs
        BY DEF CombSig, OrdSigs
    <2>3. Certified(id, CombSig(hash))
        BY <2>1 DEF Certified, CombSig
    <2>4. ASSUME NEW x \in DOMAIN cmtSnapshot'
          PROVE  /\ cmtSnapshot'[x] \in [hash : BlockHashes, tSig : OrdSigs]
                 /\ Certified(x, cmtSnapshot[x].tSig)'
        <3>1. x \in DOMAIN cmtSnapshot
            BY <2>1
        <3>2. CASE x = id
            <4>1. cmtSnapshot'[x] = [cmtSnapshot[id] EXCEPT !.tSig = CombSig(hash)]
                BY <2>1, <3>1, <3>2
            <4>2. cmtSnapshot'[x].tSig = CombSig(hash)
                BY <1>1, <3>1, <3>2, <4>1
            <4>3. cmtSnapshot'[x] \in [hash : BlockHashes, tSig : OrdSigs]
                BY <1>1, <2>2, <3>1, <3>2, <4>1
            <4> QED  BY <2>3, <3>2, <4>2, <4>3, CertifiedStays
        <3>3. CASE x # id
            <4>1. cmtSnapshot'[x] = cmtSnapshot[x]
                BY <2>1, <3>1, <3>3
            <4> QED  BY <1>1, <3>1, <4>1, CertifiedStays
        <3> QED  BY <3>2, <3>3
    <2> QED  BY <2>1, <2>4
<1>5. CASE Ordering
    BY <1>2, <1>3, <1>4, <1>5 DEF Ordering, ProposerOrders, ValidatorOrders, StoreBlock,
                                  RecordBlock, BlockOB
<1>6. CASE Loop \/ HandleReplies \/ OrderingSendFails \/ (\E v \in Validators : Crash(v))
    BY <1>2, <1>6 DEF Loop, Wait, GetIDRange, ReadBlock, BroadcastCPA, StoreMeta, HandleReplies,
                      FetchSigs, AppendSig, BroadcastCPB, OrderingSendFails, Crash, ordVars
<1>7. CASE \E v \in CmtValidators : HandleCA(v) \/ HandleCB(v)
    BY <1>2, <1>7 DEF HandleCA, HandleCB, StartCA, CheckBlock, ReplyCA, FinishCA, DeliverCB,
                      ordVars
<1>8. CASE UNCHANGED vars
    BY <1>2, <1>8 DEF vars, ordVars
<1> QED  BY <1>5, <1>6, <1>7, <1>8 DEF Next

\* The entries collected for the new members.
LEMMA ResentStep ==
    ASSUME CertInv, BlocksKept, [Next]_vars
    PROVE  \A e \in resentOPB' : CertifiedEntry(e)'
<1>1. CASE resentOPB' \subseteq resentOPB
    BY <1>1, CertifiedStays DEF CertInv
<1>2. CASE ReadBlock
    <2> DEFINE id == Head(unread)
               e == [id |-> id, hash |-> cmtSnapshot[id].hash, sig |-> cmtSnapshot[id].tSig]
    <2>1. CASE id \in DOMAIN cmtSnapshot
        <3>1. resentOPB' \subseteq resentOPB \cup {e}
            BY <1>2, <2>1 DEF ReadBlock
        <3>2. CertifiedEntry(e)
            BY <2>1 DEF CertInv, CertifiedEntry
        <3> QED  BY <3>1, <3>2, CertifiedStays DEF CertInv
    <2>2. CASE id \notin DOMAIN cmtSnapshot
        BY <1>1, <1>2, <2>2 DEF ReadBlock
    <2> QED  BY <2>1, <2>2
<1>3. CASE GetIDRange
    BY <1>1, <1>3 DEF GetIDRange
<1>4. CASE Wait \/ BroadcastCPA \/ StoreMeta \/ HandleReplies \/ OrderingSendFails
               \/ (\E v \in Validators : Crash(v))
    BY <1>1, <1>4 DEF Wait, BroadcastCPA, StoreMeta, HandleReplies, FetchSigs, AppendSig,
                      BroadcastCPB, OrderingSendFails, Crash, loopVars
<1>5. CASE \E v \in CmtValidators : HandleCA(v) \/ HandleCB(v)
    BY <1>1, <1>5 DEF HandleCA, HandleCB, StartCA, CheckBlock, ReplyCA, FinishCA, DeliverCB,
                      loopVars
<1>6. CASE Ordering \/ UNCHANGED vars
    BY <1>1, <1>6 DEF Ordering, vars, consVars, loopVars
<1> QED  BY <1>2, <1>3, <1>4, <1>5, <1>6 DEF Next, Loop

\* The blocks of the validators: a new member stores those with a certificate.
LEMMA NewMembersStep ==
    ASSUME CAInv, CertInv, BlocksKept, [Next]_vars
    PROVE  vCmt' = [v \in Validators |-> vCmt'[v]] /\ SyncedCertified'
<1>1. CASE UNCHANGED vCmt
    BY <1>1, OrderableStays DEF CertInv, SyncedCertified
<1>2. ASSUME NEW m \in ca, StartCA(m)
      PROVE  vCmt' = [v \in Validators |-> vCmt'[v]] /\ SyncedCertified'
    <2> DEFINE synced == Synced(m.prev)
               ids == {e.id : e \in synced}
               new == [id \in DOMAIN vCmt[m.to] \cup ids |->
                          IF id \in ids THEN (CHOOSE e \in synced : e.id = id).hash
                          ELSE vCmt[m.to][id]]
    <2>1. vCmt' = [vCmt EXCEPT ![m.to] = new]
        BY <1>2 DEF StartCA
    <2>2. vCmt' = [v \in Validators |-> vCmt'[v]]
        BY <2>1 DEF CertInv
    <2>3. \A e \in synced : OrderableAs(e.id, e.hash)
        BY DEF CertInv, CertifiedEntry, Certified, Synced, PenVerify
    <2>4. ASSUME NEW v \in NewMembers, NEW id \in DOMAIN vCmt'[v]
          PROVE  OrderableAs(id, vCmt'[v][id])
        <3>1. CASE v # m.to
            BY <2>1, <3>1 DEF CertInv, SyncedCertified, NewMembers, Validators
        <3>2. CASE v = m.to
            <4>1. vCmt'[v] = new
                BY <2>1, <3>2 DEF CertInv, NewMembers, Validators
            <4>2. CASE id \in ids
                <5>1. PICK e \in synced : e.id = id
                    BY <4>2
                <5> DEFINE first == CHOOSE d \in synced : d.id = id
                <5>2. first \in synced /\ first.id = id
                    BY <5>1
                <5>3. vCmt'[v][id] = first.hash
                    BY <4>1, <4>2
                <5> HIDE DEF first
                <5> QED  BY <2>3, <5>2, <5>3
            <4>3. CASE id \notin ids
                <5>1. id \in DOMAIN vCmt[v] /\ vCmt'[v][id] = vCmt[v][id]
                    BY <3>2, <4>1, <4>3
                <5> QED  BY <5>1 DEF CertInv, SyncedCertified
            <4> QED  BY <4>2, <4>3
        <3> QED  BY <3>1, <3>2
    <2> QED  BY <2>2, <2>4, OrderableStays DEF SyncedCertified
<1>3. ASSUME NEW v \in OrdValidators, NEW id, NEW hash, StoreBlock(v, id, hash)
      PROVE  vCmt' = [u \in Validators |-> vCmt'[u]] /\ SyncedCertified'
    <2>1. \A u \in NewMembers : vCmt'[u] = vCmt[u]
        BY <1>3 DEF StoreBlock, CertInv, NewMembers, Validators
    <2>2. SyncedCertified'
        BY <2>1, OrderableStays DEF CertInv, SyncedCertified
    <2> QED  BY <1>3, <2>2 DEF StoreBlock, CertInv
<1>4. CASE Ordering
    BY <1>1, <1>3, <1>4 DEF Ordering, ProposerOrders, ValidatorOrders, FormBlock, RecordBlock,
                            StoreOrderSig, BlockOB
<1>5. CASE Loop \/ HandleReplies \/ OrderingSendFails \/ (\E v \in Validators : Crash(v))
    BY <1>1, <1>5 DEF Loop, Wait, GetIDRange, ReadBlock, BroadcastCPA, StoreMeta, HandleReplies,
                      FetchSigs, AppendSig, BroadcastCPB, OrderingSendFails, Crash, ordVars
<1>6. CASE \E v \in CmtValidators : HandleCA(v) \/ HandleCB(v)
    BY <1>1, <1>2, <1>6 DEF HandleCA, HandleCB, CheckBlock, ReplyCA, FinishCA, DeliverCB, ordVars
<1>7. CASE UNCHANGED vars
    BY <1>1, <1>7 DEF vars, ordVars
<1> QED  BY <1>4, <1>5, <1>6, <1>7 DEF Next

LEMMA CertStep ==
    ASSUME LoopInv, CAInv, CertInv, [Next]_vars
    PROVE  CertInv'
<1>1. BlocksKept /\ CASources
    BY BlocksKeptStep, CASourcesStep
<1>2. ASSUME NEW k \in ca'
      PROVE  /\ k.to \in OrdValidators => k.prev = {}
             /\ \A e \in k.prev : CertifiedEntry(e)'
    <2>1. CASE \E m \in ca : Follows(k, m)
        BY <1>1, <2>1, CertifiedStays DEF CertInv, Follows
    <2>2. CASE k.prev = IF k.to \in NewMembers THEN resentOPB ELSE {}
        BY <1>1, <2>2, CertifiedStays DEF CertInv, NewMembers
    <2> QED  BY <1>1, <2>1, <2>2 DEF CASources
<1>3. /\ cmtSnapshot' = [id \in DOMAIN cmtSnapshot' |-> cmtSnapshot'[id]]
      /\ \A id \in DOMAIN cmtSnapshot' :
             /\ cmtSnapshot'[id] \in [hash : BlockHashes, tSig : OrdSigs]
             /\ Certified(id, cmtSnapshot[id].tSig)'
    BY <1>1, SnapshotStep
<1>4. \A e \in resentOPB' : CertifiedEntry(e)'
    BY <1>1, ResentStep
<1>5. vCmt' = [v \in Validators |-> vCmt'[v]] /\ SyncedCertified'
    BY <1>1, NewMembersStep
<1> QED  BY <1>2, <1>3, <1>4, <1>5 DEF CertInv

-------------------------------------------------------------------------------
(***************************************************************************)
(* Deliveries.                                                             *)
(***************************************************************************)

\* The blocks a validator has found for an instance are those of its hash.
FoundOf(i, es) == \A e \in es : e = [id |-> e.id, hash |-> HashOf(i)[2][e.id]]

LEMMA FoundStays ==
    ASSUME Settled, NEW i, Begun(i), NEW es, FoundOf(i, es)
    PROVE  Begun(i)' /\ FoundOf(i, es)'
BY DEF Settled, FoundOf

LEMMA FoundStep ==
    ASSUME CAInv, TxInv, Settled, [Next]_vars
    PROVE  /\ tx' = [v \in Validators |-> tx'[v]]
           /\ \A v \in CmtValidators :
                  /\ DOMAIN tx[v] \subseteq DOMAIN tx'[v]
                  /\ \A i \in DOMAIN tx'[v] : Begun(i)' /\ FoundOf(i, tx[v][i])'
<1> DEFINE Goal == /\ tx' = [v \in Validators |-> tx'[v]]
                   /\ \A v \in CmtValidators :
                          /\ DOMAIN tx[v] \subseteq DOMAIN tx'[v]
                          /\ \A i \in DOMAIN tx'[v] : Begun(i)' /\ FoundOf(i, tx[v][i])'
<1>1. \A v \in CmtValidators :
          v \in Validators /\ \A i \in DOMAIN tx[v] : Begun(i) /\ FoundOf(i, tx[v][i])
    BY DEF TxInv, Validators, FoundOf
<1>2. CASE UNCHANGED tx
    BY <1>1, <1>2, FoundStays DEF TxInv
<1>3. ASSUME NEW m \in ca, NEW es, FoundOf(m.inst, es), NEW t,
             DOMAIN t = DOMAIN tx[m.to] \cup {m.inst},
             t[m.inst] = es,
             \A i \in DOMAIN tx[m.to] : i # m.inst => t[i] = tx[m.to][i],
             tx' = [tx EXCEPT ![m.to] = t]
      PROVE  Goal
    <2>1. m.to \in CmtValidators /\ Begun(m.inst)
        BY DEF CAInv
    <2>2. tx'[m.to] = t /\ \A v \in CmtValidators : v # m.to => tx'[v] = tx[v]
        BY <1>1, <1>3, <2>1 DEF TxInv
    <2>3. ASSUME NEW v \in CmtValidators, NEW i \in DOMAIN tx'[v]
          PROVE  Begun(i)' /\ FoundOf(i, tx[v][i])'
        <3>1. CASE v = m.to /\ i = m.inst
            BY <1>3, <2>1, <2>2, <3>1, FoundStays
        <3>2. CASE ~(v = m.to /\ i = m.inst)
            <4>1. i \in DOMAIN tx[v] /\ tx'[v][i] = tx[v][i]
                BY <1>3, <2>2, <3>2
            <4> QED  BY <1>1, <4>1, FoundStays
        <3> QED  BY <3>1, <3>2
    <2>4. \A v \in CmtValidators : DOMAIN tx[v] \subseteq DOMAIN tx'[v]
        BY <1>3, <2>2
    <2>5. tx' = [v \in Validators |-> tx'[v]]
        BY <1>3 DEF TxInv
    <2> QED  BY <2>3, <2>4, <2>5
<1> HIDE DEF Goal
<1>4. ASSUME NEW m \in ca, StartCA(m) PROVE Goal
    <2> DEFINE t == Put(tx[m.to], m.inst, {})
    <2>1. tx' = [tx EXCEPT ![m.to] = t]
        BY <1>4 DEF StartCA
    <2>2. /\ DOMAIN t = DOMAIN tx[m.to] \cup {m.inst}
          /\ t[m.inst] = {}
          /\ \A i \in DOMAIN tx[m.to] : i # m.inst => t[i] = tx[m.to][i]
        BY DEF Put
    <2>3. FoundOf(m.inst, {})
        BY DEF FoundOf
    <2> HIDE DEF t
    <2> QED  BY <1>3, <2>1, <2>2, <2>3
<1>5. ASSUME NEW m \in ca, CheckBlock(m), ~UNCHANGED tx PROVE Goal
    <2> DEFINE e == [id |-> Head(m.bids), hash |-> vCmt[m.to][Head(m.bids)]]
               es == tx[m.to][m.inst] \cup {e}
               t == [tx[m.to] EXCEPT ![m.inst] = es]
    <2>1. /\ tx' = [tx EXCEPT ![m.to] = t]
          /\ ~Mismatch(m.to, Head(m.bids), m.rangeHash)
          /\ m.pc = "check"
        BY <1>5 DEF CheckBlock
    <2>2. m.to \in CmtValidators /\ m.inst \in DOMAIN tx[m.to]
        BY <2>1 DEF TxInv, CAInv
    <2>3. HashOf(m.inst)[2] = m.rangeHash
        BY DEF CAInv, Digest
    <2>4. FoundOf(m.inst, es)
        <3>1. e.hash = HashOf(m.inst)[2][e.id]
            BY <2>1, <2>3 DEF Mismatch
        <3>2. e = [id |-> e.id, hash |-> HashOf(m.inst)[2][e.id]]
            BY <3>1
        <3>3. FoundOf(m.inst, tx[m.to][m.inst])
            BY <1>1, <2>2
        <3> HIDE DEF e
        <3> QED  BY <3>2, <3>3 DEF FoundOf
    <2>5. /\ DOMAIN t = DOMAIN tx[m.to] \cup {m.inst}
          /\ t[m.inst] = es
          /\ \A i \in DOMAIN tx[m.to] : i # m.inst => t[i] = tx[m.to][i]
        BY <2>2
    <2> HIDE DEF t, es
    <2> QED  BY <1>3, <2>1, <2>4, <2>5
<1>6. CASE Loop \/ HandleReplies \/ Ordering \/ OrderingSendFails
               \/ (\E v \in Validators : Crash(v)) \/ UNCHANGED vars
    <2>1. UNCHANGED tx
        BY <1>6 DEF Loop, Wait, GetIDRange, ReadBlock, BroadcastCPA, StoreMeta, HandleReplies,
                    FetchSigs, AppendSig, BroadcastCPB, Ordering, OrderingSendFails, Crash,
                    vars, consVars, validatorVars
    <2> QED  BY <1>2, <2>1 DEF Goal
<1>7. CASE \E v \in CmtValidators : HandleCA(v) \/ HandleCB(v)
    <2>1. CASE \E m \in ca : StartCA(m) \/ CheckBlock(m)
        BY <1>2, <1>4, <1>5, <2>1 DEF Goal
    <2>2. CASE ~\E m \in ca : StartCA(m) \/ CheckBlock(m)
        <3>1. UNCHANGED tx
            BY <1>7, <2>2 DEF HandleCA, HandleCB, ReplyCA, FinishCA, DeliverCB, validatorVars
        <3> QED  BY <1>2, <3>1 DEF Goal
    <2> QED  BY <2>1, <2>2
<1> QED  BY <1>6, <1>7 DEF Next

\* The tokens and the deliveries of a validator are of instances it has looked up.
LEMMA JobsStep ==
    ASSUME CAInv, TxInv, [Next]_vars
    PROVE  /\ consJobs' = [v \in Validators |-> consJobs'[v]]
           /\ stored' = [v \in Validators |-> stored'[v]]
           /\ \A v \in CmtValidators : consJobs'[v] \cup stored'[v] \subseteq DOMAIN tx[v]
<1>1. CASE UNCHANGED <<consJobs, stored>>
    BY <1>1 DEF TxInv
<1>2. ASSUME NEW m \in ca, FinishCA(m)
      PROVE  /\ consJobs' = [v \in Validators |-> consJobs'[v]]
             /\ stored' = [v \in Validators |-> stored'[v]]
             /\ \A v \in CmtValidators : consJobs'[v] \cup stored'[v] \subseteq DOMAIN tx[v]
    <2>1. m.inst \in DOMAIN tx[m.to] /\ m.to \in CmtValidators
        BY <1>2 DEF FinishCA, TxInv, CAInv
    <2>2. consJobs' = [consJobs EXCEPT ![m.to] = @ \cup {m.inst}] /\ UNCHANGED stored
        BY <1>2 DEF FinishCA, WithToken, TxInv
    <2> QED  BY <2>1, <2>2 DEF TxInv, Validators
<1>3. ASSUME NEW m \in cb, m.to \in CmtValidators, DeliverCB(m)
      PROVE  /\ consJobs' = [v \in Validators |-> consJobs'[v]]
             /\ stored' = [v \in Validators |-> stored'[v]]
             /\ \A v \in CmtValidators : consJobs'[v] \cup stored'[v] \subseteq DOMAIN tx[v]
    <2>1. /\ m.inst \in consJobs[m.to]
          /\ consJobs' = [consJobs EXCEPT ![m.to] = @ \ {m.inst}]
          /\ stored' = stored \/ stored' = [stored EXCEPT ![m.to] = @ \cup {m.inst}]
        BY <1>3 DEF DeliverCB
    <2>2. m.inst \in DOMAIN tx[m.to] /\ m.to \in Validators
        BY <1>3, <2>1 DEF TxInv, Validators
    <2>3. /\ consJobs' = [v \in Validators |-> consJobs'[v]]
          /\ \A v \in Validators : consJobs'[v] \subseteq consJobs[v]
        BY <2>1, <2>2 DEF TxInv
    <2>4. /\ stored' = [v \in Validators |-> stored'[v]]
          /\ \A v \in Validators :
                 stored'[v] \subseteq stored[v] \cup (IF v = m.to THEN {m.inst} ELSE {})
        <3>1. CASE stored' = stored
            BY <3>1 DEF TxInv
        <3>2. CASE stored' = [stored EXCEPT ![m.to] = @ \cup {m.inst}]
            BY <2>2, <3>2 DEF TxInv
        <3> QED  BY <2>1, <3>1, <3>2
    <2>5. \A v \in CmtValidators : v \in Validators /\ consJobs[v] \cup stored[v] \subseteq DOMAIN tx[v]
        BY DEF TxInv, Validators
    <2> QED  BY <2>2, <2>3, <2>4, <2>5
<1>4. CASE Loop \/ HandleReplies \/ Ordering \/ OrderingSendFails
               \/ (\E v \in Validators : Crash(v)) \/ UNCHANGED vars
    BY <1>1, <1>4 DEF Loop, Wait, GetIDRange, ReadBlock, BroadcastCPA, StoreMeta, HandleReplies,
                      FetchSigs, AppendSig, BroadcastCPB, Ordering, OrderingSendFails, Crash,
                      vars, consVars, validatorVars
<1>5. CASE \E v \in CmtValidators : HandleCA(v) \/ HandleCB(v)
    BY <1>1, <1>2, <1>3, <1>5 DEF HandleCA, HandleCB, StartCA, CheckBlock, ReplyCA,
                                  validatorVars
<1> QED  BY <1>4, <1>5 DEF Next

LEMMA TxStep ==
    ASSUME LoopInv, CAInv, TxInv, [Next]_vars
    PROVE  TxInv'
<1>1. Settled /\ CASources
    BY SettledStep, CASourcesStep
<1>2. /\ tx' = [v \in Validators |-> tx'[v]]
      /\ \A v \in CmtValidators :
             /\ DOMAIN tx[v] \subseteq DOMAIN tx'[v]
             /\ \A i \in DOMAIN tx'[v] : Begun(i)' /\ FoundOf(i, tx[v][i])'
    BY <1>1, FoundStep
<1>3. \A v \in CmtValidators : consJobs'[v] \cup stored'[v] \subseteq DOMAIN tx'[v]
    BY <1>2, JobsStep
<1>4. ASSUME NEW k \in ca', k.pc # "recv"
      PROVE  k.inst \in DOMAIN tx'[k.to]
    <2>1. PICK m \in ca : Follows(k, m)
        BY <1>1, <1>4 DEF CASources
    <2>2. m.to \in CmtValidators /\ m.to \in Validators
        BY DEF CAInv, Validators
    <2>3. CASE m.pc = "recv"
        <3>1. tx' = [tx EXCEPT ![m.to] = Put(@, m.inst, {})]
            BY <1>4, <2>1, <2>3 DEF Follows, StartCA
        <3> QED  BY <2>1, <2>2, <3>1 DEF Follows, TxInv, Put
    <2>4. CASE m.pc # "recv"
        BY <1>2, <2>1, <2>2, <2>4 DEF Follows, TxInv
    <2> QED  BY <2>3, <2>4
<1> QED  BY <1>2, <1>3, <1>4, JobsStep DEF TxInv, FoundOf

-------------------------------------------------------------------------------
(***************************************************************************)
(* Votes and commits.                                                      *)
(***************************************************************************)
LEMMA ValidStays ==
    ASSUME Settled, SignedStays, NEW i, Begun(i), NEW s, Valid(s, i)
    PROVE  Begun(i)' /\ Valid(s, i)'
BY DEF Settled, SignedStays, Valid

\* An instance whose hash the proposer has stored has begun.
LEMMA StoredBegun ==
    ASSUME LoopInv, NEW i \in DOMAIN metaHash
    PROVE  Begun(i) /\ HashOf(i) = metaHash[i]
BY DEF LoopInv, Begun, HashOf

\* The hashes of the validators.
LEMMA VHashStep ==
    ASSUME CAInv, VoteInv, Settled, [Next]_vars
    PROVE  /\ vHash' = [v \in Validators |-> vHash'[v]]
           /\ \A v \in CmtValidators : \A i \in DOMAIN vHash'[v] :
                  Begun(i)' /\ vHash'[v][i] = HashOf(i)'
<1>1. CASE UNCHANGED vHash
    BY <1>1 DEF VoteInv, Settled
<1>2. ASSUME NEW m \in ca, FinishCA(m)
      PROVE  /\ vHash' = [v \in Validators |-> vHash'[v]]
             /\ \A v \in CmtValidators : \A i \in DOMAIN vHash'[v] :
                    Begun(i)' /\ vHash'[v][i] = HashOf(i)'
    <2>1. vHash' = [vHash EXCEPT ![m.to] = Put(@, m.inst, HashOf(m.inst))]
        BY <1>2 DEF FinishCA, CAInv
    <2>2. m.to \in CmtValidators /\ m.to \in Validators /\ Begun(m.inst)
        BY DEF CAInv, Validators
    <2>3. vHash' = [v \in Validators |-> vHash'[v]]
        BY <2>1 DEF VoteInv
    <2>4. ASSUME NEW v \in CmtValidators, NEW i \in DOMAIN vHash'[v]
          PROVE  Begun(i) /\ vHash'[v][i] = HashOf(i)
        <3>1. CASE v = m.to
            <4>1. vHash'[v] = Put(vHash[v], m.inst, HashOf(m.inst))
                BY <2>1, <2>2, <3>1 DEF VoteInv
            <4> QED  BY <2>2, <4>1 DEF VoteInv, Put
        <3>2. CASE v # m.to
            <4>1. vHash'[v] = vHash[v]
                BY <2>1, <3>2 DEF VoteInv, Validators
            <4> QED  BY <4>1 DEF VoteInv
        <3> QED  BY <3>1, <3>2
    <2> QED  BY <2>3, <2>4 DEF Settled
<1>3. CASE Loop \/ HandleReplies \/ Ordering \/ OrderingSendFails
               \/ (\E v \in Validators : Crash(v)) \/ UNCHANGED vars
    BY <1>1, <1>3 DEF Loop, Wait, GetIDRange, ReadBlock, BroadcastCPA, StoreMeta, HandleReplies,
                      FetchSigs, AppendSig, BroadcastCPB, Ordering, OrderingSendFails, Crash,
                      vars, consVars, validatorVars
<1>4. CASE \E v \in CmtValidators : HandleCA(v) \/ HandleCB(v)
    BY <1>1, <1>2, <1>4 DEF HandleCA, HandleCB, StartCA, CheckBlock, ReplyCA, DeliverCB,
                            validatorVars
<1> QED  BY <1>3, <1>4 DEF Next

\* The replies, and the shares the proposer keeps.
ReplyOk(r) ==
    /\ r = [inst |-> r.inst, pc |-> r.pc, seen |-> r.seen, sig |-> r.sig]
    /\ Begun(r.inst)
    /\ Valid(r.sig, r.inst)
    /\ \A s \in r.seen : Valid(s, r.inst)
    /\ r.pc = "append" => r.inst \in DOMAIN metaHash

LEMMA ReplyOkStays ==
    ASSUME Settled, SignedStays, NEW r, ReplyOk(r)
    PROVE  ReplyOk(r)'
<1>1. \A s : Valid(s, r.inst) => Begun(r.inst)' /\ Valid(s, r.inst)'
    BY ValidStays DEF ReplyOk
<1> QED  BY <1>1 DEF ReplyOk, Settled

\* A reply, or a commit entry, with some fields changed keeps the others.
LEMMA EditedReply ==
    ASSUME NEW r, r = [inst |-> r.inst, pc |-> r.pc, seen |-> r.seen, sig |-> r.sig],
           NEW s, NEW q, q = [r EXCEPT !.pc = "append", !.seen = s]
    PROVE  /\ q = [inst |-> q.inst, pc |-> q.pc, seen |-> q.seen, sig |-> q.sig]
           /\ q.inst = r.inst
           /\ q.pc = "append"
           /\ q.seen = s
           /\ q.sig = r.sig
OBVIOUS

LEMMA EditedCommit ==
    ASSUME NEW c, c = [inst |-> c.inst, hash |-> c.hash, by |-> c.by, sent |-> c.sent],
           NEW d, d = [c EXCEPT !.sent = TRUE]
    PROVE  /\ d = [inst |-> d.inst, hash |-> d.hash, by |-> d.by, sent |-> d.sent]
           /\ d.inst = c.inst
           /\ d.hash = c.hash
OBVIOUS

LEMMA RepliesStep ==
    ASSUME LoopInv, CAInv, VoteInv, Settled, SignedStays, [Next]_vars
    PROVE  \A r \in cpaReplies' : ReplyOk(r)'
<1>1. \A r \in cpaReplies : ReplyOk(r)
    BY DEF VoteInv, ReplyOk
<1>2. CASE cpaReplies' \subseteq cpaReplies
    BY <1>1, <1>2, ReplyOkStays
<1>3. ASSUME NEW r \in cpaReplies, FetchSigs(r)
      PROVE  \A q \in cpaReplies' : ReplyOk(q)'
    <2> DEFINE seen == SigsOf(r.inst)
    <2>1. CASE r.inst \in DOMAIN metaHash
        <3>1. \A s \in seen : Valid(s, r.inst)
            BY DEF VoteInv, SigsOf
        <3> HIDE DEF seen
        <3>2. ASSUME NEW q, q = [r EXCEPT !.pc = "append", !.seen = seen]
              PROVE  ReplyOk(q)
            <4>1. r = [inst |-> r.inst, pc |-> r.pc, seen |-> r.seen, sig |-> r.sig]
                BY <1>1 DEF ReplyOk
            <4>2. /\ q = [inst |-> q.inst, pc |-> q.pc, seen |-> q.seen, sig |-> q.sig]
                  /\ q.inst = r.inst
                  /\ q.pc = "append"
                  /\ q.seen = seen
                  /\ q.sig = r.sig
                BY <3>2, <4>1, EditedReply
            <4> QED  BY <1>1, <2>1, <3>1, <4>2 DEF ReplyOk
        <3>3. \A q \in cpaReplies' :
                  q \in cpaReplies \/ q = [r EXCEPT !.pc = "append", !.seen = seen]
            BY <1>3 DEF FetchSigs, seen
        <3> QED  BY <1>1, <3>2, <3>3, ReplyOkStays
    <2>2. CASE r.inst \notin DOMAIN metaHash
        BY <1>2, <1>3, <2>2 DEF FetchSigs
    <2> QED  BY <2>1, <2>2
<1>4. ASSUME NEW m \in ca, ReplyCA(m)
      PROVE  \A q \in cpaReplies' : ReplyOk(q)'
    <2> DEFINE q == [inst |-> m.inst, pc |-> "fetch", seen |-> {},
                     sig |-> PenSign(m.to, Digest(m.rangeHash))]
    <2>1. cpaReplies' \subseteq cpaReplies \cup {q}
        BY <1>4 DEF ReplyCA
    <2>2. Begun(m.inst)' /\ HashOf(m.inst)' = Digest(m.rangeHash) /\ m.to \in CmtValidators
        BY DEF CAInv, Settled
    <2>3. \E k \in ca' : k.to = m.to /\ k.inst = m.inst /\ k.pc = "token"
        <3>1. [m EXCEPT !.pc = "token"] \in ca'
            BY <1>4 DEF ReplyCA, AdvanceCA
        <3>2. ASSUME NEW k, k = [m EXCEPT !.pc = "token"]
              PROVE  k.to = m.to /\ k.inst = m.inst /\ k.pc = "token"
            BY <3>2 DEF CAInv
        <3> QED  BY <3>1, <3>2
    <2>4. m.to \in Voters(m.inst)'
        BY <2>2, <2>3 DEF Voters, HasSigned
    <2>5. ReplyOk(q)'
        BY <2>2, <2>4 DEF ReplyOk, Valid, PenSign
    <2> HIDE DEF q
    <2> QED  BY <1>1, <2>1, <2>5, ReplyOkStays
<1>5. CASE HandleReplies
    BY <1>2, <1>3, <1>5 DEF HandleReplies, AppendSig, BroadcastCPB
<1>6. CASE \E v \in CmtValidators : HandleCA(v) \/ HandleCB(v)
    BY <1>2, <1>4, <1>6 DEF HandleCA, HandleCB, StartCA, CheckBlock, FinishCA, DeliverCB,
                            replyVars
<1>7. CASE Loop \/ Ordering \/ OrderingSendFails \/ (\E v \in Validators : Crash(v))
               \/ UNCHANGED vars
    BY <1>2, <1>7 DEF Loop, Wait, GetIDRange, ReadBlock, BroadcastCPA, StoreMeta, Ordering,
                      OrderingSendFails, Crash, vars, consVars, replyVars
<1> QED  BY <1>5, <1>6, <1>7 DEF Next

SigsOk == \A i \in DOMAIN metaSigs :
    i \in DOMAIN metaHash /\ \A s \in metaSigs[i] : Valid(s, i)

LEMMA SigsStep ==
    ASSUME LoopInv, VoteInv, Settled, SignedStays, [Next]_vars
    PROVE  SigsOk'
<1>1. ASSUME NEW i \in DOMAIN metaHash, NEW s, Valid(s, i)
      PROVE  i \in DOMAIN metaHash' /\ Valid(s, i)'
    BY <1>1, StoredBegun, ValidStays DEF Settled
<1>2. CASE UNCHANGED metaSigs
    BY <1>1, <1>2 DEF VoteInv, SigsOk, Settled
<1>3. ASSUME NEW r \in cpaReplies, AppendSig(r) PROVE SigsOk'
    <2>1. metaSigs' = Put(metaSigs, r.inst, r.seen \cup {r.sig}) /\ r.inst \in DOMAIN metaHash
        BY <1>3 DEF AppendSig, VoteInv
    <2>2. \A s \in r.seen \cup {r.sig} : Valid(s, r.inst)
        BY DEF VoteInv
    <2>3. ASSUME NEW i \in DOMAIN metaSigs'
          PROVE  i \in DOMAIN metaHash /\ \A s \in metaSigs'[i] : Valid(s, i)
        BY <2>1, <2>2 DEF VoteInv, Put
    <2> QED  BY <1>1, <2>3 DEF SigsOk, Settled
<1>4. CASE HandleReplies
    BY <1>2, <1>3, <1>4 DEF HandleReplies, FetchSigs, BroadcastCPB, metaVars
<1>5. CASE \E v \in CmtValidators : HandleCA(v) \/ HandleCB(v)
    BY <1>2, <1>5 DEF HandleCA, HandleCB, StartCA, CheckBlock, ReplyCA, FinishCA, DeliverCB,
                      metaVars
<1>6. CASE Loop \/ Ordering \/ OrderingSendFails \/ (\E v \in Validators : Crash(v))
               \/ UNCHANGED vars
    BY <1>2, <1>6 DEF Loop, Wait, GetIDRange, ReadBlock, BroadcastCPA, StoreMeta, Ordering,
                      OrderingSendFails, Crash, vars, consVars, metaVars
<1> QED  BY <1>4, <1>5, <1>6 DEF Next

\* The commits: Threshold valid shares come from as many members.
CommitOk(c) ==
    /\ c = [inst |-> c.inst, hash |-> c.hash, by |-> c.by, sent |-> c.sent]
    /\ c.inst \in DOMAIN metaHash
    /\ c.hash = metaHash[c.inst]
    /\ Cardinality(Voters(c.inst)) >= OrdThresh

LEMMA ThreshInt == OrdThresh \in Int
BY ConsensusAssumption, FS_CardinalityType DEF OrdThresh, Threshold, Quorum

LEMMA CommitOkStays ==
    ASSUME Settled, SignedStays, NEW c, CommitOk(c)
    PROVE  CommitOk(c)'
<1>1. Cardinality(Voters(c.inst)') >= OrdThresh
    BY VotersFinite, ThreshInt DEF CommitOk
<1> QED  BY <1>1 DEF CommitOk, Settled

LEMMA CommitsStep ==
    ASSUME LoopInv, VoteInv, Settled, SignedStays, [Next]_vars
    PROVE  \A c \in commits' : CommitOk(c)'
<1>1. \A c \in commits : CommitOk(c)
    BY DEF VoteInv, CommitOk
<1>2. CASE UNCHANGED commits
    BY <1>1, <1>2, CommitOkStays
<1>3. ASSUME NEW r \in cpaReplies, AppendSig(r)
      PROVE  \A c \in commits' : CommitOk(c)'
    <2> DEFINE sigs == r.seen \cup {r.sig}
               signers == {s.by : s \in sigs}
               c == [inst |-> r.inst, hash |-> metaHash[r.inst], by |-> r.sig.by, sent |-> FALSE]
    <2>1. CASE PenRecovers(sigs, metaHash[r.inst], Thresh)
        <3>1. signers \subseteq Voters(r.inst) /\ r.inst \in DOMAIN metaHash
            BY <1>3 DEF VoteInv, Valid, AppendSig
        <3>2. IsFiniteSet(Voters(r.inst))
            BY ConsensusAssumption, FS_Subset DEF Voters
        <3>3. /\ Cardinality(signers) <= Cardinality(Voters(r.inst))
              /\ Cardinality(signers) \in Nat
              /\ Cardinality(Voters(r.inst)) \in Nat
            BY <3>1, <3>2, FS_Subset, FS_CardinalityType
        <3>4. Cardinality(signers) >= OrdThresh
            BY <2>1 DEF PenRecovers, Thresh
        <3> HIDE DEF signers
        <3>5. Cardinality(Voters(r.inst)) >= OrdThresh
            BY <3>3, <3>4, ThreshInt
        <3>6. CommitOk(c)
            BY <3>1, <3>5 DEF CommitOk
        <3>7. commits' \subseteq commits \cup {c}
            BY <1>3 DEF AppendSig
        <3> HIDE DEF c
        <3> QED  BY <1>1, <3>6, <3>7, CommitOkStays
    <2>2. CASE ~PenRecovers(sigs, metaHash[r.inst], Thresh)
        BY <1>2, <1>3, <2>2 DEF AppendSig
    <2> QED  BY <2>1, <2>2
<1>4. ASSUME NEW c \in commits, BroadcastCPB(c)
      PROVE  \A d \in commits' : CommitOk(d)'
    <2>1. \A d \in commits' : d \in commits \/ d = [c EXCEPT !.sent = TRUE]
        BY <1>4 DEF BroadcastCPB
    <2>2. ASSUME NEW d, d = [c EXCEPT !.sent = TRUE] PROVE CommitOk(d)
        <3>1. c = [inst |-> c.inst, hash |-> c.hash, by |-> c.by, sent |-> c.sent]
            BY <1>1 DEF CommitOk
        <3>2. /\ d = [inst |-> d.inst, hash |-> d.hash, by |-> d.by, sent |-> d.sent]
              /\ d.inst = c.inst
              /\ d.hash = c.hash
            BY <2>2, <3>1, EditedCommit
        <3> QED  BY <1>1, <3>2 DEF CommitOk
    <2> QED  BY <1>1, <2>1, <2>2, CommitOkStays
<1>5. CASE HandleReplies
    BY <1>2, <1>3, <1>4, <1>5 DEF HandleReplies, FetchSigs
<1>6. CASE \E v \in CmtValidators : HandleCA(v) \/ HandleCB(v)
    BY <1>2, <1>6 DEF HandleCA, HandleCB, StartCA, CheckBlock, ReplyCA, FinishCA, DeliverCB,
                      replyVars
<1>7. CASE Loop \/ Ordering \/ OrderingSendFails \/ (\E v \in Validators : Crash(v))
               \/ UNCHANGED vars
    BY <1>2, <1>7 DEF Loop, Wait, GetIDRange, ReadBlock, BroadcastCPA, StoreMeta, Ordering,
                      OrderingSendFails, Crash, vars, consVars, replyVars
<1> QED  BY <1>5, <1>6, <1>7 DEF Next

LEMMA VoteStep ==
    ASSUME LoopInv, CAInv, VoteInv, [Next]_vars
    PROVE  VoteInv'
<1>1. Settled /\ SignedStays
    BY SettledStep, SignedStaysStep
<1>2. (\A r \in cpaReplies' : ReplyOk(r)') /\ SigsOk' /\ (\A c \in commits' : CommitOk(c)')
    BY <1>1, RepliesStep, SigsStep, CommitsStep
<1> QED  BY <1>1, <1>2, VHashStep DEF VoteInv, ReplyOk, SigsOk, CommitOk

-------------------------------------------------------------------------------
(***************************************************************************)
(* The theorems.                                                           *)
(***************************************************************************)
LEMMA CStep == CInv /\ [Next]_vars => CInv'
BY SettledStep, CAStep, CertStep, TxStep, VoteStep DEF CInv

\* The invariant holds in every reachable state.
THEOREM ConsInvariance == Spec => []CInv
BY CInit, CStep, PTL DEF Spec

\* A validator that took no part in ordering a block keeps it only if a quorum of
\* the ordering booth stored it, whatever certificates the loop read and sent
\* along before they were written (comply.go:85-111, vconsensus.go:86-97).
THEOREM SyncedBlocksCertified == Spec => []SyncedCertified
<1>1. CInv => SyncedCertified
    BY DEF CInv, CertInv
<1> QED  BY <1>1, ConsInvariance, PTL

\* No two validators deliver different blocks under one id in the same instance,
\* although two workers may share the id (comply.go:158-195, 248-254).
THEOREM NoConflictingDelivery == Spec => []DeliveriesAgree
<1>1. CInv => DeliveriesAgree
    <2> SUFFICES ASSUME CInv, NEW u \in CmtValidators, NEW v \in CmtValidators,
                        NEW i \in stored[u] \cap stored[v],
                        NEW d \in tx[u][i], NEW e \in tx[v][i], d.id = e.id
                 PROVE  d = e
        BY DEF DeliveriesAgree
    <2>1. i \in DOMAIN tx[u] /\ i \in DOMAIN tx[v]
        BY DEF CInv, TxInv
    <2>2. /\ d = [id |-> d.id, hash |-> HashOf(i)[2][d.id]]
          /\ e = [id |-> e.id, hash |-> HashOf(i)[2][e.id]]
        BY <2>1 DEF CInv, TxInv
    <2> QED  BY <2>2
<1> QED  BY <1>1, ConsInvariance, PTL

\* An instance is committed only when 2F+1 servers have signed exactly its blocks,
\* although the reply goroutines overwrite each other's shares
\* (vconsensus.go:154-203).
THEOREM CommitsBacked == Spec => []CommitBacked
<1>1. CInv => CommitBacked
    <2> SUFFICES ASSUME CInv, NEW c \in commits
                 PROVE  Cardinality(Signers(c.inst, c.hash)) + 1 >= 2 * F + 1
        BY DEF CommitBacked
    <2>1. c.inst \in DOMAIN metaHash /\ c.hash = metaHash[c.inst]
          /\ Cardinality(Voters(c.inst)) >= OrdThresh
        BY DEF CInv, VoteInv
    <2>2. HashOf(c.inst) = c.hash
        BY <2>1, StoredBegun DEF CInv
    <2>3. Voters(c.inst) \subseteq Signers(c.inst, c.hash)
        BY <2>2 DEF CInv, CAInv, VoteInv, Voters, HasSigned, Signers, Signed
    <2>4. IsFiniteSet(Signers(c.inst, c.hash))
        BY ConsensusAssumption, FS_Subset DEF Signers
    <2>5. /\ Cardinality(Voters(c.inst)) <= Cardinality(Signers(c.inst, c.hash))
          /\ Cardinality(Voters(c.inst)) \in Nat
          /\ Cardinality(Signers(c.inst, c.hash)) \in Nat
        BY <2>3, <2>4, FS_Subset, FS_CardinalityType
    <2>6. OrdThresh \in Int /\ F \in Int /\ OrdThresh >= 2 * F
        BY ConsensusAssumption, FS_CardinalityType DEF OrdThresh, Threshold, Quorum, F
    <2> QED  BY <2>1, <2>5, <2>6
<1> QED  BY <1>1, ConsInvariance, PTL
===============================================================================
