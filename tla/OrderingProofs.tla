---------------------------- MODULE OrderingProofs ----------------------------
(***************************************************************************)
(* Proofs about the ordering phase, for every booth, any number of workers *)
(* and requests, and any number of crashes.                                *)
(***************************************************************************)
EXTENDS Ordering, FiniteSetTheorems, TLAPS

-------------------------------------------------------------------------------
(***************************************************************************)
(* Maps, digests and quorums.                                              *)
(***************************************************************************)

\* Assigning a key of a map yields a map, and changes no other key.
LEMMA PutProperties ==
    ASSUME NEW K, NEW V, NEW m, IsMap(m, K, V), NEW k \in K, NEW x \in V
    PROVE  /\ IsMap(Put(m, k, x), K, V)
           /\ DOMAIN Put(m, k, x) = DOMAIN m \cup {k}
           /\ Put(m, k, x)[k] = x
           /\ \A y \in DOMAIN m : y # k => Put(m, k, x)[y] = m[y]
BY DEF IsMap, Put

\* The empty map maps nothing.
LEMMA EmptyIsMap ==
    ASSUME NEW K, NEW V
    PROVE  IsMap(EmptyMap, K, V) /\ DOMAIN EmptyMap = {}
BY DEF IsMap, EmptyMap

\* A batch of requests has a digest, which determines the batch.
LEMMA DigestType ==
    ASSUME NEW batch \in Blocks
    PROVE  Digest(batch) \in Hashes /\ EntriesOf(Digest(batch)) = batch
BY DEF Digest, Hashes, EntriesOf

\* Signatures have their types.
LEMMA SigTypes ==
    ASSUME NEW v \in Validators, NEW hash \in Hashes
    PROVE  /\ PenSign(v, hash) \in Shares
           /\ CombSig(hash) \in Sigs
           /\ NoSig \in Sigs
BY DEF PenSign, Shares, CombSig, Sigs

\* Storing a certificate keeps the type of a cmtSnapshot, and its blocks.
LEMMA WithSigType ==
    ASSUME NEW m, IsMap(m, BlockIds, [hash : Hashes, tSig : Sigs]), NEW id, NEW sig \in Sigs
    PROVE  IsMap(WithSig(m, id, sig), BlockIds, [hash : Hashes, tSig : Sigs])
<1> DEFINE n == WithSig(m, id, sig)
<1>1. n = [x \in DOMAIN m |-> IF x = id THEN [m[id] EXCEPT !.tSig = sig] ELSE m[x]]
  BY DEF WithSig, IsMap
<1>2. ASSUME NEW x \in DOMAIN m
      PROVE  n[x] \in [hash : Hashes, tSig : Sigs]
  <2>1. m[x] \in [hash : Hashes, tSig : Sigs]
    BY DEF IsMap
  <2>2. [m[x] EXCEPT !.tSig = sig] \in [hash : Hashes, tSig : Sigs]
    BY <2>1
  <2> HIDE DEF n
  <2> QED
    BY <1>1, <2>1, <2>2
<1>3. DOMAIN n = DOMAIN m /\ n = [x \in DOMAIN n |-> n[x]]
  BY <1>1
<1> HIDE DEF n
<1>4. IsMap(n, BlockIds, [hash : Hashes, tSig : Sigs])
  BY <1>2, <1>3 DEF IsMap
<1> QED
  BY <1>4 DEF n

\* The two thresholds: that of the code and that of 2F+1 servers.
LEMMA ThreshBounds == BoothSize \in Nat /\ Thresh \in Nat /\ F \in Nat /\ Thresh >= 2 * F
<1>1. Cardinality(Validators) \in Nat
  BY ConstantsAssumption, FS_CardinalityType
<1> QED
  BY <1>1 DEF BoothSize, Thresh, Threshold, Quorum, F
-------------------------------------------------------------------------------
(***************************************************************************)
(* The inductive invariant.  Batches never meet again in a later block, so *)
(* a digest never names two blocks; and whatever carries a share of a      *)
(* validator, that validator holds the block the share signs.              *)
(***************************************************************************)
BatchInv ==
    /\ \A w \in Workers : \A e \in shuffle[w] : e[1] = w /\ e[2] > requestQueue[w]
    /\ \A w \in Workers : pc[w] # "recv" => shuffle[w] # {}
    /\ \A hash \in DOMAIN blocks :
           /\ EntriesOf(hash) # {}
           /\ \A e \in EntriesOf(hash) : e[2] > requestQueue[e[1]]
    /\ \A w \in Workers : pc[w] \in {"recv", "index", "incr", "ord"} =>
           \A hash \in DOMAIN blocks : shuffle[w] \cap EntriesOf(hash) = {}

SnapshotInv ==
    /\ \A id \in DOMAIN ordSnapshot :
           ordSnapshot[id] \in DOMAIN blocks /\ blocks[ordSnapshot[id]].id = id
    /\ \A h \in voteHandlers :
           h.frag \in DOMAIN blocks /\ blocks[h.frag].id = h.id

ShareInv ==
    /\ \A m \in oa : m.pc = "cmt" => Holds(m.to, m.id, m.hash)
    /\ \A r \in opaReplies : Holds(r.sig.by, r.id, r.sig.on)
    /\ \A h \in voteHandlers : Holds(h.sig.by, h.id, h.sig.on)
    /\ \A hash \in DOMAIN blocks : \A s \in blocks[hash].sigs :
           Holds(s.by, blocks[hash].id, s.on)

IInv == TypeOK /\ BatchInv /\ SnapshotInv /\ ShareInv
-------------------------------------------------------------------------------
(***************************************************************************)
(* Type correctness.                                                       *)
(***************************************************************************)
LEMMA InitType == Init => TypeOK
<1> SUFFICES ASSUME Init PROVE TypeOK
  OBVIOUS
<1>1. \A K, V : IsMap(EmptyMap, K, V)
  BY EmptyIsMap
<1>2. MsgLoad \in Nat
  BY ConstantsAssumption
<1>3. /\ requestQueue \in [Workers -> 0..MsgLoad]
      /\ shuffle \in [Workers -> Blocks]
      /\ pc \in [Workers -> {"recv", "index", "incr", "ord", "cmt", "bcast"}]
      /\ newBlockId \in [Workers -> BlockIds]
      /\ logIndex \in BlockIds
      /\ ordJobs \in [Validators -> SUBSET BlockIds]
  BY <1>2 DEF Init, Blocks, BlockIds
<1>4. /\ DOMAIN vOrd = Validators
      /\ DOMAIN vCmt = Validators
      /\ \A v \in Validators :
             /\ IsMap(vOrd[v], BlockIds, Hashes)
             /\ IsMap(vCmt[v], BlockIds, [hash : Hashes, tSig : Sigs])
  BY <1>1 DEF Init
<1>5. vgrec \in Seq(BlockIds)
  BY DEF Init
<1> QED
  BY <1>1, <1>3, <1>4, <1>5 DEF Init, TypeOK

\* Every step of a worker, up to the broadcast, keeps the types.
LEMMA WorkerType ==
    ASSUME TypeOK, NEW w \in Workers, Worker(w)
    PROVE  TypeOK'
<1> USE ConstantsAssumption
<1>1. CASE ReceiveRequest(w)
  <2>1. <<w, requestQueue[w]>> \in Requests
    BY <1>1 DEF ReceiveRequest, TypeOK, Requests
  <2>2. requestQueue' \in [Workers -> 0..MsgLoad]
    BY <1>1 DEF ReceiveRequest, TypeOK
  <2>3. shuffle' \in [Workers -> Blocks]
    BY <1>1, <2>1 DEF ReceiveRequest, TypeOK, Blocks
  <2>4. pc' \in [Workers -> {"recv", "index", "incr", "ord", "cmt", "bcast"}]
    BY <1>1 DEF ReceiveRequest, TypeOK
  <2> QED
    BY <1>1, <2>2, <2>3, <2>4 DEF ReceiveRequest, TypeOK, replyVars, validatorVars
<1>2. CASE ReadLogIndex(w)
  BY <1>2 DEF ReadLogIndex, TypeOK, replyVars, validatorVars
<1>3. CASE IncrementLogIndex(w)
  <2>1. logIndex' \in BlockIds
    BY <1>3 DEF IncrementLogIndex, TypeOK, BlockIds
  <2> QED
    BY <1>3, <2>1 DEF IncrementLogIndex, TypeOK, replyVars, validatorVars
<1>4. CASE StoreOrdSnapshot(w)
  <2> DEFINE hash == Digest(shuffle[w])
             frag == [id |-> newBlockId[w], len |-> 0, sigs |-> {}]
  <2>1. hash \in Hashes /\ newBlockId[w] \in BlockIds
    BY DigestType DEF TypeOK
  <2>2. frag \in [id : BlockIds, len : Nat, sigs : SUBSET Shares]
    BY <2>1
  <2>3. IsMap(ordSnapshot', BlockIds, Hashes)
    BY <1>4, <2>1, PutProperties DEF StoreOrdSnapshot, TypeOK
  <2>4. IsMap(blocks', Hashes, [id : BlockIds, len : Nat, sigs : SUBSET Shares])
    BY <1>4, <2>1, <2>2, PutProperties DEF StoreOrdSnapshot, TypeOK
  <2> QED
    BY <1>4, <2>3, <2>4 DEF StoreOrdSnapshot, TypeOK, replyVars, validatorVars
<1>5. CASE StoreCmtSnapshot(w)
  <2> DEFINE frag == [hash |-> Digest(shuffle[w]), tSig |-> NoSig]
  <2>1. frag \in [hash : Hashes, tSig : Sigs] /\ newBlockId[w] \in BlockIds
    BY DigestType DEF TypeOK, Sigs
  <2>2. IsMap(cmtSnapshot', BlockIds, [hash : Hashes, tSig : Sigs])
    BY <1>5, <2>1, PutProperties DEF StoreCmtSnapshot, TypeOK
  <2> QED
    BY <1>5, <2>2 DEF StoreCmtSnapshot, TypeOK, replyVars, validatorVars
<1>6. CASE BroadcastOPA(w)
  <2>1. Digest(shuffle[w]) \in Hashes /\ newBlockId[w] \in BlockIds
    BY DigestType DEF TypeOK
  <2>2. Reached \subseteq Validators
    BY DEF Reached
  <2>3. oa' \subseteq OAMessages
    BY <1>6, <2>1, <2>2 DEF BroadcastOPA, TypeOK, OAMessages
  <2>4. broadcastError' \in BOOLEAN
    BY <1>6 DEF BroadcastOPA, EncodeOutcomes, TypeOK
  <2>5. shuffle' \in [Workers -> Blocks]
    BY <1>6 DEF BroadcastOPA, NextBatch, Blocks, TypeOK
  <2> QED
    BY <1>6, <2>3, <2>4, <2>5 DEF BroadcastOPA, TypeOK, replyVars, validatorVars
<1> QED
  BY <1>1, <1>2, <1>3, <1>4, <1>5, <1>6 DEF Worker

\* Every step of a reply goroutine keeps the types.  The blocks it points to
\* exist, which is what SnapshotInv is needed for here.
LEMMA ReplyType ==
    ASSUME TypeOK, SnapshotInv, HandleReplies
    PROVE  TypeOK'
<1> USE ConstantsAssumption
<1>1. ASSUME NEW r \in opaReplies, LookUpBlock(r)
      PROVE  TypeOK'
  <2>1. r.id \in BlockIds /\ r.sig \in Shares
    BY DEF TypeOK, Replies
  <2>2. \A id \in DOMAIN ordSnapshot : ordSnapshot[id] \in Hashes
    BY DEF TypeOK, IsMap
  <2>3. voteHandlers' \subseteq [id : BlockIds, sig : Shares, frag : Hashes]
    BY <1>1, <2>1, <2>2 DEF LookUpBlock, TypeOK
  <2> QED
    BY <1>1, <2>3 DEF LookUpBlock, TypeOK, proposerVars, validatorVars
<1>2. ASSUME NEW h \in voteHandlers, CountVote(h)
      PROVE  TypeOK'
  <2> DEFINE frag == blocks[h.frag]
             new  == [frag EXCEPT !.len = frag.len + 1, !.sigs = frag.sigs \cup {h.sig}]
             order == [id |-> h.id, hash |-> h.frag, pc |-> "record"]
  <2>1. h.id \in BlockIds /\ h.sig \in Shares /\ h.frag \in Hashes
    BY DEF TypeOK
  <2>2. frag \in [id : BlockIds, len : Nat, sigs : SUBSET Shares]
    BY DEF SnapshotInv, TypeOK, IsMap
  <2>3. new \in [id : BlockIds, len : Nat, sigs : SUBSET Shares]
    <3>1. frag.sigs \cup {h.sig} \in SUBSET Shares /\ frag.len + 1 \in Nat
      BY <2>1, <2>2
    <3> HIDE DEF frag
    <3> QED
      BY <2>2, <3>1
  <2>4. IsMap(Put(blocks, h.frag, new), Hashes, [id : BlockIds, len : Nat, sigs : SUBSET Shares])
    BY <2>1, <2>3, PutProperties DEF TypeOK
  <2>5. IsMap(blocks', Hashes, [id : BlockIds, len : Nat, sigs : SUBSET Shares])
    BY <1>2, <2>4 DEF CountVote, TypeOK
  <2>6. order \in [id : BlockIds, hash : Hashes, pc : {"record", "tsig", "bcast"}]
    BY <2>1
  <2>7. orderHandlers' \subseteq orderHandlers \cup {order}
    BY <1>2 DEF CountVote
  <2>8. orderHandlers' \subseteq [id : BlockIds, hash : Hashes, pc : {"record", "tsig", "bcast"}]
    BY <2>6, <2>7 DEF TypeOK
  <2>9. voteHandlers' \subseteq [id : BlockIds, sig : Shares, frag : Hashes]
    BY <1>2 DEF CountVote, TypeOK
  <2> QED
    BY <1>2, <2>5, <2>8, <2>9 DEF CountVote, TypeOK, validatorVars
<1>3. ASSUME NEW o \in orderHandlers,
             RecordOrder(o) \/ StoreThresholdSig(o) \/ BroadcastOPB(o)
      PROVE  TypeOK'
  <2>1. o \in [id : BlockIds, hash : Hashes, pc : {"record", "tsig", "bcast"}]
    BY DEF TypeOK
  <2>2. \A next \in {"record", "tsig", "bcast"} :
           Advance(o, next) \subseteq
               [id : BlockIds, hash : Hashes, pc : {"record", "tsig", "bcast"}]
    BY <2>1 DEF Advance, TypeOK
  <2>3. CASE RecordOrder(o)
    <3>1. vgrec' \in Seq(BlockIds)
      BY <2>1, <2>3 DEF RecordOrder, TypeOK
    <3> QED
      BY <2>2, <2>3, <3>1 DEF RecordOrder, TypeOK, validatorVars
  <2>4. CASE StoreThresholdSig(o)
    <3>1. CombSig(o.hash) \in Sigs
      BY <2>1 DEF CombSig, Sigs
    <3>2. IsMap(cmtSnapshot', BlockIds, [hash : Hashes, tSig : Sigs])
      BY <2>4, <3>1, WithSigType DEF StoreThresholdSig, TypeOK
    <3> QED
      BY <2>2, <2>4, <3>2 DEF StoreThresholdSig, TypeOK, validatorVars
  <2>5. CASE BroadcastOPB(o)
    <3>1. CombSig(o.hash) \in Sigs /\ Reached \subseteq Validators
      BY <2>1 DEF CombSig, Sigs, Reached
    <3>2. ob' \subseteq OBMessages
      BY <2>1, <2>5, <3>1 DEF BroadcastOPB, TypeOK, OBMessages
    <3>3. broadcastError' \in BOOLEAN
      BY <2>5 DEF BroadcastOPB, EncodeOutcomes, TypeOK
    <3>4. orderHandlers' \subseteq [id : BlockIds, hash : Hashes, pc : {"record", "tsig", "bcast"}]
      BY <2>5 DEF BroadcastOPB, TypeOK
    <3> QED
      BY <2>5, <3>2, <3>3, <3>4 DEF BroadcastOPB, TypeOK, proposerVars, validatorVars
  <2> QED
    BY <1>3, <2>3, <2>4, <2>5
<1> QED
  BY <1>1, <1>2, <1>3 DEF HandleReplies

\* Every step of a validator keeps the types.
LEMMA ValidatorType ==
    ASSUME TypeOK, NEW v \in Validators, HandleOA(v) \/ HandleOB(v) \/ Crash(v)
    PROVE  TypeOK'
<1> USE ConstantsAssumption
<1>1. ASSUME NEW m \in oa, ReserveBlock(m)
      PROVE  TypeOK'
  <2>1. m \in OAMessages /\ m.to \in Validators /\ m.id \in BlockIds /\ m.hash \in Hashes
    BY DEF TypeOK, OAMessages
  <2>2. oa' \subseteq OAMessages
    <3>1. [m EXCEPT !.pc = "cmt"] \in OAMessages
      BY <2>1 DEF OAMessages
    <3> QED
      BY <1>1, <3>1 DEF ReserveBlock, TypeOK
  <2>3. IsMap(Put(vOrd[m.to], m.id, m.hash), BlockIds, Hashes)
    BY <2>1, PutProperties DEF TypeOK
  <2>4. DOMAIN vOrd' = Validators /\ \A u \in Validators : IsMap(vOrd'[u], BlockIds, Hashes)
    BY <1>1, <2>1, <2>3 DEF ReserveBlock, TypeOK
  <2> QED
    BY <1>1, <2>2, <2>4 DEF ReserveBlock, TypeOK, proposerVars, replyVars
<1>2. ASSUME NEW m \in oa, StoreAndVote(m)
      PROVE  TypeOK'
  <2> DEFINE frag == [hash |-> m.hash, tSig |-> NoSig]
  <2>1. m.to \in Validators /\ m.id \in BlockIds /\ m.hash \in Hashes
    BY DEF TypeOK, OAMessages
  <2>2. frag \in [hash : Hashes, tSig : Sigs]
    BY <2>1 DEF Sigs
  <2>3. IsMap(Put(vCmt[m.to], m.id, frag), BlockIds, [hash : Hashes, tSig : Sigs])
    BY <2>1, <2>2, PutProperties DEF TypeOK
  <2>4. /\ DOMAIN vCmt' = Validators
        /\ \A u \in Validators : IsMap(vCmt'[u], BlockIds, [hash : Hashes, tSig : Sigs])
    BY <1>2, <2>1, <2>3 DEF StoreAndVote, TypeOK
  <2>5. ordJobs' \in [Validators -> SUBSET BlockIds]
    BY <1>2, <2>1 DEF StoreAndVote, TypeOK
  <2>6. opaReplies' \subseteq Replies
    BY <1>2, <2>1, SigTypes DEF StoreAndVote, TypeOK, Replies
  <2>7. oa' \subseteq OAMessages
    BY <1>2 DEF StoreAndVote, TypeOK
  <2> QED
    BY <1>2, <2>4, <2>5, <2>6, <2>7 DEF StoreAndVote, TypeOK, proposerVars
<1>3. ASSUME NEW m \in ob, CheckOrdered(m) \/ LockCmtSnapshot(m)
      PROVE  TypeOK'
  <2>1. ob' \subseteq OBMessages
    <3>1. m \in OBMessages
      BY DEF TypeOK
    <3>2. [m EXCEPT !.pc = "cmt"] \in OBMessages /\ [m EXCEPT !.pc = "locked"] \in OBMessages
      BY <3>1 DEF OBMessages
    <3> QED
      BY <1>3, <3>2 DEF CheckOrdered, LockCmtSnapshot, TypeOK
  <2> QED
    BY <1>3, <2>1 DEF CheckOrdered, LockCmtSnapshot, TypeOK, proposerVars, replyVars,
                      validatorVars
<1>4. ASSUME NEW m \in ob, StoreCertificate(m)
      PROVE  TypeOK'
  <2>1. m.to \in Validators /\ m.id \in BlockIds /\ m.sig \in Sigs
    BY DEF TypeOK, OBMessages
  <2>2. IsMap(WithSig(vCmt[m.to], m.id, m.sig), BlockIds, [hash : Hashes, tSig : Sigs])
    BY <2>1, WithSigType DEF TypeOK
  <2>3. /\ DOMAIN vCmt' = Validators
        /\ \A u \in Validators : IsMap(vCmt'[u], BlockIds, [hash : Hashes, tSig : Sigs])
    BY <1>4, <2>1, <2>2 DEF StoreCertificate, TypeOK
  <2>4. ob' \subseteq OBMessages
    BY <1>4 DEF StoreCertificate, TypeOK
  <2> QED
    BY <1>4, <2>3, <2>4 DEF StoreCertificate, TypeOK, proposerVars, replyVars
<1>5. CASE Crash(v)
  <2>1. /\ oa' \subseteq oa
        /\ ob' \subseteq ob
        /\ opaReplies' \subseteq opaReplies
        /\ crashed' \subseteq Validators
    BY <1>5 DEF Crash, TypeOK
  <2> QED
    BY <1>5, <2>1 DEF Crash, TypeOK, proposerVars, validatorVars
<1> QED
  BY <1>1, <1>2, <1>3, <1>4, <1>5 DEF HandleOA, HandleOB

\* Type correctness is preserved by every step.
LEMMA NextType == TypeOK /\ SnapshotInv /\ [Next]_vars => TypeOK'
<1> SUFFICES ASSUME TypeOK, SnapshotInv, [Next]_vars PROVE TypeOK'
  OBVIOUS
<1>1. ASSUME NEW w \in Workers, Worker(w) PROVE TypeOK'
  BY <1>1, WorkerType
<1>2. CASE HandleReplies
  BY <1>2, ReplyType
<1>3. ASSUME NEW v \in Validators, HandleOA(v) \/ HandleOB(v) \/ Crash(v) PROVE TypeOK'
  BY <1>3, ValidatorType
<1>4. CASE UNCHANGED vars
  BY <1>4 DEF vars, proposerVars, replyVars, validatorVars, TypeOK
<1> QED
  BY <1>1, <1>2, <1>3, <1>4 DEF Next
-------------------------------------------------------------------------------
(***************************************************************************)
(* Batches and digests.                                                    *)
(***************************************************************************)

\* A worker that stores a block gives it a digest that no block has had.
LEMMA FreshDigest ==
    ASSUME TypeOK, BatchInv, NEW w \in Workers, StoreOrdSnapshot(w)
    PROVE  /\ Digest(shuffle[w]) \in Hashes
           /\ EntriesOf(Digest(shuffle[w])) = shuffle[w]
           /\ shuffle[w] # {}
           /\ Digest(shuffle[w]) \notin DOMAIN blocks
<1>1. shuffle[w] \in Blocks
  BY DEF TypeOK
<1>2. shuffle[w] # {} /\ \A hash \in DOMAIN blocks : shuffle[w] \cap EntriesOf(hash) = {}
  BY DEF BatchInv, StoreOrdSnapshot
<1> QED
  BY <1>1, <1>2, DigestType

\* Batches stay disjoint: a worker takes each request once and stores each batch
\* once; a vote changes no batch.
LEMMA BatchStep == TypeOK /\ BatchInv /\ SnapshotInv /\ [Next]_vars => BatchInv'
<1> SUFFICES ASSUME TypeOK, BatchInv, SnapshotInv, [Next]_vars PROVE BatchInv'
  OBVIOUS
<1>1. ASSUME NEW w \in Workers, ReceiveRequest(w) PROVE BatchInv'
  <2> DEFINE e == <<w, requestQueue[w]>>
  <2>1. /\ requestQueue' = [requestQueue EXCEPT ![w] = requestQueue[w] - 1]
        /\ shuffle' = [shuffle EXCEPT ![w] = shuffle[w] \cup {e}]
        /\ pc[w] = "recv" /\ blocks' = blocks
        /\ \A x \in Workers : x # w => pc'[x] = pc[x]
    BY <1>1 DEF ReceiveRequest, TypeOK
  <2>2. \A x \in Workers : requestQueue[x] \in Int /\ requestQueue'[x] \in Int
                           /\ requestQueue'[x] <= requestQueue[x]
    BY <2>1 DEF TypeOK
  <2>3. requestQueue'[w] < requestQueue[w] /\ e[1] = w /\ e[2] = requestQueue[w]
    BY <2>1, <2>2 DEF TypeOK
  <2>4. \A x \in Workers : \A r \in shuffle[x] : r[1] = x /\ r[2] \in Int
    BY DEF BatchInv, TypeOK, Blocks, Requests
  <2>5. \A x \in Workers : \A r \in shuffle'[x] : r[1] = x /\ r[2] > requestQueue'[x]
    <3>1. ASSUME NEW x \in Workers, NEW r \in shuffle[x]
          PROVE  r[1] = x /\ r[2] > requestQueue'[x]
      BY <2>2, <2>4 DEF BatchInv
    <3> QED
      BY <2>1, <2>3, <3>1 DEF TypeOK
  <2>6. \A x \in Workers : pc'[x] # "recv" => shuffle'[x] # {}
    BY <2>1 DEF BatchInv, TypeOK
  <2>7. \A hash \in DOMAIN blocks : \A r \in EntriesOf(hash) :
            r[1] \in Workers /\ r[2] \in Int /\ r[2] > requestQueue[r[1]]
    BY DEF BatchInv, TypeOK, IsMap, Hashes, Blocks, Requests, EntriesOf
  <2>8. \A hash \in DOMAIN blocks :
            /\ EntriesOf(hash) # {}
            /\ \A r \in EntriesOf(hash) : r[2] > requestQueue'[r[1]]
    BY <2>2, <2>7 DEF BatchInv
  <2>9. \A hash \in DOMAIN blocks : e \notin EntriesOf(hash)
    BY <2>2, <2>3, <2>7
  <2>10. \A x \in Workers : pc'[x] \in {"recv", "index", "incr", "ord"} =>
             \A hash \in DOMAIN blocks : shuffle'[x] \cap EntriesOf(hash) = {}
    BY <2>1, <2>9 DEF BatchInv, TypeOK
  <2> QED
    BY <2>1, <2>5, <2>6, <2>8, <2>10 DEF BatchInv
<1>2. ASSUME NEW w \in Workers,
             ReadLogIndex(w) \/ IncrementLogIndex(w) \/ StoreCmtSnapshot(w)
      PROVE  BatchInv'
  <2>1. /\ requestQueue' = requestQueue /\ shuffle' = shuffle /\ blocks' = blocks
        /\ \A x \in Workers : pc'[x] # "recv" => pc[x] # "recv"
        /\ \A x \in Workers : pc'[x] \in {"recv", "index", "incr", "ord"} =>
               pc[x] \in {"recv", "index", "incr", "ord"}
    BY <1>2 DEF ReadLogIndex, IncrementLogIndex, StoreCmtSnapshot, TypeOK
  <2> QED
    BY <2>1 DEF BatchInv
<1>3. ASSUME NEW w \in Workers, StoreOrdSnapshot(w) PROVE BatchInv'
  <2> DEFINE new == Digest(shuffle[w])
  <2>1. EntriesOf(new) = shuffle[w] /\ shuffle[w] # {}
    BY <1>3, FreshDigest
  <2>2. /\ requestQueue' = requestQueue /\ shuffle' = shuffle
        /\ pc' = [pc EXCEPT ![w] = "cmt"] /\ pc[w] = "ord"
        /\ DOMAIN blocks' = DOMAIN blocks \cup {new}
    BY <1>3 DEF StoreOrdSnapshot, Put
  <2> HIDE DEF new
  <2>3. \A x \in Workers : pc'[x] # "recv" => shuffle'[x] # {}
    BY <2>2 DEF BatchInv, TypeOK
  <2>4. \A hash \in DOMAIN blocks' :
            /\ EntriesOf(hash) # {}
            /\ \A e \in EntriesOf(hash) : e[2] > requestQueue'[e[1]]
    BY <2>1, <2>2 DEF BatchInv
  <2>5. \A x \in Workers : pc'[x] \in {"recv", "index", "incr", "ord"} =>
             \A hash \in DOMAIN blocks' : shuffle'[x] \cap EntriesOf(hash) = {}
    <3>1. ASSUME NEW x \in Workers, pc'[x] \in {"recv", "index", "incr", "ord"}
          PROVE  /\ x # w /\ pc[x] \in {"recv", "index", "incr", "ord"}
                 /\ shuffle[x] \cap EntriesOf(new) = {}
      <4>1. x # w /\ pc[x] \in {"recv", "index", "incr", "ord"}
        BY <2>2, <3>1 DEF TypeOK
      <4>2. \A e \in shuffle[x] : e[1] = x
        BY DEF BatchInv
      <4>3. \A e \in shuffle[w] : e[1] = w
        BY DEF BatchInv
      <4> QED
        BY <2>1, <4>1, <4>2, <4>3
    <3> QED
      BY <2>2, <3>1 DEF BatchInv
  <2> QED
    BY <2>2, <2>3, <2>4, <2>5 DEF BatchInv
<1>4. ASSUME NEW w \in Workers, BroadcastOPA(w) PROVE BatchInv'
  <2>1. /\ requestQueue' = requestQueue /\ blocks' = blocks
        /\ shuffle' = [shuffle EXCEPT ![w] = {}] /\ pc' = [pc EXCEPT ![w] = "recv"]
    BY <1>4 DEF BroadcastOPA, NextBatch
  <2> QED
    BY <2>1 DEF BatchInv, TypeOK
<1>5. ASSUME NEW h \in voteHandlers, CountVote(h) PROVE BatchInv'
  <2>1. h.frag \in DOMAIN blocks
    BY DEF SnapshotInv
  <2>2. /\ requestQueue' = requestQueue /\ shuffle' = shuffle /\ pc' = pc
        /\ DOMAIN blocks' = DOMAIN blocks
    BY <1>5, <2>1 DEF CountVote, Put
  <2> QED
    BY <2>2 DEF BatchInv
<1>6. CASE UNCHANGED <<requestQueue, shuffle, pc, blocks>>
  BY <1>6 DEF BatchInv
<1>7. ASSUME NEW o \in orderHandlers,
             RecordOrder(o) \/ StoreThresholdSig(o) \/ BroadcastOPB(o)
      PROVE  UNCHANGED <<requestQueue, shuffle, pc, blocks>>
  BY <1>7 DEF RecordOrder, StoreThresholdSig, BroadcastOPB, proposerVars
<1>8. ASSUME NEW r \in opaReplies, LookUpBlock(r)
      PROVE  UNCHANGED <<requestQueue, shuffle, pc, blocks>>
  BY <1>8 DEF LookUpBlock, proposerVars
<1>9. ASSUME NEW v \in Validators, HandleOA(v) \/ HandleOB(v) \/ Crash(v)
      PROVE  UNCHANGED <<requestQueue, shuffle, pc, blocks>>
  BY <1>9 DEF HandleOA, HandleOB, Crash, ReserveBlock, StoreAndVote, CheckOrdered,
              LockCmtSnapshot, StoreCertificate, proposerVars
<1>10. CASE UNCHANGED vars
  BY <1>6, <1>10 DEF vars, proposerVars
<1> QED
  BY <1>1, <1>2, <1>3, <1>4, <1>5, <1>6, <1>7, <1>8, <1>9, <1>10
     DEF Next, Worker, HandleReplies
-------------------------------------------------------------------------------
(***************************************************************************)
(* Snapshots.                                                              *)
(***************************************************************************)

\* Block ids and digests stay together: the snapshot an id maps to, and the one a
\* reply goroutine holds, are of a block with that id.
LEMMA SnapshotStep == TypeOK /\ BatchInv /\ SnapshotInv /\ [Next]_vars => SnapshotInv'
<1> SUFFICES ASSUME TypeOK, BatchInv, SnapshotInv, [Next]_vars PROVE SnapshotInv'
  OBVIOUS
<1>1. ASSUME NEW w \in Workers, StoreOrdSnapshot(w) PROVE SnapshotInv'
  <2> DEFINE new == Digest(shuffle[w])
             frag == [id |-> newBlockId[w], len |-> 0, sigs |-> {}]
  <2>1. new \notin DOMAIN blocks
    BY <1>1, FreshDigest
  <2>2. /\ ordSnapshot' = Put(ordSnapshot, newBlockId[w], new)
        /\ blocks' = Put(blocks, new, frag)
        /\ voteHandlers' = voteHandlers
    BY <1>1 DEF StoreOrdSnapshot, replyVars
  <2> HIDE DEF new
  <2>3. /\ \A hash \in DOMAIN blocks : hash \in DOMAIN blocks' /\ blocks'[hash] = blocks[hash]
        /\ new \in DOMAIN blocks' /\ blocks'[new].id = newBlockId[w]
    BY <2>1, <2>2 DEF Put
  <2>4. \A id \in DOMAIN ordSnapshot' :
            IF id = newBlockId[w] THEN ordSnapshot'[id] = new
            ELSE id \in DOMAIN ordSnapshot /\ ordSnapshot'[id] = ordSnapshot[id]
    BY <2>2 DEF Put
  <2>5. \A id \in DOMAIN ordSnapshot' :
            ordSnapshot'[id] \in DOMAIN blocks' /\ blocks'[ordSnapshot'[id]].id = id
    BY <2>3, <2>4 DEF SnapshotInv
  <2>6. \A h \in voteHandlers' : h.frag \in DOMAIN blocks' /\ blocks'[h.frag].id = h.id
    BY <2>2, <2>3 DEF SnapshotInv
  <2> QED
    BY <2>5, <2>6 DEF SnapshotInv
<1>2. ASSUME NEW r \in opaReplies, LookUpBlock(r) PROVE SnapshotInv'
  BY <1>2 DEF LookUpBlock, SnapshotInv, proposerVars
<1>3. ASSUME NEW h \in voteHandlers, CountVote(h) PROVE SnapshotInv'
  <2>1. h.frag \in DOMAIN blocks /\ blocks[h.frag] \in [id : BlockIds, len : Nat, sigs : SUBSET Shares]
    BY DEF SnapshotInv, TypeOK, IsMap
  <2>2. ordSnapshot' = ordSnapshot /\ voteHandlers' \subseteq voteHandlers
    BY <1>3 DEF CountVote
  <2>3. DOMAIN blocks' = DOMAIN blocks
    BY <1>3, <2>1 DEF CountVote, Put
  <2>4. \A hash \in DOMAIN blocks : blocks'[hash].id = blocks[hash].id
    <3> DEFINE new == [blocks[h.frag] EXCEPT !.len = blocks[h.frag].len + 1,
                                             !.sigs = blocks[h.frag].sigs \cup {h.sig}]
    <3>1. new.id = blocks[h.frag].id
      BY <2>1
    <3>2. blocks' = blocks \/ blocks' = Put(blocks, h.frag, new)
      BY <1>3 DEF CountVote
    <3> HIDE DEF new
    <3> QED
      BY <3>1, <3>2 DEF Put
  <2> QED
    BY <2>2, <2>3, <2>4 DEF SnapshotInv
<1>4. CASE UNCHANGED <<ordSnapshot, blocks, voteHandlers>>
  BY <1>4 DEF SnapshotInv
<1>5. ASSUME NEW w \in Workers, Worker(w), ~StoreOrdSnapshot(w)
      PROVE  UNCHANGED <<ordSnapshot, blocks, voteHandlers>>
  BY <1>5 DEF Worker, ReceiveRequest, ReadLogIndex, IncrementLogIndex, StoreCmtSnapshot,
              BroadcastOPA, replyVars
<1>6. ASSUME NEW o \in orderHandlers,
             RecordOrder(o) \/ StoreThresholdSig(o) \/ BroadcastOPB(o)
      PROVE  UNCHANGED <<ordSnapshot, blocks, voteHandlers>>
  BY <1>6 DEF RecordOrder, StoreThresholdSig, BroadcastOPB, proposerVars
<1>7. ASSUME NEW v \in Validators, HandleOA(v) \/ HandleOB(v) \/ Crash(v)
      PROVE  UNCHANGED <<ordSnapshot, blocks, voteHandlers>>
  BY <1>7 DEF HandleOA, HandleOB, Crash, ReserveBlock, StoreAndVote, CheckOrdered,
              LockCmtSnapshot, StoreCertificate, proposerVars, replyVars
<1>8. CASE UNCHANGED vars
  BY <1>4, <1>8 DEF vars, proposerVars, replyVars
<1> QED
  BY <1>1, <1>2, <1>3, <1>4, <1>5, <1>6, <1>7, <1>8 DEF Next, HandleReplies

\* A vote changes nothing of a block but its votes, and no other block.
LEMMA CountChanges ==
    ASSUME TypeOK, SnapshotInv, NEW h \in voteHandlers, CountVote(h)
    PROVE  /\ h.frag \in DOMAIN blocks /\ DOMAIN blocks' = DOMAIN blocks
           /\ \A x \in DOMAIN blocks \ {h.frag} : blocks'[x] = blocks[x]
           /\ \A x \in DOMAIN blocks : blocks'[x].id = blocks[x].id
<1> DEFINE new == [blocks[h.frag] EXCEPT !.len = blocks[h.frag].len + 1,
                                         !.sigs = blocks[h.frag].sigs \cup {h.sig}]
<1>1. h.frag \in DOMAIN blocks
      /\ blocks[h.frag] \in [id : BlockIds, len : Nat, sigs : SUBSET Shares]
  BY DEF SnapshotInv, TypeOK, IsMap
<1>2. new.id = blocks[h.frag].id
  BY <1>1
<1>3. blocks' = blocks \/ blocks' = Put(blocks, h.frag, new)
  BY DEF CountVote
<1> HIDE DEF new
<1> QED
  BY <1>1, <1>2, <1>3 DEF Put
-------------------------------------------------------------------------------
(***************************************************************************)
(* Shares.                                                                 *)
(***************************************************************************)

\* A reservation is final.
LEMMA HoldsStable ==
    ASSUME TypeOK, [Next]_vars, NEW v \in Validators, NEW id, NEW hash, Holds(v, id, hash)
    PROVE  Holds(v, id, hash)'
<1>1. CASE UNCHANGED vOrd
  BY <1>1 DEF Holds
<1>2. ASSUME NEW m \in oa, ReserveBlock(m)
      PROVE  Holds(v, id, hash)'
  <2>1. m.to \in Validators
    BY DEF TypeOK, OAMessages
  <2>2. CASE AlreadyUsed(m.to, m.id)
    BY <1>1, <1>2, <2>2 DEF ReserveBlock
  <2>3. CASE ~AlreadyUsed(m.to, m.id)
    <3>1. vOrd' = [vOrd EXCEPT ![m.to] = Put(vOrd[m.to], m.id, m.hash)]
      BY <1>2, <2>3 DEF ReserveBlock
    <3>2. m.id \notin DOMAIN vOrd[m.to]
      BY <2>3 DEF AlreadyUsed
    <3>3. CASE v = m.to
      BY <2>1, <3>1, <3>2, <3>3 DEF Holds, Put, TypeOK
    <3>4. CASE v # m.to
      BY <2>1, <3>1, <3>4 DEF Holds, TypeOK
    <3> QED
      BY <3>3, <3>4
  <2> QED
    BY <2>2, <2>3
<1>3. ASSUME NEW w \in Workers, Worker(w)
      PROVE  UNCHANGED vOrd
  BY <1>3 DEF Worker, ReceiveRequest, ReadLogIndex, IncrementLogIndex, StoreOrdSnapshot,
              StoreCmtSnapshot, BroadcastOPA, validatorVars
<1>4. ASSUME HandleReplies
      PROVE  UNCHANGED vOrd
  BY <1>4 DEF HandleReplies, LookUpBlock, CountVote, RecordOrder, StoreThresholdSig,
              BroadcastOPB, validatorVars
<1>5. ASSUME NEW u \in Validators, HandleOB(u) \/ Crash(u)
      PROVE  UNCHANGED vOrd
  BY <1>5 DEF HandleOB, Crash, CheckOrdered, LockCmtSnapshot, StoreCertificate, validatorVars
<1>6. ASSUME NEW m \in oa, StoreAndVote(m)
      PROVE  UNCHANGED vOrd
  BY <1>6 DEF StoreAndVote
<1>7. CASE UNCHANGED vars
  BY <1>1, <1>7 DEF vars, validatorVars
<1> QED
  BY <1>1, <1>2, <1>3, <1>4, <1>5, <1>6, <1>7 DEF Next, HandleOA

\* Every share, wherever it has got to, signs a block that its validator holds.
LEMMA ShareStep == IInv /\ [Next]_vars => ShareInv'
<1> SUFFICES ASSUME IInv, [Next]_vars PROVE ShareInv'
  OBVIOUS
<1> USE DEF IInv
<1>1. /\ \A m \in oa : m.to \in Validators
      /\ \A r \in opaReplies : r.sig.by \in Validators
      /\ \A h \in voteHandlers : h.sig.by \in Validators
      /\ \A hash \in DOMAIN blocks : \A s \in blocks[hash].sigs : s.by \in Validators
  BY DEF TypeOK, OAMessages, Replies, Shares, IsMap
<1>2. \A m \in oa : m.pc = "cmt" => Holds(m.to, m.id, m.hash)'
  BY <1>1, HoldsStable DEF ShareInv
<1>3. \A r \in opaReplies : Holds(r.sig.by, r.id, r.sig.on)'
  BY <1>1, HoldsStable DEF ShareInv
<1>4. \A h \in voteHandlers : Holds(h.sig.by, h.id, h.sig.on)'
  BY <1>1, HoldsStable DEF ShareInv
<1>5. \A hash \in DOMAIN blocks : \A s \in blocks[hash].sigs :
          \A id : id = blocks[hash].id => Holds(s.by, id, s.on)'
  BY <1>1, HoldsStable DEF ShareInv
<1>6. \A m \in oa' : m.pc = "cmt" => Holds(m.to, m.id, m.hash)'
  <2>1. CASE oa' \subseteq oa
    BY <1>2, <2>1
  <2>2. ASSUME NEW w \in Workers, BroadcastOPA(w)
        PROVE  \A m \in oa' : m.pc = "cmt" => m \in oa
    BY <2>2 DEF BroadcastOPA
  <2>3. ASSUME NEW w \in Workers, Worker(w), ~BroadcastOPA(w)
        PROVE  oa' \subseteq oa
    BY <2>3 DEF Worker, ReceiveRequest, ReadLogIndex, IncrementLogIndex, StoreOrdSnapshot,
                StoreCmtSnapshot
  <2>4. ASSUME NEW m \in oa, ReserveBlock(m)
        PROVE  \A n \in oa' : n.pc = "cmt" => Holds(n.to, n.id, n.hash)'
    <3>1. CASE AlreadyUsed(m.to, m.id)
      BY <2>1, <2>4, <3>1 DEF ReserveBlock
    <3>2. CASE ~AlreadyUsed(m.to, m.id)
      <4>1. m \in OAMessages
        BY DEF TypeOK
      <4>2. oa' = (oa \ {m}) \cup {[m EXCEPT !.pc = "cmt"]}
        BY <2>4, <3>2 DEF ReserveBlock
      <4>3. Holds(m.to, m.id, m.hash)'
        BY <1>1, <2>4, <3>2 DEF ReserveBlock, Holds, Put, TypeOK
      <4>4. \A n \in {[m EXCEPT !.pc = "cmt"]} : n.to = m.to /\ n.id = m.id /\ n.hash = m.hash
        BY <4>1 DEF OAMessages
      <4> QED
        BY <1>2, <4>2, <4>3, <4>4
    <3> QED
      BY <3>1, <3>2
  <2>5. ASSUME HandleReplies
        PROVE  oa' \subseteq oa
    BY <2>5 DEF HandleReplies, LookUpBlock, CountVote, RecordOrder, StoreThresholdSig,
                BroadcastOPB
  <2>6. ASSUME NEW m \in oa, StoreAndVote(m)
        PROVE  oa' \subseteq oa
    BY <2>6 DEF StoreAndVote
  <2>7. ASSUME NEW u \in Validators, HandleOB(u) \/ Crash(u)
        PROVE  oa' \subseteq oa
    BY <2>7 DEF HandleOB, Crash, CheckOrdered, LockCmtSnapshot, StoreCertificate
  <2>8. CASE UNCHANGED vars
    BY <2>1, <2>8 DEF vars
  <2> QED
    BY <1>2, <2>1, <2>2, <2>3, <2>4, <2>5, <2>6, <2>7, <2>8 DEF Next, HandleOA
<1>7. \A r \in opaReplies' : Holds(r.sig.by, r.id, r.sig.on)'
  <2>1. CASE opaReplies' \subseteq opaReplies
    BY <1>3, <2>1
  <2>2. ASSUME NEW m \in oa, StoreAndVote(m)
        PROVE  \A r \in opaReplies' : Holds(r.sig.by, r.id, r.sig.on)'
    <3> DEFINE reply == [id |-> m.id, sig |-> PenSign(m.to, m.hash)]
    <3>1. opaReplies' = opaReplies \cup {reply}
      BY <2>2 DEF StoreAndVote
    <3>2. reply.sig.by = m.to /\ reply.id = m.id /\ reply.sig.on = m.hash
      BY DEF PenSign
    <3>3. Holds(m.to, m.id, m.hash)'
      BY <1>2, <2>2 DEF StoreAndVote
    <3> HIDE DEF reply
    <3> QED
      BY <1>3, <3>1, <3>2, <3>3
  <2>3. ASSUME NEW w \in Workers, Worker(w)
        PROVE  opaReplies' \subseteq opaReplies
    BY <2>3 DEF Worker, ReceiveRequest, ReadLogIndex, IncrementLogIndex, StoreOrdSnapshot,
                StoreCmtSnapshot, BroadcastOPA, replyVars
  <2>4. ASSUME HandleReplies
        PROVE  opaReplies' \subseteq opaReplies
    BY <2>4 DEF HandleReplies, LookUpBlock, CountVote, RecordOrder, StoreThresholdSig,
                BroadcastOPB
  <2>5. ASSUME NEW m \in oa, ReserveBlock(m)
        PROVE  opaReplies' \subseteq opaReplies
    BY <2>5 DEF ReserveBlock, replyVars
  <2>6. ASSUME NEW u \in Validators, HandleOB(u) \/ Crash(u)
        PROVE  opaReplies' \subseteq opaReplies
    BY <2>6 DEF HandleOB, Crash, CheckOrdered, LockCmtSnapshot, StoreCertificate, replyVars
  <2>7. CASE UNCHANGED vars
    BY <2>1, <2>7 DEF vars, replyVars
  <2> QED
    BY <2>1, <2>2, <2>3, <2>4, <2>5, <2>6, <2>7 DEF Next, HandleOA
<1>8. \A h \in voteHandlers' : Holds(h.sig.by, h.id, h.sig.on)'
  <2>1. CASE voteHandlers' \subseteq voteHandlers
    BY <1>4, <2>1
  <2>2. ASSUME NEW r \in opaReplies, LookUpBlock(r)
        PROVE  \A h \in voteHandlers' : Holds(h.sig.by, h.id, h.sig.on)'
    BY <1>3, <1>4, <2>2 DEF LookUpBlock
  <2>3. ASSUME NEW h \in voteHandlers, CountVote(h)
        PROVE  voteHandlers' \subseteq voteHandlers
    BY <2>3 DEF CountVote
  <2>4. ASSUME NEW o \in orderHandlers,
               RecordOrder(o) \/ StoreThresholdSig(o) \/ BroadcastOPB(o)
        PROVE  voteHandlers' \subseteq voteHandlers
    BY <2>4 DEF RecordOrder, StoreThresholdSig, BroadcastOPB
  <2>5. ASSUME NEW w \in Workers, Worker(w)
        PROVE  voteHandlers' \subseteq voteHandlers
    BY <2>5 DEF Worker, ReceiveRequest, ReadLogIndex, IncrementLogIndex, StoreOrdSnapshot,
                StoreCmtSnapshot, BroadcastOPA, replyVars
  <2>6. ASSUME NEW u \in Validators, HandleOA(u) \/ HandleOB(u) \/ Crash(u)
        PROVE  voteHandlers' \subseteq voteHandlers
    BY <2>6 DEF HandleOA, HandleOB, Crash, ReserveBlock, StoreAndVote, CheckOrdered,
                LockCmtSnapshot, StoreCertificate, replyVars
  <2>7. CASE UNCHANGED vars
    BY <2>1, <2>7 DEF vars, replyVars
  <2> QED
    BY <2>1, <2>2, <2>3, <2>4, <2>5, <2>6, <2>7 DEF Next, HandleReplies
<1>9. \A hash \in DOMAIN blocks' : \A s \in blocks'[hash].sigs :
          \A id : id = blocks'[hash].id => Holds(s.by, id, s.on)'
  <2>1. CASE UNCHANGED blocks
    BY <1>5, <2>1
  <2>2. ASSUME NEW w \in Workers, StoreOrdSnapshot(w)
        PROVE  \A hash \in DOMAIN blocks' : \A s \in blocks'[hash].sigs :
                   hash \in DOMAIN blocks /\ blocks'[hash] = blocks[hash]
    BY <2>2 DEF StoreOrdSnapshot, Put
  <2>3. ASSUME NEW h \in voteHandlers, CountVote(h), ~UNCHANGED blocks
        PROVE  \A hash \in DOMAIN blocks' : \A s \in blocks'[hash].sigs :
                   \A id : id = blocks'[hash].id => Holds(s.by, id, s.on)'
    <3> DEFINE new == [blocks[h.frag] EXCEPT !.len = blocks[h.frag].len + 1,
                                             !.sigs = blocks[h.frag].sigs \cup {h.sig}]
    <3>1. /\ h.frag \in DOMAIN blocks /\ blocks[h.frag].id = h.id
          /\ blocks[h.frag] \in [id : BlockIds, len : Nat, sigs : SUBSET Shares]
      BY DEF SnapshotInv, TypeOK, IsMap
    <3>2. new.id = h.id /\ new.sigs = blocks[h.frag].sigs \cup {h.sig}
      BY <3>1
    <3>3. blocks' = Put(blocks, h.frag, new)
      BY <2>3 DEF CountVote
    <3> HIDE DEF new
    <3>4. Holds(h.sig.by, h.id, h.sig.on)'
      BY <1>4
    <3>5. \A hash \in DOMAIN blocks' :
              IF hash = h.frag THEN blocks'[hash] = new
              ELSE hash \in DOMAIN blocks /\ blocks'[hash] = blocks[hash]
      BY <3>3 DEF Put
    <3> QED
      BY <1>5, <3>1, <3>2, <3>4, <3>5
  <2>4. ASSUME NEW w \in Workers, Worker(w), ~StoreOrdSnapshot(w)
        PROVE  UNCHANGED blocks
    BY <2>4 DEF Worker, ReceiveRequest, ReadLogIndex, IncrementLogIndex, StoreCmtSnapshot,
                BroadcastOPA
  <2>5. ASSUME NEW r \in opaReplies, LookUpBlock(r)
        PROVE  UNCHANGED blocks
    BY <2>5 DEF LookUpBlock, proposerVars
  <2>6. ASSUME NEW o \in orderHandlers,
               RecordOrder(o) \/ StoreThresholdSig(o) \/ BroadcastOPB(o)
        PROVE  UNCHANGED blocks
    BY <2>6 DEF RecordOrder, StoreThresholdSig, BroadcastOPB, proposerVars
  <2>7. ASSUME NEW u \in Validators, HandleOA(u) \/ HandleOB(u) \/ Crash(u)
        PROVE  UNCHANGED blocks
    BY <2>7 DEF HandleOA, HandleOB, Crash, ReserveBlock, StoreAndVote, CheckOrdered,
                LockCmtSnapshot, StoreCertificate, proposerVars
  <2>8. CASE UNCHANGED vars
    BY <2>1, <2>8 DEF vars, proposerVars
  <2> QED
    BY <1>5, <2>1, <2>2, <2>3, <2>4, <2>5, <2>6, <2>7, <2>8 DEF Next, HandleReplies
<1> QED
  BY <1>6, <1>7, <1>8, <1>9 DEF ShareInv
-------------------------------------------------------------------------------
(***************************************************************************)
(* The theorems.                                                           *)
(***************************************************************************)

\* The invariant holds initially.
LEMMA InitIInv == Init => IInv
<1> SUFFICES ASSUME Init PROVE IInv
  OBVIOUS
<1>1. DOMAIN EmptyMap = {}
  BY DEF EmptyMap
<1> QED
  BY <1>1, InitType DEF Init, IInv, BatchInv, SnapshotInv, ShareInv

\* The invariant holds throughout.
THEOREM Invariance == Spec => []IInv
<1>1. IInv /\ [Next]_vars => IInv'
  BY NextType, BatchStep, SnapshotStep, ShareStep DEF IInv
<1> QED
  BY InitIInv, <1>1, PTL DEF Spec

\* Every variable has its type, in every behaviour of the ordering phase.
THEOREM TypeCorrect == Spec => []TypeOK
<1>1. IInv => TypeOK
  BY DEF IInv
<1> QED
  BY Invariance, <1>1, PTL

\* The servers that signed a block are validators that hold it.
LEMMA SignersHold ==
    ASSUME IInv, NEW hash, Certified(hash)
    PROVE  /\ Holders(blocks[hash].id, hash) \subseteq Validators
           /\ IsFiniteSet(Holders(blocks[hash].id, hash))
           /\ Cardinality(Holders(blocks[hash].id, hash)) \in Nat
           /\ Cardinality(Holders(blocks[hash].id, hash)) >= Thresh
<1> DEFINE holders == Holders(blocks[hash].id, hash)
           signers == {s.by : s \in blocks[hash].sigs}
<1>1. holders \subseteq Validators
  BY DEF Holders
<1>2. IsFiniteSet(holders) /\ Cardinality(holders) \in Nat
  BY <1>1, ConstantsAssumption, FS_Subset, FS_CardinalityType
<1>3. signers \subseteq holders
  <2>1. hash \in DOMAIN blocks /\ blocks[hash].sigs \subseteq Shares
    BY DEF Certified, IInv, TypeOK, IsMap
  <2> QED
    BY <2>1 DEF Certified, PenRecovers, IInv, ShareInv, Holders, Shares
<1>4. Cardinality(signers) <= Cardinality(holders) /\ Cardinality(signers) \in Nat
  BY <1>2, <1>3, FS_Subset, FS_CardinalityType
<1>5. Cardinality(signers) >= Thresh
  BY DEF Certified, PenRecovers
<1> HIDE DEF holders, signers
<1>6. Cardinality(holders) >= Thresh
  BY <1>2, <1>4, <1>5, ThreshBounds
<1> QED
  BY <1>1, <1>2, <1>6 DEF holders

\* A certificate exists only if 2F+1 servers reserved exactly that block under
\* exactly that id.
THEOREM CertificatesBacked == Spec => []CertificateBacked
<1>1. IInv => CertificateBacked
  <2> SUFFICES ASSUME IInv, NEW hash \in DOMAIN blocks, Certified(hash)
               PROVE  Cardinality(Holders(blocks[hash].id, hash)) + 1 >= 2 * F + 1
    BY DEF CertificateBacked
  <2> QED
    BY SignersHold, ThreshBounds
<1> QED
  BY Invariance, <1>1, PTL

\* In every booth of at least three members, except one of five, two sets of
\* Threshold validators have a member in common.
LEMMA ThreshMajority ==
    ASSUME BoothSize >= 3, BoothSize # 5
    PROVE  2 * Thresh > Cardinality(Validators)
<1> DEFINE q == BoothSize \div 3
<1>1. BoothSize \in Nat /\ Cardinality(Validators) = BoothSize - 1
  BY ConstantsAssumption, FS_CardinalityType DEF BoothSize
<1>2. Thresh = 2 * q
  BY <1>1 DEF Thresh, Threshold, Quorum
<1>3. q \in Nat /\ 3 * q <= BoothSize /\ BoothSize <= 3 * q + 2
  BY <1>1
<1> HIDE DEF q
<1>4. CASE q >= 2
  BY <1>1, <1>2, <1>3, <1>4
<1>5. CASE q < 2
  BY <1>1, <1>2, <1>3, <1>5
<1> QED
  BY <1>3, <1>4, <1>5

\* In such a booth no two blocks are certified under one id, however many workers
\* race for it.  A booth of five has a quorum of three: two disjoint pairs of
\* validators can certify two blocks.
THEOREM OneCertificate ==
    BoothSize >= 3 /\ BoothSize # 5 => (Spec => []OneCertificatePerId)
<1> SUFFICES ASSUME BoothSize >= 3, BoothSize # 5
             PROVE  Spec => []OneCertificatePerId
  OBVIOUS
<1>1. IInv => OneCertificatePerId
  <2> SUFFICES ASSUME IInv, NEW g \in DOMAIN blocks, NEW h \in DOMAIN blocks,
                      Certified(g), Certified(h), blocks[g].id = blocks[h].id
               PROVE  g = h
    BY DEF OneCertificatePerId
  <2> DEFINE G == Holders(blocks[g].id, g)
             H == Holders(blocks[h].id, h)
  <2>1. /\ G \subseteq Validators /\ Cardinality(G) \in Nat /\ Cardinality(G) >= Thresh
        /\ H \subseteq Validators /\ Cardinality(H) \in Nat /\ Cardinality(H) >= Thresh
    BY SignersHold
  <2>2. Cardinality(G) + Cardinality(H) > Cardinality(Validators)
    BY <2>1, ThreshMajority, ThreshBounds, ConstantsAssumption, FS_CardinalityType
  <2>3. PICK v \in Validators : v \in G /\ v \in H
    <3> HIDE DEF G, H
    <3>1. G \cap H # {}
      BY <2>1, <2>2, ConstantsAssumption, FS_MajoritiesIntersect
    <3> QED
      BY <2>1, <3>1
  <2> QED
    BY <2>3 DEF Holders, Holds
<1> QED
  BY Invariance, <1>1, PTL

-------------------------------------------------------------------------------
(***************************************************************************)
(* What the caches hold: the blocks are disjoint batches, a certificate is *)
(* stored under the id of the block it certifies, and a lock is kept for   *)
(* ever only at validators whose votes were not needed.                    *)
(***************************************************************************)

\* What the reply goroutines past the count carry, and what they announce, is a
\* certificate.
CertInv ==
    /\ \A o \in orderHandlers : Certified(o.hash) /\ blocks[o.hash].id = o.id
    /\ \A m \in ob : Certified(m.hash) /\ blocks[m.hash].id = m.id

\* The consensus cache holds the block of hash under the id the block was given.
Cached(hash, id) == hash \in DOMAIN blocks /\ blocks[hash].id = id

\* A block enters the consensus cache before it is sent, once, and under an id that
\* stays there.
CacheInv ==
    /\ \A id \in DOMAIN cmtSnapshot : Cached(cmtSnapshot[id].hash, id)
    /\ \A w \in Workers : pc[w] = "cmt" =>
           /\ Cached(Digest(shuffle[w]), newBlockId[w])
           /\ \A id \in DOMAIN cmtSnapshot : cmtSnapshot[id].hash # Digest(shuffle[w])
    /\ \A w \in Workers : pc[w] = "bcast" => newBlockId[w] \in DOMAIN cmtSnapshot
    /\ \A m \in oa : m.id \in DOMAIN cmtSnapshot

\* The certificates in the consensus cache are those of blocks with that id.
SigInv ==
    \A id \in DOMAIN cmtSnapshot : cmtSnapshot[id].tSig # NoSig =>
        \E h \in DOMAIN blocks :
            Certified(h) /\ blocks[h].id = id /\ cmtSnapshot[id].tSig = CombSig(h)

\* A validator stores a block once, before it votes for it.
Stores(v, id, hash) == id \in DOMAIN vCmt[v] /\ vCmt[v][id].hash = hash

StoreInv ==
    /\ vCmt = [v \in Validators |-> vCmt[v]]
    /\ \A v \in Validators : ordJobs[v] \subseteq DOMAIN vCmt[v]
    /\ \A v \in Validators : DOMAIN vCmt[v] \subseteq DOMAIN vOrd[v]
    /\ \A m \in oa : m.pc = "cmt" => m.id \notin DOMAIN vCmt[m.to]
    /\ \A r \in opaReplies : Stores(r.sig.by, r.id, r.sig.on)
    /\ \A h \in voteHandlers : Stores(h.sig.by, h.id, h.sig.on)
    /\ \A hash \in DOMAIN blocks : \A s \in blocks[hash].sigs :
           Stores(s.by, blocks[hash].id, s.on)

CInv == IInv /\ CertInv /\ CacheInv /\ SigInv /\ StoreInv

\* A batch is formed when it is full.
FullInv ==
    /\ \A w \in Workers : IsFiniteSet(shuffle[w])
    /\ \A w \in Workers : IF pc[w] = "recv" THEN Cardinality(shuffle[w]) < BatchSize
                          ELSE Cardinality(shuffle[w]) = BatchSize
    /\ BatchesDisjoint
-------------------------------------------------------------------------------
(***************************************************************************)
(* Which steps touch what the consensus phase shares.                      *)
(***************************************************************************)
LEMMA BlockFrame ==
    ASSUME [Next]_vars
    PROVE  \/ UNCHANGED blocks
           \/ \E w \in Workers : StoreOrdSnapshot(w)
           \/ \E h \in voteHandlers : CountVote(h)
BY DEF Next, vars, proposerVars, replyVars, validatorVars, Worker, ReceiveRequest, ReadLogIndex,
       IncrementLogIndex, StoreCmtSnapshot, BroadcastOPA, HandleReplies, LookUpBlock, RecordOrder,
       StoreThresholdSig, BroadcastOPB, HandleOA, HandleOB, ReserveBlock, StoreAndVote,
       CheckOrdered, LockCmtSnapshot, StoreCertificate, Crash

LEMMA RecordFrame ==
    ASSUME [Next]_vars
    PROVE  \/ UNCHANGED <<orderHandlers, vgrec>>
           \/ \E h \in voteHandlers : CountVote(h)
           \/ \E o \in orderHandlers : RecordOrder(o) \/ StoreThresholdSig(o) \/ BroadcastOPB(o)
BY DEF Next, vars, proposerVars, replyVars, validatorVars, Worker, ReceiveRequest, ReadLogIndex,
       IncrementLogIndex, StoreOrdSnapshot, StoreCmtSnapshot, BroadcastOPA, HandleReplies,
       LookUpBlock, HandleOA, HandleOB, ReserveBlock, StoreAndVote,
       CheckOrdered, LockCmtSnapshot, StoreCertificate, Crash

LEMMA CacheFrame ==
    ASSUME [Next]_vars
    PROVE  \/ UNCHANGED cmtSnapshot
           \/ \E w \in Workers : StoreCmtSnapshot(w)
           \/ \E o \in orderHandlers : StoreThresholdSig(o)
BY DEF Next, vars, proposerVars, replyVars, validatorVars, Worker, ReceiveRequest, ReadLogIndex,
       IncrementLogIndex, StoreOrdSnapshot, BroadcastOPA, HandleReplies, LookUpBlock, CountVote,
       RecordOrder, BroadcastOPB, HandleOA, HandleOB, ReserveBlock, StoreAndVote,
       CheckOrdered, LockCmtSnapshot, StoreCertificate, Crash

LEMMA StoreFrame ==
    ASSUME [Next]_vars
    PROVE  \/ UNCHANGED <<vCmt, ordJobs>>
           \/ \E m \in oa : StoreAndVote(m)
           \/ \E m \in ob : StoreCertificate(m)
BY DEF Next, vars, proposerVars, replyVars, validatorVars, Worker, ReceiveRequest, ReadLogIndex,
       IncrementLogIndex, StoreOrdSnapshot, StoreCmtSnapshot, BroadcastOPA, HandleReplies,
       LookUpBlock, CountVote, RecordOrder, StoreThresholdSig, BroadcastOPB, HandleOA, HandleOB,
       ReserveBlock, CheckOrdered, LockCmtSnapshot, Crash

LEMMA OAFrame ==
    ASSUME [Next]_vars
    PROVE  \/ oa' \subseteq oa
           \/ \E w \in Workers : BroadcastOPA(w)
           \/ \E m \in oa : ReserveBlock(m) /\ ~AlreadyUsed(m.to, m.id)
BY DEF Next, vars, proposerVars, replyVars, validatorVars, Worker, ReceiveRequest, ReadLogIndex,
       IncrementLogIndex, StoreOrdSnapshot, StoreCmtSnapshot, HandleReplies,
       LookUpBlock, CountVote, RecordOrder, StoreThresholdSig, BroadcastOPB, HandleOA, HandleOB,
       ReserveBlock, StoreAndVote, CheckOrdered, LockCmtSnapshot, StoreCertificate, Crash

LEMMA OBFrame ==
    ASSUME [Next]_vars
    PROVE  \/ ob' \subseteq ob
           \/ \E o \in orderHandlers : BroadcastOPB(o)
           \/ \E m \in ob : \E next \in {"cmt", "locked"} :
                  ob' = (ob \ {m}) \cup {[m EXCEPT !.pc = next]}
BY DEF Next, vars, proposerVars, replyVars, validatorVars, Worker, ReceiveRequest, ReadLogIndex,
       IncrementLogIndex, StoreOrdSnapshot, StoreCmtSnapshot, BroadcastOPA, HandleReplies,
       LookUpBlock, CountVote, RecordOrder, StoreThresholdSig, HandleOA, HandleOB,
       ReserveBlock, StoreAndVote, CheckOrdered, LockCmtSnapshot, StoreCertificate, Crash

\* A block keeps its id, and its certificate.
LEMMA BlockStable ==
    ASSUME IInv, [Next]_vars, NEW hash \in DOMAIN blocks
    PROVE  /\ hash \in DOMAIN blocks'
           /\ blocks'[hash].id = blocks[hash].id
           /\ Certified(hash) => Certified(hash)'
<1>1. CASE UNCHANGED blocks
  BY <1>1 DEF Certified
<1>2. ASSUME NEW w \in Workers, StoreOrdSnapshot(w)
      PROVE  hash \in DOMAIN blocks' /\ blocks'[hash] = blocks[hash]
  <2>1. Digest(shuffle[w]) \notin DOMAIN blocks
    BY <1>2, FreshDigest DEF IInv, StoreOrdSnapshot
  <2> QED
    BY <1>2, <2>1 DEF StoreOrdSnapshot, Put
<1>3. ASSUME NEW h \in voteHandlers, CountVote(h)
      PROVE  /\ hash \in DOMAIN blocks' /\ blocks'[hash].id = blocks[hash].id
             /\ Certified(hash) => blocks'[hash] = blocks[hash]
  <2>1. hash = h.frag /\ Certified(hash) => UNCHANGED blocks
    BY <1>3 DEF CountVote, VotesComplete, Certified
  <2> QED
    BY <1>3, <2>1, CountChanges DEF IInv
<1> QED
  BY <1>1, <1>2, <1>3, BlockFrame DEF Certified

LEMMA ReplyFrame ==
    ASSUME [Next]_vars
    PROVE  opaReplies' \subseteq opaReplies \/ \E m \in oa : StoreAndVote(m)
BY DEF Next, vars, proposerVars, replyVars, validatorVars, Worker, ReceiveRequest, ReadLogIndex,
       IncrementLogIndex, StoreOrdSnapshot, StoreCmtSnapshot, BroadcastOPA, HandleReplies,
       LookUpBlock, CountVote, RecordOrder, StoreThresholdSig, BroadcastOPB, HandleOA, HandleOB,
       ReserveBlock, CheckOrdered, LockCmtSnapshot, StoreCertificate, Crash

LEMMA VoteFrame ==
    ASSUME [Next]_vars
    PROVE  voteHandlers' \subseteq voteHandlers \/ \E r \in opaReplies : LookUpBlock(r)
BY DEF Next, vars, proposerVars, replyVars, validatorVars, Worker, ReceiveRequest, ReadLogIndex,
       IncrementLogIndex, StoreOrdSnapshot, StoreCmtSnapshot, BroadcastOPA, HandleReplies,
       CountVote, RecordOrder, StoreThresholdSig, BroadcastOPB, HandleOA, HandleOB,
       ReserveBlock, StoreAndVote, CheckOrdered, LockCmtSnapshot, StoreCertificate, Crash
-------------------------------------------------------------------------------
(***************************************************************************)
(* Certificates.                                                           *)
(***************************************************************************)

\* Completing a certificate creates the one goroutine that will record the block.
LEMMA CountCertifies ==
    ASSUME IInv, NEW h \in voteHandlers, CountVote(h)
    PROVE  /\ UNCHANGED <<vgrec, ob>>
           /\ \/ UNCHANGED orderHandlers
              \/ \E o : /\ orderHandlers' = orderHandlers \cup {o}
                        /\ o.pc = "record" /\ Certified(o.hash)' /\ blocks'[o.hash].id = o.id
                        /\ ~Certified(o.hash)
<1> SUFFICES ASSUME ~UNCHANGED orderHandlers
             PROVE  \E o : /\ orderHandlers' = orderHandlers \cup {o}
                           /\ o.pc = "record" /\ Certified(o.hash)'
                           /\ blocks'[o.hash].id = o.id
                           /\ ~Certified(o.hash)
  BY DEF CountVote
<1> DEFINE o == [id |-> h.id, hash |-> h.frag, pc |-> "record"]
           sigs == blocks[h.frag].sigs \cup {h.sig}
           new == [blocks[h.frag] EXCEPT !.len = blocks[h.frag].len + 1, !.sigs = sigs]
<1>1. /\ blocks[h.frag].len # Thresh
      /\ orderHandlers' = orderHandlers \cup {o}
      /\ blocks[h.frag].len + 1 = Thresh /\ PenRecovers(sigs, h.frag, Thresh)
      /\ blocks' = Put(blocks, h.frag, new)
  BY DEF CountVote, VotesComplete
<1>2. /\ h.frag \in DOMAIN blocks
      /\ blocks[h.frag] \in [id : BlockIds, len : Nat, sigs : SUBSET Shares]
      /\ blocks[h.frag].id = h.id
  BY DEF IInv, SnapshotInv, TypeOK, IsMap
<1>3. new.id = h.id /\ new.len = Thresh /\ new.sigs = sigs
  BY <1>1, <1>2
<1>4. h.frag \in DOMAIN blocks' /\ blocks'[h.frag] = new
  BY <1>1 DEF Put
<1> HIDE DEF new, sigs
<1>5. Certified(h.frag)' /\ blocks'[h.frag].id = h.id
  BY <1>1, <1>3, <1>4 DEF Certified
<1>6. ~Certified(h.frag)
  BY <1>1 DEF Certified
<1>7. o.pc = "record" /\ o.hash = h.frag /\ o.id = h.id
  OBVIOUS
<1> HIDE DEF o
<1> QED
  BY <1>1, <1>5, <1>6, <1>7

\* A goroutine that moves on keeps its block.
LEMMA AdvanceKeeps ==
    ASSUME TypeOK, NEW o \in orderHandlers, NEW next \in {"record", "tsig", "bcast"}
    PROVE  \E n : /\ Advance(o, next) = (orderHandlers \ {o}) \cup {n}
                  /\ n.id = o.id /\ n.hash = o.hash /\ n.pc = next
<1>1. o \in [id : BlockIds, hash : Hashes, pc : {"record", "tsig", "bcast"}]
  BY DEF TypeOK
<1> DEFINE n == [o EXCEPT !.pc = next]
<1>2. n.id = o.id /\ n.hash = o.hash /\ n.pc = next
  BY <1>1
<1>3. Advance(o, next) = (orderHandlers \ {o}) \cup {n}
  BY DEF Advance
<1> QED
  BY <1>2, <1>3

\* A certificate stays one, with whoever carries it.
LEMMA CertStep ==
    ASSUME IInv, CertInv, [Next]_vars
    PROVE  CertInv'
<1>1. /\ \A o \in orderHandlers : Certified(o.hash)' /\ blocks'[o.hash].id = o.id
      /\ \A m \in ob : Certified(m.hash)' /\ blocks'[m.hash].id = m.id
  BY BlockStable DEF CertInv, Certified
<1>2. \A o \in orderHandlers' : Certified(o.hash)' /\ blocks'[o.hash].id = o.id
  <2>1. ASSUME NEW h \in voteHandlers, CountVote(h), ~UNCHANGED orderHandlers
        PROVE  \A o \in orderHandlers' : Certified(o.hash)' /\ blocks'[o.hash].id = o.id
    <3>1. PICK o : /\ orderHandlers' = orderHandlers \cup {o}
                   /\ Certified(o.hash)' /\ blocks'[o.hash].id = o.id
      BY <2>1, CountCertifies
    <3> QED
      BY <1>1, <3>1
  <2>2. ASSUME NEW o \in orderHandlers, RecordOrder(o) \/ StoreThresholdSig(o)
        PROVE  \A p \in orderHandlers' :
                   \E q \in orderHandlers : p.hash = q.hash /\ p.id = q.id
    <3>1. \A next \in {"tsig", "bcast"} :
              \A p \in Advance(o, next) :
                  \E q \in orderHandlers : p.hash = q.hash /\ p.id = q.id
      BY AdvanceKeeps DEF IInv
    <3> QED
      BY <2>2, <3>1 DEF RecordOrder, StoreThresholdSig
  <2>3. ASSUME NEW o \in orderHandlers, BroadcastOPB(o)
        PROVE  orderHandlers' \subseteq orderHandlers
    BY <2>3 DEF BroadcastOPB
  <2> QED
    BY <1>1, <2>1, <2>2, <2>3, RecordFrame
<1>3. \A m \in ob' : Certified(m.hash)' /\ blocks'[m.hash].id = m.id
  <2>1. ASSUME NEW o \in orderHandlers, BroadcastOPB(o)
        PROVE  \A m \in ob' : m \in ob \/ (m.hash = o.hash /\ m.id = o.id)
    BY <2>1 DEF BroadcastOPB
  <2>2. ASSUME NEW m \in ob, NEW next \in {"cmt", "locked"},
               ob' = (ob \ {m}) \cup {[m EXCEPT !.pc = next]}
        PROVE  \A n \in ob' : \E q \in ob : n.hash = q.hash /\ n.id = q.id
    <3>1. m \in OBMessages
      BY DEF IInv, TypeOK
    <3>2. [m EXCEPT !.pc = next].hash = m.hash /\ [m EXCEPT !.pc = next].id = m.id
      BY <3>1 DEF OBMessages
    <3> QED
      BY <2>2, <3>2
  <2> QED
    BY <1>1, <2>1, <2>2, OBFrame
<1> QED
  BY <1>2, <1>3 DEF CertInv
-------------------------------------------------------------------------------
(***************************************************************************)
(* The consensus cache.                                                    *)
(***************************************************************************)

\* Storing a certificate leaves the blocks and their ids alone, and other certificates.
LEMMA WithSigKeeps ==
    ASSUME NEW m, NEW n, NEW id, NEW sig, n = WithSig(m, id, sig),
           m = [x \in DOMAIN m |-> m[x]],
           \A x \in DOMAIN m : m[x] \in [hash : Hashes, tSig : Sigs]
    PROVE  /\ DOMAIN n = DOMAIN m
           /\ \A x \in DOMAIN m : n[x].hash = m[x].hash
           /\ \A x \in DOMAIN m : IF x = id THEN n[x].tSig = sig ELSE n[x] = m[x]
<1>1. n = [x \in DOMAIN m |-> IF x = id THEN [m[id] EXCEPT !.tSig = sig] ELSE m[x]]
  BY DEF WithSig
<1>2. id \in DOMAIN m => /\ [m[id] EXCEPT !.tSig = sig].hash = m[id].hash
                        /\ [m[id] EXCEPT !.tSig = sig].tSig = sig
  OBVIOUS
<1> QED
  BY <1>1, <1>2

\* The cache loses no id, and gains only blocks that workers store.
LEMMA CacheGrows ==
    ASSUME IInv, [Next]_vars
    PROVE  /\ DOMAIN cmtSnapshot \subseteq DOMAIN cmtSnapshot'
           /\ \A id \in DOMAIN cmtSnapshot' :
                  \/ id \in DOMAIN cmtSnapshot /\ cmtSnapshot'[id].hash = cmtSnapshot[id].hash
                  \/ \E w \in Workers : /\ StoreCmtSnapshot(w) /\ id = newBlockId[w]
                                        /\ cmtSnapshot'[id].hash = Digest(shuffle[w])
<1>1. ASSUME NEW w \in Workers, StoreCmtSnapshot(w)
      PROVE  /\ DOMAIN cmtSnapshot \subseteq DOMAIN cmtSnapshot'
             /\ \A id \in DOMAIN cmtSnapshot' :
                    \/ id \in DOMAIN cmtSnapshot /\ cmtSnapshot'[id].hash = cmtSnapshot[id].hash
                    \/ id = newBlockId[w] /\ cmtSnapshot'[id].hash = Digest(shuffle[w])
  BY <1>1 DEF StoreCmtSnapshot, Put
<1>2. ASSUME NEW o \in orderHandlers, StoreThresholdSig(o)
      PROVE  /\ DOMAIN cmtSnapshot = DOMAIN cmtSnapshot'
             /\ \A id \in DOMAIN cmtSnapshot : cmtSnapshot'[id].hash = cmtSnapshot[id].hash
  BY <1>2, WithSigKeeps DEF StoreThresholdSig, IInv, TypeOK, IsMap
<1> QED
  BY <1>1, <1>2, CacheFrame

\* Batches of two workers have different digests.
LEMMA DigestsDiffer ==
    ASSUME IInv, NEW w \in Workers, NEW x \in Workers, w # x,
           pc[w] # "recv", pc[x] # "recv"
    PROVE  Digest(shuffle[w]) # Digest(shuffle[x])
<1>1. PICK r \in shuffle[w] : r[1] = w
  BY DEF IInv, BatchInv
<1>2. r \notin shuffle[x]
  BY <1>1 DEF IInv, BatchInv
<1>3. shuffle[w] \in Blocks /\ shuffle[x] \in Blocks
  BY DEF IInv, TypeOK
<1> QED
  BY <1>1, <1>2, <1>3, DigestType

\* Who waits to store a block in the cache, and whose block is there.
LEMMA WorkerFrame ==
    ASSUME TypeOK, [Next]_vars, NEW x \in Workers
    PROVE  /\ pc'[x] = "cmt" =>
                  \/ StoreOrdSnapshot(x)
                  \/ /\ pc[x] = "cmt" /\ ~StoreCmtSnapshot(x)
                     /\ shuffle'[x] = shuffle[x] /\ newBlockId'[x] = newBlockId[x]
           /\ pc'[x] = "bcast" =>
                  /\ newBlockId'[x] = newBlockId[x]
                  /\ pc[x] = "bcast" \/ StoreCmtSnapshot(x)
<1>1. StoreCmtSnapshot(x) => pc[x] = "cmt" /\ pc'[x] = "bcast"
  BY DEF StoreCmtSnapshot, TypeOK
<1>2. CASE UNCHANGED <<pc, shuffle, newBlockId>>
  BY <1>1, <1>2
<1>3. ASSUME NEW w \in Workers, Worker(w)
      PROVE  /\ pc'[x] = "cmt" =>
                    \/ StoreOrdSnapshot(x)
                    \/ /\ pc[x] = "cmt" /\ ~StoreCmtSnapshot(x)
                       /\ shuffle'[x] = shuffle[x] /\ newBlockId'[x] = newBlockId[x]
             /\ pc'[x] = "bcast" =>
                    /\ newBlockId'[x] = newBlockId[x]
                    /\ pc[x] = "bcast" \/ StoreCmtSnapshot(x)
  <2>1. CASE x = w
    BY <1>3, <2>1 DEF Worker, ReceiveRequest, ReadLogIndex, IncrementLogIndex, StoreOrdSnapshot,
                      StoreCmtSnapshot, BroadcastOPA, TypeOK
  <2>2. CASE x # w
    <3>1. pc'[x] = pc[x] /\ shuffle'[x] = shuffle[x] /\ newBlockId'[x] = newBlockId[x]
      BY <1>3, <2>2 DEF Worker, ReceiveRequest, ReadLogIndex, IncrementLogIndex,
                        StoreOrdSnapshot, StoreCmtSnapshot, BroadcastOPA, TypeOK
    <3> QED
      BY <1>1, <3>1
  <2> QED
    BY <2>1, <2>2
<1>4. ASSUME HandleReplies PROVE UNCHANGED <<pc, shuffle, newBlockId>>
  BY <1>4 DEF HandleReplies, LookUpBlock, CountVote, RecordOrder, StoreThresholdSig,
              BroadcastOPB, proposerVars
<1>5. ASSUME NEW v \in Validators, HandleOA(v) \/ HandleOB(v) \/ Crash(v)
      PROVE  UNCHANGED <<pc, shuffle, newBlockId>>
  BY <1>5 DEF HandleOA, HandleOB, Crash, ReserveBlock, StoreAndVote, CheckOrdered,
              LockCmtSnapshot, StoreCertificate, proposerVars
<1>6. CASE UNCHANGED vars
  BY <1>2, <1>6 DEF vars, proposerVars
<1> QED
  BY <1>2, <1>3, <1>4, <1>5, <1>6 DEF Next

\* A block enters the cache once, and before it is sent.
LEMMA CacheStep ==
    ASSUME IInv, CacheInv, [Next]_vars
    PROVE  CacheInv'
<1>1. TypeOK
  BY DEF IInv
<1>2. /\ \A hash, id : Cached(hash, id) => Cached(hash, id)'
      /\ DOMAIN cmtSnapshot \subseteq DOMAIN cmtSnapshot'
  BY BlockStable, CacheGrows DEF Cached
<1>3. \A w \in Workers : StoreCmtSnapshot(w) => Cached(Digest(shuffle[w]), newBlockId[w])
  BY DEF CacheInv, StoreCmtSnapshot
<1>4. \A id \in DOMAIN cmtSnapshot' : Cached(cmtSnapshot'[id].hash, id)
  BY <1>3, CacheGrows DEF CacheInv
<1>5. ASSUME NEW w \in Workers, pc'[w] = "cmt"
      PROVE  /\ Cached(Digest(shuffle[w]), newBlockId[w])'
             /\ \A id \in DOMAIN cmtSnapshot' : cmtSnapshot'[id].hash # Digest(shuffle'[w])
  <2>1. CASE StoreOrdSnapshot(w)
    <3>1. PICK hash, frag : /\ hash = Digest(shuffle[w])
                            /\ frag = [id |-> newBlockId[w], len |-> 0, sigs |-> {}]
      OBVIOUS
    <3>2. /\ shuffle' = shuffle /\ newBlockId' = newBlockId
          /\ blocks' = Put(blocks, hash, frag)
      BY <2>1, <3>1 DEF StoreOrdSnapshot
    <3>3. frag.id = newBlockId[w]
      BY <3>1
    <3>4. Cached(Digest(shuffle[w]), newBlockId[w])'
      BY <3>1, <3>2, <3>3 DEF Cached, Put
    <3>5. hash \notin DOMAIN blocks
      BY <2>1, <3>1, FreshDigest DEF IInv
    <3> QED
      BY <1>4, <3>1, <3>2, <3>4, <3>5 DEF Cached
  <2>2. CASE /\ pc[w] = "cmt" /\ ~StoreCmtSnapshot(w)
             /\ shuffle'[w] = shuffle[w] /\ newBlockId'[w] = newBlockId[w]
    <3>1. /\ Cached(Digest(shuffle[w]), newBlockId[w])
          /\ \A id \in DOMAIN cmtSnapshot : cmtSnapshot[id].hash # Digest(shuffle[w])
      BY <2>2 DEF CacheInv
    <3>2. \A x \in Workers : StoreCmtSnapshot(x) => Digest(shuffle[x]) # Digest(shuffle[w])
      BY <2>2, DigestsDiffer DEF StoreCmtSnapshot
    <3>3. Cached(Digest(shuffle[w]), newBlockId[w])'
      <4>1. PICK hash, id : hash = Digest(shuffle[w]) /\ id = newBlockId[w]
        OBVIOUS
      <4>2. Cached(hash, id)'
        BY <1>2, <3>1, <4>1
      <4>3. Digest(shuffle[w])' = hash
        BY <2>2, <4>1 DEF Digest
      <4> QED
        BY <2>2, <4>1, <4>2, <4>3 DEF Cached
    <3> QED
      BY <1>2, <2>2, <3>1, <3>2, <3>3, CacheGrows
  <2> QED
    BY <1>1, <1>5, <2>1, <2>2, WorkerFrame
<1>6. ASSUME NEW w \in Workers, pc'[w] = "bcast"
      PROVE  newBlockId'[w] \in DOMAIN cmtSnapshot'
  <2>1. newBlockId'[w] = newBlockId[w] /\ (pc[w] = "bcast" \/ StoreCmtSnapshot(w))
    BY <1>1, <1>6, WorkerFrame
  <2>2. StoreCmtSnapshot(w) => newBlockId[w] \in DOMAIN cmtSnapshot'
    BY DEF StoreCmtSnapshot, Put
  <2> QED
    BY <1>2, <2>1, <2>2 DEF CacheInv
<1>7. \A m \in oa' : m.id \in DOMAIN cmtSnapshot'
  <2>1. CASE oa' \subseteq oa
    BY <1>2, <2>1 DEF CacheInv
  <2>2. ASSUME NEW w \in Workers, BroadcastOPA(w)
        PROVE  \A m \in oa' : m \in oa \/ m.id \in DOMAIN cmtSnapshot
    BY <2>2 DEF BroadcastOPA, CacheInv
  <2>3. ASSUME NEW m \in oa, ReserveBlock(m)
        PROVE  \A n \in oa' : n.id \in DOMAIN cmtSnapshot
    <3>1. m \in OAMessages
      BY <1>1 DEF TypeOK
    <3>2. [m EXCEPT !.pc = "cmt"].id = m.id
      BY <3>1 DEF OAMessages
    <3>3. oa' \subseteq oa \cup {[m EXCEPT !.pc = "cmt"]}
      BY <2>3 DEF ReserveBlock
    <3> QED
      BY <3>2, <3>3 DEF CacheInv
  <2> QED
    BY <1>2, <2>1, <2>2, <2>3, OAFrame DEF CacheInv
<1>8. \A id \in DOMAIN cmtSnapshot' : Cached(cmtSnapshot[id].hash, id)'
  <2>1. \A hash, id : Cached(hash, id) => hash \in DOMAIN blocks' /\ blocks'[hash].id = id
    BY <1>2 DEF Cached
  <2> QED
    BY <1>4, <2>1 DEF Cached
<1> QED
  BY <1>5, <1>6, <1>7, <1>8 DEF CacheInv

\* The certificate goes to the entry with the block's id, and is lost when another block
\* is stored there.
LEMMA SigStep ==
    ASSUME IInv, CertInv, SigInv, [Next]_vars
    PROVE  SigInv'
<1>1. \A h \in DOMAIN blocks :
          Certified(h) => h \in DOMAIN blocks' /\ Certified(h)' /\ blocks'[h].id = blocks[h].id
  BY BlockStable
<1>2. ASSUME NEW id \in DOMAIN cmtSnapshot, NEW sig, sig = cmtSnapshot[id].tSig, sig # NoSig
      PROVE  \E h \in DOMAIN blocks' : Certified(h)' /\ blocks'[h].id = id /\ sig = CombSig(h)
  BY <1>1, <1>2 DEF SigInv
<1>3. CASE UNCHANGED cmtSnapshot
  BY <1>2, <1>3 DEF SigInv, CombSig, NoSig
<1>4. ASSUME NEW w \in Workers, StoreCmtSnapshot(w)
      PROVE  \A id \in DOMAIN cmtSnapshot' :
                 \/ cmtSnapshot'[id].tSig = NoSig
                 \/ id \in DOMAIN cmtSnapshot /\ cmtSnapshot'[id].tSig = cmtSnapshot[id].tSig
  <2>1. PICK frag : frag = [hash |-> Digest(shuffle[w]), tSig |-> NoSig]
    OBVIOUS
  <2>2. frag.tSig = NoSig
    BY <2>1
  <2> QED
    BY <1>4, <2>1, <2>2 DEF StoreCmtSnapshot, Put
<1>5. ASSUME NEW o \in orderHandlers, StoreThresholdSig(o)
      PROVE  \A id \in DOMAIN cmtSnapshot' :
                 \/ id = o.id /\ cmtSnapshot'[id].tSig = CombSig(o.hash)
                 \/ id \in DOMAIN cmtSnapshot /\ cmtSnapshot'[id].tSig = cmtSnapshot[id].tSig
  <2>1. /\ DOMAIN cmtSnapshot' = DOMAIN cmtSnapshot
        /\ \A x \in DOMAIN cmtSnapshot : IF x = o.id THEN cmtSnapshot'[x].tSig = CombSig(o.hash)
                                        ELSE cmtSnapshot'[x] = cmtSnapshot[x]
    BY <1>5, WithSigKeeps DEF StoreThresholdSig, IInv, TypeOK, IsMap
  <2> QED
    BY <2>1
<1>6. \A o \in orderHandlers :
          /\ o.hash \in DOMAIN blocks' /\ Certified(o.hash)' /\ blocks'[o.hash].id = o.id
  BY <1>1 DEF CertInv, Certified
<1>7. \A id \in DOMAIN cmtSnapshot' : cmtSnapshot'[id].tSig # NoSig =>
          \E h \in DOMAIN blocks' :
              Certified(h)' /\ blocks'[h].id = id /\ cmtSnapshot'[id].tSig = CombSig(h)
  BY <1>2, <1>3, <1>4, <1>5, <1>6, CacheFrame
<1> QED
  BY <1>7 DEF SigInv, CombSig, NoSig

-------------------------------------------------------------------------------
(***************************************************************************)
(* What the validators have stored.                                        *)
(***************************************************************************)

\* Two goroutines that have both reserved an id at one validator are one.
LEMMA OneReservation ==
    ASSUME IInv, NEW m \in oa, NEW n \in oa, m.pc = "cmt", n.pc = "cmt",
           m.to = n.to, m.id = n.id
    PROVE  m = n
<1>1. m.hash = n.hash
  BY DEF IInv, ShareInv, Holds
<1>2. m \in OAMessages /\ n \in OAMessages
  BY DEF IInv, TypeOK
<1> QED
  BY <1>1, <1>2 DEF OAMessages

\* A validator's blocks: which step adds one, and none goes.
LEMMA StoreGrows ==
    ASSUME IInv, StoreInv, [Next]_vars, NEW v \in Validators
    PROVE  /\ DOMAIN vCmt' = Validators
           /\ vCmt' = [u \in Validators |-> vCmt'[u]]
           /\ \A id \in DOMAIN vCmt[v] :
                  id \in DOMAIN vCmt'[v] /\ vCmt'[v][id].hash = vCmt[v][id].hash
           /\ ordJobs'[v] \subseteq DOMAIN vCmt'[v]
           /\ \A id \in DOMAIN vCmt'[v] :
                  \/ id \in DOMAIN vCmt[v]
                  \/ \E m \in oa : StoreAndVote(m) /\ m.to = v /\ m.id = id
<1>1. /\ vCmt = [u \in Validators |-> vCmt[u]] /\ DOMAIN vCmt = Validators
      /\ ordJobs[v] \subseteq DOMAIN vCmt[v] /\ ordJobs \in [Validators -> SUBSET BlockIds]
  BY DEF IInv, StoreInv, TypeOK
<1>2. CASE UNCHANGED <<vCmt, ordJobs>>
  BY <1>1, <1>2
<1>3. ASSUME NEW m \in oa, StoreAndVote(m)
      PROVE  /\ DOMAIN vCmt' = Validators
             /\ vCmt' = [u \in Validators |-> vCmt'[u]]
             /\ \A id \in DOMAIN vCmt[v] :
                    id \in DOMAIN vCmt'[v] /\ vCmt'[v][id] = vCmt[v][id]
             /\ ordJobs'[v] \subseteq DOMAIN vCmt'[v]
             /\ \A id \in DOMAIN vCmt'[v] : id \in DOMAIN vCmt[v] \/ (m.to = v /\ m.id = id)
  <2>1. PICK frag : frag = [hash |-> m.hash, tSig |-> NoSig]
    OBVIOUS
  <2>2. /\ vCmt' = [vCmt EXCEPT ![m.to] = Put(vCmt[m.to], m.id, frag)]
        /\ ordJobs' = [ordJobs EXCEPT ![m.to] = ordJobs[m.to] \cup {m.id}]
    BY <1>3, <2>1 DEF StoreAndVote
  <2>3. m.to \in Validators /\ m.id \notin DOMAIN vCmt[m.to]
    BY <1>3 DEF StoreAndVote, StoreInv, IInv, TypeOK, OAMessages
  <2>4. DOMAIN vCmt' = Validators /\ vCmt' = [u \in Validators |-> vCmt'[u]]
    BY <1>1, <2>2
  <2>5. CASE v = m.to
    BY <1>1, <2>2, <2>3, <2>4, <2>5 DEF Put
  <2>6. CASE v # m.to
    <3>1. vCmt'[v] = vCmt[v] /\ ordJobs'[v] = ordJobs[v]
      BY <1>1, <2>2, <2>6
    <3> QED
      BY <1>1, <2>4, <3>1
  <2> QED
    BY <2>5, <2>6
<1>4. ASSUME NEW m \in ob, StoreCertificate(m)
      PROVE  /\ DOMAIN vCmt' = Validators
             /\ vCmt' = [u \in Validators |-> vCmt'[u]]
             /\ \A id \in DOMAIN vCmt[v] : vCmt'[v][id].hash = vCmt[v][id].hash
             /\ DOMAIN vCmt'[v] = DOMAIN vCmt[v]
             /\ ordJobs' = ordJobs
  <2>1. /\ vCmt' = [vCmt EXCEPT ![m.to] = WithSig(vCmt[m.to], m.id, m.sig)]
        /\ ordJobs' = ordJobs
    BY <1>4 DEF StoreCertificate
  <2>2. m.to \in Validators
    BY DEF IInv, TypeOK, OBMessages
  <2>3. DOMAIN vCmt' = Validators /\ vCmt' = [u \in Validators |-> vCmt'[u]]
    BY <1>1, <2>1
  <2>4. CASE v = m.to
    <3>1. vCmt'[v] = WithSig(vCmt[v], m.id, m.sig)
      BY <1>1, <2>1, <2>4
    <3>2. /\ vCmt[v] = [x \in DOMAIN vCmt[v] |-> vCmt[v][x]]
          /\ \A x \in DOMAIN vCmt[v] : vCmt[v][x] \in [hash : Hashes, tSig : Sigs]
      BY DEF IInv, TypeOK, IsMap
    <3> QED
      BY <2>1, <2>3, <3>1, <3>2, WithSigKeeps
  <2>5. CASE v # m.to
    <3>1. vCmt'[v] = vCmt[v]
      BY <1>1, <2>1, <2>5
    <3> QED
      BY <2>1, <2>3, <3>1
  <2> QED
    BY <2>4, <2>5
<1> QED
  BY <1>1, <1>2, <1>3, <1>4, StoreFrame

\* A stored block stays.
LEMMA StoresStable ==
    ASSUME IInv, StoreInv, [Next]_vars, NEW v \in Validators, NEW id, NEW hash,
           Stores(v, id, hash)
    PROVE  Stores(v, id, hash)'
BY StoreGrows DEF Stores

\* The vote of a validator follows the block it stores.
LEMMA VoteStores ==
    ASSUME IInv, StoreInv, NEW m \in oa, StoreAndVote(m)
    PROVE  Stores(m.to, m.id, m.hash)'
<1>1. m.to \in Validators /\ DOMAIN vCmt = Validators
  BY DEF IInv, TypeOK, OAMessages
<1> QED
  BY <1>1 DEF StoreAndVote, Stores, Put

\* A reservation has no block until its goroutine stores it.
LEMMA ReservationStep ==
    ASSUME IInv, StoreInv, [Next]_vars
    PROVE  \A m \in oa' : m.pc = "cmt" => m.id \notin DOMAIN vCmt'[m.to]
<1>1. \A m \in oa : m.to \in Validators
  BY DEF IInv, TypeOK, OAMessages
<1>2. CASE oa' \subseteq oa
  <2> SUFFICES ASSUME NEW m \in oa', m.pc = "cmt", m.id \in DOMAIN vCmt'[m.to]
               PROVE  FALSE
    OBVIOUS
  <2>1. m \in oa /\ m.to \in Validators /\ m.id \notin DOMAIN vCmt[m.to]
    BY <1>1, <1>2 DEF StoreInv
  <2>2. PICK n \in oa : StoreAndVote(n) /\ n.to = m.to /\ n.id = m.id
    BY <2>1, StoreGrows
  <2>3. n = m
    BY <2>1, <2>2, OneReservation DEF StoreAndVote
  <2> QED
    BY <2>2, <2>3 DEF StoreAndVote
<1>3. ASSUME NEW w \in Workers, BroadcastOPA(w)
      PROVE  /\ vCmt' = vCmt
             /\ \A m \in oa' : m.pc = "cmt" => m \in oa
  BY <1>3 DEF BroadcastOPA, validatorVars
<1>4. ASSUME NEW m \in oa, ReserveBlock(m), ~AlreadyUsed(m.to, m.id)
      PROVE  \A n \in oa' : n.pc = "cmt" => n.id \notin DOMAIN vCmt'[n.to]
  <2>1. m \in OAMessages
    BY DEF IInv, TypeOK
  <2>2. [m EXCEPT !.pc = "cmt"].id = m.id /\ [m EXCEPT !.pc = "cmt"].to = m.to
    BY <2>1 DEF OAMessages
  <2>3. oa' = (oa \ {m}) \cup {[m EXCEPT !.pc = "cmt"]} /\ vCmt' = vCmt
    BY <1>4 DEF ReserveBlock
  <2>4. m.id \notin DOMAIN vCmt[m.to]
    BY <1>1, <1>4 DEF AlreadyUsed, StoreInv
  <2> QED
    BY <2>2, <2>3, <2>4 DEF StoreInv
<1> QED
  BY <1>2, <1>3, <1>4, OAFrame DEF StoreInv

\* Every reply, until it is counted, is that of a validator that stored the block.
LEMMA StoreStep ==
    ASSUME IInv, StoreInv, [Next]_vars
    PROVE  StoreInv'
<1>1. /\ \A r \in opaReplies : r.sig.by \in Validators
      /\ \A h \in voteHandlers : h.sig.by \in Validators
      /\ \A hash \in DOMAIN blocks : \A s \in blocks[hash].sigs : s.by \in Validators
  BY DEF IInv, TypeOK, Replies, Shares, IsMap
<1>2. /\ \A r \in opaReplies : Stores(r.sig.by, r.id, r.sig.on)'
      /\ \A h \in voteHandlers : Stores(h.sig.by, h.id, h.sig.on)'
      /\ \A hash \in DOMAIN blocks : \A s \in blocks[hash].sigs :
             \A id : id = blocks[hash].id => Stores(s.by, id, s.on)'
  BY <1>1, StoresStable DEF StoreInv
<1>3. vCmt' = [v \in Validators |-> vCmt'[v]]
  <2>1. CASE Validators = {}
    <3>1. oa = {} /\ ob = {}
      BY <2>1 DEF IInv, TypeOK, OAMessages, OBMessages
    <3>2. vCmt' = vCmt
      BY <3>1, StoreFrame
    <3> QED
      BY <3>2 DEF StoreInv
  <2> QED
    BY <2>1, StoreGrows
<1>4. ASSUME NEW v \in Validators
      PROVE  ordJobs'[v] \subseteq DOMAIN vCmt'[v] /\ DOMAIN vCmt'[v] \subseteq DOMAIN vOrd'[v]
  <2>1. ASSUME NEW id \in DOMAIN vOrd[v] PROVE id \in DOMAIN vOrd'[v]
    <3>1. PICK hash : hash = vOrd[v][id]
      OBVIOUS
    <3>2. Holds(v, id, hash)
      BY <3>1 DEF Holds
    <3>3. Holds(v, id, hash)'
      BY <3>2, HoldsStable DEF IInv
    <3> QED
      BY <3>3 DEF Holds
  <2>2. ASSUME NEW m \in oa, StoreAndVote(m) PROVE m.id \in DOMAIN vOrd[m.to]
    BY <2>2 DEF StoreAndVote, IInv, ShareInv, Holds
  <2> QED
    BY <2>1, <2>2, StoreGrows DEF StoreInv
<1>5. \A r \in opaReplies' : Stores(r.sig.by, r.id, r.sig.on)'
  <2>1. ASSUME NEW m \in oa, StoreAndVote(m)
        PROVE  \A r \in opaReplies' : Stores(r.sig.by, r.id, r.sig.on)'
    <3> DEFINE reply == [id |-> m.id, sig |-> PenSign(m.to, m.hash)]
    <3>1. opaReplies' = opaReplies \cup {reply}
      BY <2>1 DEF StoreAndVote
    <3>2. reply.sig.by = m.to /\ reply.id = m.id /\ reply.sig.on = m.hash
      BY DEF PenSign
    <3> HIDE DEF reply
    <3> QED
      BY <1>2, <2>1, <3>1, <3>2, VoteStores
  <2> QED
    BY <1>2, <2>1, ReplyFrame
<1>6. \A h \in voteHandlers' : Stores(h.sig.by, h.id, h.sig.on)'
  <2>1. ASSUME NEW r \in opaReplies, LookUpBlock(r)
        PROVE  \A h \in voteHandlers' :
                   h \in voteHandlers \/ (h.id = r.id /\ h.sig = r.sig)
    BY <2>1 DEF LookUpBlock
  <2> QED
    BY <1>2, <2>1, VoteFrame
<1>7. \A hash \in DOMAIN blocks' : \A s \in blocks'[hash].sigs :
          \A id : id = blocks'[hash].id => Stores(s.by, id, s.on)'
  <2>1. CASE UNCHANGED blocks
    BY <1>2, <2>1
  <2>2. ASSUME NEW w \in Workers, StoreOrdSnapshot(w)
        PROVE  \A hash \in DOMAIN blocks' : \A s \in blocks'[hash].sigs :
                   hash \in DOMAIN blocks /\ blocks'[hash] = blocks[hash]
    BY <2>2 DEF StoreOrdSnapshot, Put
  <2>3. ASSUME NEW h \in voteHandlers, CountVote(h), ~UNCHANGED blocks
        PROVE  \A hash \in DOMAIN blocks' : \A s \in blocks'[hash].sigs :
                   \A id : id = blocks'[hash].id => Stores(s.by, id, s.on)'
    <3> DEFINE new == [blocks[h.frag] EXCEPT !.len = blocks[h.frag].len + 1,
                                             !.sigs = blocks[h.frag].sigs \cup {h.sig}]
    <3>1. /\ h.frag \in DOMAIN blocks /\ blocks[h.frag].id = h.id
          /\ blocks[h.frag] \in [id : BlockIds, len : Nat, sigs : SUBSET Shares]
      BY DEF IInv, SnapshotInv, TypeOK, IsMap
    <3>2. new.id = h.id /\ new.sigs = blocks[h.frag].sigs \cup {h.sig}
      BY <3>1
    <3>3. blocks' = Put(blocks, h.frag, new)
      BY <2>3 DEF CountVote
    <3> HIDE DEF new
    <3>4. \A hash \in DOMAIN blocks' :
              IF hash = h.frag THEN blocks'[hash] = new
              ELSE hash \in DOMAIN blocks /\ blocks'[hash] = blocks[hash]
      BY <3>3 DEF Put
    <3> QED
      BY <1>2, <3>1, <3>2, <3>4
  <2> QED
    BY <1>2, <2>1, <2>2, <2>3, BlockFrame
<1> QED
  BY <1>3, <1>4, <1>5, <1>6, <1>7, ReservationStep DEF StoreInv
-------------------------------------------------------------------------------
(***************************************************************************)
(* Full batches.                                                           *)
(***************************************************************************)
LEMMA FullStep ==
    ASSUME IInv, FullInv, [Next]_vars
    PROVE  FullInv'
<1> USE ConstantsAssumption
<1>1. /\ shuffle \in [Workers -> Blocks] /\ DOMAIN pc = Workers
      /\ \A x \in Workers : IsFiniteSet(shuffle[x]) /\ Cardinality(shuffle[x]) \in Nat
  BY FS_CardinalityType DEF IInv, TypeOK, FullInv
<1>2. \A e : EntriesOf(e)' = EntriesOf(e)
  BY DEF EntriesOf
<1>3. ASSUME DOMAIN blocks' = DOMAIN blocks PROVE BatchesDisjoint'
  BY <1>2, <1>3 DEF FullInv, BatchesDisjoint
<1>4. CASE UNCHANGED <<shuffle, pc>> /\ DOMAIN blocks' = DOMAIN blocks
  BY <1>3, <1>4 DEF FullInv
<1>5. ASSUME NEW w \in Workers, ReceiveRequest(w) PROVE FullInv'
  <2> DEFINE e == <<w, requestQueue[w]>>
  <2>1. /\ shuffle' = [shuffle EXCEPT ![w] = shuffle[w] \cup {e}]
        /\ pc' = [pc EXCEPT ![w] =
                     IF Cardinality(shuffle'[w]) < BatchSize THEN "recv" ELSE "index"]
        /\ pc[w] = "recv" /\ blocks' = blocks
    BY <1>5 DEF ReceiveRequest
  <2>2. e \notin shuffle[w]
    <3>1. requestQueue[w] \in Int
      BY DEF IInv, TypeOK
    <3>2. \A r \in shuffle[w] : r[2] > requestQueue[w]
      BY DEF IInv, BatchInv
    <3> QED
      BY <3>1, <3>2
  <2>3. /\ shuffle'[w] = shuffle[w] \cup {e} /\ IsFiniteSet(shuffle'[w])
        /\ Cardinality(shuffle'[w]) = Cardinality(shuffle[w]) + 1
    BY <1>1, <2>1, <2>2, FS_AddElement
  <2>4. Cardinality(shuffle[w]) < BatchSize
    BY <2>1 DEF FullInv
  <2>5. IF pc'[w] = "recv" THEN Cardinality(shuffle'[w]) < BatchSize
        ELSE Cardinality(shuffle'[w]) = BatchSize
    BY <1>1, <2>1, <2>3, <2>4
  <2>6. \A x \in Workers : x # w => shuffle'[x] = shuffle[x] /\ pc'[x] = pc[x]
    BY <1>1, <2>1
  <2> QED
    BY <1>3, <2>1, <2>3, <2>5, <2>6 DEF FullInv
<1>6. ASSUME NEW w \in Workers,
             ReadLogIndex(w) \/ IncrementLogIndex(w) \/ StoreCmtSnapshot(w)
      PROVE  FullInv'
  <2>1. /\ shuffle' = shuffle /\ blocks' = blocks
        /\ \A x \in Workers : pc'[x] = "recv" <=> pc[x] = "recv"
    BY <1>1, <1>6 DEF ReadLogIndex, IncrementLogIndex, StoreCmtSnapshot
  <2> QED
    BY <1>3, <2>1 DEF FullInv
<1>7. ASSUME NEW w \in Workers, StoreOrdSnapshot(w) PROVE FullInv'
  <2>1. PICK new : new = Digest(shuffle[w])
    OBVIOUS
  <2>2. /\ shuffle' = shuffle /\ DOMAIN blocks' = DOMAIN blocks \cup {new} /\ pc[w] = "ord"
        /\ \A x \in Workers : pc'[x] = "recv" <=> pc[x] = "recv"
    BY <1>1, <1>7, <2>1 DEF StoreOrdSnapshot, Put
  <2>3. /\ EntriesOf(new) = shuffle[w] /\ Cardinality(shuffle[w]) = BatchSize
        /\ \A h \in DOMAIN blocks : shuffle[w] \cap EntriesOf(h) = {}
    BY <1>7, <2>1, <2>2, FreshDigest DEF IInv, BatchInv, FullInv
  <2>4. BatchesDisjoint'
    BY <1>2, <2>2, <2>3 DEF FullInv, BatchesDisjoint
  <2> QED
    BY <2>2, <2>4 DEF FullInv
<1>8. ASSUME NEW w \in Workers, BroadcastOPA(w) PROVE FullInv'
  <2>1. /\ shuffle' = [shuffle EXCEPT ![w] = {}] /\ pc' = [pc EXCEPT ![w] = "recv"]
        /\ blocks' = blocks
    BY <1>8 DEF BroadcastOPA, NextBatch
  <2>2. /\ IsFiniteSet(shuffle'[w]) /\ Cardinality(shuffle'[w]) < BatchSize /\ pc'[w] = "recv"
        /\ \A x \in Workers : x # w => shuffle'[x] = shuffle[x] /\ pc'[x] = pc[x]
    BY <1>1, <2>1, FS_EmptySet
  <2> QED
    BY <1>3, <2>1, <2>2 DEF FullInv
<1>9. ASSUME NEW h \in voteHandlers, CountVote(h)
      PROVE  UNCHANGED <<shuffle, pc>> /\ DOMAIN blocks' = DOMAIN blocks
  BY <1>9, CountChanges DEF CountVote, IInv
<1>10. ASSUME HandleReplies, ~\E h \in voteHandlers : CountVote(h)
       PROVE  UNCHANGED <<shuffle, pc, blocks>>
  BY <1>10 DEF HandleReplies, LookUpBlock, RecordOrder, StoreThresholdSig, BroadcastOPB,
               proposerVars
<1>11. ASSUME NEW v \in Validators, HandleOA(v) \/ HandleOB(v) \/ Crash(v)
       PROVE  UNCHANGED <<shuffle, pc, blocks>>
  BY <1>11 DEF HandleOA, HandleOB, Crash, ReserveBlock, StoreAndVote, CheckOrdered,
               LockCmtSnapshot, StoreCertificate, proposerVars
<1>12. CASE UNCHANGED vars
  BY <1>4, <1>12 DEF vars, proposerVars
<1> QED
  BY <1>4, <1>5, <1>6, <1>7, <1>8, <1>9, <1>10, <1>11, <1>12 DEF Next, Worker
-------------------------------------------------------------------------------
(***************************************************************************)
(* What is left of a worker's load.                                        *)
(***************************************************************************)

\* The requests of w that are in no block: those it has not received, and those it
\* has collected for the next block.
Left(w) == ({w} \X (1..MsgLoad)) \ UNION {EntriesOf(h) : h \in DOMAIN blocks}

LeftInv ==
    \A w \in Workers :
        /\ \E k \in Nat : Cardinality(Left(w)) = MsgLoad - k * BatchSize
        /\ Cardinality(Left(w)) = requestQueue[w] +
               (IF pc[w] \in {"cmt", "bcast"} THEN 0 ELSE Cardinality(shuffle[w]))

LEMMA LeftFinite ==
    \A w : /\ IsFiniteSet({w} \X (1..MsgLoad)) /\ Cardinality({w} \X (1..MsgLoad)) = MsgLoad
           /\ IsFiniteSet(Left(w)) /\ Cardinality(Left(w)) \in Nat
<1> TAKE w
<1>1. IsFiniteSet(1..MsgLoad) /\ Cardinality(1..MsgLoad) = MsgLoad
  BY ConstantsAssumption, FS_Interval
<1>2. IsFiniteSet({w}) /\ Cardinality({w}) = 1
  BY FS_Singleton
<1>3. IsFiniteSet({w} \X (1..MsgLoad)) /\ Cardinality({w} \X (1..MsgLoad)) = MsgLoad
  <2>1. Cardinality({w} \X (1..MsgLoad)) = Cardinality({w}) * Cardinality(1..MsgLoad)
    BY <1>1, <1>2, FS_Product
  <2>2. IsFiniteSet({w} \X (1..MsgLoad))
    BY <1>1, <1>2, FS_Product
  <2>3. 1 * MsgLoad = MsgLoad
    BY ConstantsAssumption
  <2> QED
    BY <1>1, <1>2, <2>1, <2>2, <2>3
<1>4. Left(w) \subseteq {w} \X (1..MsgLoad)
  BY DEF Left
<1> QED
  BY <1>3, <1>4, FS_Subset, FS_CardinalityType

LEMMA LeftInit == Init => LeftInv
<1> SUFFICES ASSUME Init, NEW w \in Workers
             PROVE  /\ \E k \in Nat : Cardinality(Left(w)) = MsgLoad - k * BatchSize
                    /\ Cardinality(Left(w)) = requestQueue[w] +
                           (IF pc[w] \in {"cmt", "bcast"} THEN 0 ELSE Cardinality(shuffle[w]))
  BY DEF LeftInv
<1>1. DOMAIN blocks = {}
  BY DEF Init, EmptyMap
<1>2. Left(w) = {w} \X (1..MsgLoad)
  BY <1>1 DEF Left
<1>3. Cardinality(Left(w)) = MsgLoad
  BY <1>2, LeftFinite
<1>4. Cardinality(Left(w)) = MsgLoad - 0 * BatchSize
  BY <1>3, ConstantsAssumption
<1>5. requestQueue[w] = MsgLoad /\ pc[w] = "recv" /\ Cardinality(shuffle[w]) = 0
  BY FS_EmptySet DEF Init
<1>6. \E k \in Nat : Cardinality(Left(w)) = MsgLoad - k * BatchSize
  BY <1>4
<1> QED
  BY <1>3, <1>5, <1>6, ConstantsAssumption

LEMMA LeftStep ==
    ASSUME IInv, FullInv, LeftInv, [Next]_vars
    PROVE  LeftInv'
<1>1. /\ shuffle \in [Workers -> Blocks] /\ DOMAIN pc = Workers
      /\ requestQueue \in [Workers -> 0..MsgLoad]
      /\ \A x \in Workers : IsFiniteSet(shuffle[x]) /\ Cardinality(shuffle[x]) \in Nat
  BY FS_CardinalityType DEF IInv, TypeOK, FullInv
<1> DEFINE Open(x) == IF pc[x] \in {"cmt", "bcast"} THEN 0 ELSE Cardinality(shuffle[x])
<1>2. ASSUME DOMAIN blocks' = DOMAIN blocks,
             \A x \in Workers : requestQueue'[x] + Open(x)' = requestQueue[x] + Open(x)
      PROVE  LeftInv'
  <2>1. \A x : Left(x)' = Left(x)
    BY <1>2 DEF Left, EntriesOf
  <2> QED
    BY <1>2, <2>1 DEF LeftInv
<1>3. CASE UNCHANGED <<requestQueue, shuffle, pc>> /\ DOMAIN blocks' = DOMAIN blocks
  BY <1>2, <1>3
<1>4. ASSUME NEW w \in Workers, ReceiveRequest(w) PROVE LeftInv'
  <2> DEFINE e == <<w, requestQueue[w]>>
  <2>1. /\ shuffle' = [shuffle EXCEPT ![w] = shuffle[w] \cup {e}]
        /\ requestQueue' = [requestQueue EXCEPT ![w] = requestQueue[w] - 1]
        /\ pc' = [pc EXCEPT ![w] =
                     IF Cardinality(shuffle'[w]) < BatchSize THEN "recv" ELSE "index"]
        /\ pc[w] = "recv" /\ blocks' = blocks
    BY <1>4 DEF ReceiveRequest
  <2>2. e \notin shuffle[w]
    <3>1. requestQueue[w] \in Int
      BY <1>1
    <3>2. \A r \in shuffle[w] : r[2] > requestQueue[w]
      BY DEF IInv, BatchInv
    <3> QED
      BY <3>1, <3>2
  <2>3. Cardinality(shuffle'[w]) = Cardinality(shuffle[w]) + 1
    BY <1>1, <2>1, <2>2, FS_AddElement
  <2>4. pc'[w] \in {"recv", "index"} /\ requestQueue'[w] = requestQueue[w] - 1
    BY <1>1, <2>1
  <2>5. requestQueue'[w] + Open(w)' = requestQueue[w] + Open(w)
    BY <1>1, <2>1, <2>3, <2>4
  <2>6. \A x \in Workers \ {w} : requestQueue'[x] + Open(x)' = requestQueue[x] + Open(x)
    BY <1>1, <2>1
  <2> QED
    BY <1>2, <2>1, <2>5, <2>6
<1>5. ASSUME NEW w \in Workers,
             ReadLogIndex(w) \/ IncrementLogIndex(w) \/ StoreCmtSnapshot(w)
      PROVE  LeftInv'
  <2>1. /\ shuffle' = shuffle /\ requestQueue' = requestQueue /\ blocks' = blocks
        /\ \A x \in Workers : pc'[x] \in {"cmt", "bcast"} <=> pc[x] \in {"cmt", "bcast"}
    BY <1>1, <1>5 DEF ReadLogIndex, IncrementLogIndex, StoreCmtSnapshot
  <2> QED
    BY <1>2, <2>1
<1>6. ASSUME NEW w \in Workers, StoreOrdSnapshot(w) PROVE LeftInv'
  <2>1. PICK new : new = Digest(shuffle[w])
    OBVIOUS
  <2>2. /\ shuffle' = shuffle /\ requestQueue' = requestQueue
        /\ DOMAIN blocks' = DOMAIN blocks \cup {new} /\ pc[w] = "ord" /\ pc'[w] = "cmt"
        /\ \A x \in Workers \ {w} : pc'[x] = pc[x]
    BY <1>1, <1>6, <2>1 DEF StoreOrdSnapshot, Put
  <2>3. /\ EntriesOf(new) = shuffle[w] /\ Cardinality(shuffle[w]) = BatchSize
        /\ \A h \in DOMAIN blocks : shuffle[w] \cap EntriesOf(h) = {}
    BY <1>6, <2>1, <2>2, FreshDigest DEF IInv, BatchInv, FullInv
  <2>4. \A x : Left(x)' = Left(x) \ shuffle[w]
    BY <2>2, <2>3 DEF Left, EntriesOf
  <2>5. \A r \in shuffle[w] : r[1] = w /\ r \in Workers \X (1..MsgLoad)
    BY <1>1 DEF IInv, BatchInv, Blocks, Requests
  <2>6. ASSUME NEW x \in Workers \ {w} PROVE Left(x)' = Left(x)
    BY <2>4, <2>5 DEF Left
  <2>7. shuffle[w] \subseteq Left(w)
    BY <2>3, <2>5 DEF Left
  <2>8. Cardinality(Left(w)') = Cardinality(Left(w)) - BatchSize
    <3>1. Left(w) \cap shuffle[w] = shuffle[w] /\ IsFiniteSet(Left(w))
      BY <2>7, LeftFinite
    <3>2. Cardinality(Left(w) \ shuffle[w]) = Cardinality(Left(w)) - Cardinality(shuffle[w])
      BY <1>1, <3>1, FS_Difference
    <3>3. Left(w)' = Left(w) \ shuffle[w]
      BY <2>4
    <3> QED
      BY <2>3, <3>2, <3>3
  <2>9. PICK k \in Nat : Cardinality(Left(w)) = MsgLoad - k * BatchSize
    BY DEF LeftInv
  <2>10. MsgLoad - k * BatchSize - BatchSize = MsgLoad - (k + 1) * BatchSize
    BY ConstantsAssumption
  <2>11. \E n \in Nat : Cardinality(Left(w)') = MsgLoad - n * BatchSize
    BY <2>8, <2>9, <2>10
  <2>12. Cardinality(Left(w)') = requestQueue'[w] + 0
    <3>1. Cardinality(Left(w)) = requestQueue[w] + BatchSize
      BY <2>2, <2>3 DEF LeftInv
    <3> QED
      BY <1>1, <2>2, <2>8, <3>1, ConstantsAssumption
  <2> QED
    BY <2>2, <2>6, <2>11, <2>12 DEF LeftInv
<1>7. ASSUME NEW w \in Workers, BroadcastOPA(w) PROVE LeftInv'
  <2>1. /\ shuffle' = [shuffle EXCEPT ![w] = {}] /\ pc' = [pc EXCEPT ![w] = "recv"]
        /\ blocks' = blocks /\ requestQueue' = requestQueue /\ pc[w] = "bcast"
    BY <1>7 DEF BroadcastOPA, NextBatch
  <2>2. Cardinality(shuffle'[w]) = 0 /\ pc'[w] = "recv"
    BY <1>1, <2>1, FS_EmptySet
  <2>3. \A x \in Workers \ {w} : shuffle'[x] = shuffle[x] /\ pc'[x] = pc[x]
    BY <1>1, <2>1
  <2> QED
    BY <1>2, <2>1, <2>2, <2>3
<1>8. ASSUME NEW h \in voteHandlers, CountVote(h)
      PROVE  UNCHANGED <<requestQueue, shuffle, pc>> /\ DOMAIN blocks' = DOMAIN blocks
  BY <1>8, CountChanges DEF CountVote, IInv
<1>9. ASSUME HandleReplies, ~\E h \in voteHandlers : CountVote(h)
      PROVE  UNCHANGED <<requestQueue, shuffle, pc, blocks>>
  BY <1>9 DEF HandleReplies, LookUpBlock, RecordOrder, StoreThresholdSig, BroadcastOPB,
              proposerVars
<1>10. ASSUME NEW v \in Validators, HandleOA(v) \/ HandleOB(v) \/ Crash(v)
       PROVE  UNCHANGED <<requestQueue, shuffle, pc, blocks>>
  BY <1>10 DEF HandleOA, HandleOB, Crash, ReserveBlock, StoreAndVote, CheckOrdered,
               LockCmtSnapshot, StoreCertificate, proposerVars
<1>11. CASE UNCHANGED vars
  BY <1>3, <1>11 DEF vars, proposerVars
<1> QED
  BY <1>3, <1>4, <1>5, <1>6, <1>7, <1>8, <1>9, <1>10, <1>11 DEF Next, Worker

\* Division has one remainder.
LEMMA OneRemainder ==
    ASSUME NEW m \in Nat, NEW b \in Nat \ {0}, NEW k \in Nat, NEW r \in Nat,
           r = m - k * b, r < b
    PROVE  r = m % b
<1>1. PICK q \in Int, p \in Int : q = m \div b /\ p = m % b
  OBVIOUS
<1>2. m = b * q + p /\ 0 <= p /\ p < b
  BY <1>1
<1>3. PICK d \in Int : d = k - q
  OBVIOUS
<1>4. b * d = p - r
  <2>1. k = q + d
    BY <1>3
  <2>2. k * b = b * q + b * d
    BY <2>1
  <2> QED
    BY <1>2, <2>2
<1>5. b * d < b /\ b * d > -b
  BY <1>2, <1>4
<1>6. d = 0
  <2>1. d >= 1 => b * d >= b
    OBVIOUS
  <2>2. d <= -1 => b * d <= -b
    OBVIOUS
  <2> QED
    BY <1>5, <2>1, <2>2
<1>7. p = r
  <2>1. p - r = 0
    BY <1>4, <1>6
  <2> QED
    BY <2>1
<1> QED
  BY <1>1, <1>7

-------------------------------------------------------------------------------
(***************************************************************************)
(* The theorems.                                                           *)
(***************************************************************************)

\* The invariants hold throughout.
LEMMA CInvariance == Spec => []CInv
<1> DEFINE J == CertInv /\ CacheInv /\ SigInv /\ StoreInv
<1>1. Init => J
  <2> SUFFICES ASSUME Init PROVE J
    OBVIOUS
  <2>1. DOMAIN EmptyMap = {}
    BY DEF EmptyMap
  <2> QED
    BY <2>1 DEF Init, CertInv, CacheInv, SigInv, StoreInv
<1>2. IInv /\ J /\ [Next]_vars => J'
  BY CertStep, CacheStep, SigStep, StoreStep
<1>3. IInv /\ J => CInv
  BY DEF CInv
<1> HIDE DEF J
<1> QED
  BY <1>1, <1>2, <1>3, Invariance, PTL DEF Spec

\* Blocks are disjoint batches of BatchSize requests, however the workers interleave
\* (vordering.go:77-82,130-132).
THEOREM BatchesAreDisjoint == Spec => []BatchesDisjoint
<1>1. Init => FullInv
  <2> SUFFICES ASSUME Init PROVE FullInv
    OBVIOUS
  <2>1. DOMAIN EmptyMap = {}
    BY DEF EmptyMap
  <2> QED
    BY <2>1, FS_EmptySet, ConstantsAssumption DEF Init, FullInv, BatchesDisjoint
<1>2. IInv /\ FullInv /\ [Next]_vars => FullInv'
  BY FullStep
<1>3. FullInv => BatchesDisjoint
  BY DEF FullInv
<1> QED
  BY <1>1, <1>2, <1>3, Invariance, PTL DEF Spec

\* A worker at its empty queue leaves the remainder of its load, and no more, outside the
\* blocks (vordering.go:65-82).
THEOREM RemainderIsLeft == Spec => []RemainderStaysBehind
<1>1. Init => FullInv
  <2> SUFFICES ASSUME Init PROVE FullInv
    OBVIOUS
  <2>1. DOMAIN EmptyMap = {}
    BY DEF EmptyMap
  <2> QED
    BY <2>1, FS_EmptySet, ConstantsAssumption DEF Init, FullInv, BatchesDisjoint
<1>2. IInv /\ FullInv /\ [Next]_vars => FullInv'
  BY FullStep
<1>3. IInv /\ FullInv /\ LeftInv /\ [Next]_vars => LeftInv'
  BY LeftStep
<1>4. FullInv /\ LeftInv => RemainderStaysBehind
  <2> SUFFICES ASSUME FullInv, LeftInv, NEW w \in Workers,
                      pc[w] = "recv", requestQueue[w] = 0
               PROVE  Cardinality(Left(w)) = MsgLoad % BatchSize
    BY DEF RemainderStaysBehind, Left
  <2>1. Cardinality(Left(w)) \in Nat /\ Cardinality(shuffle[w]) \in Nat
    BY LeftFinite, FS_CardinalityType DEF FullInv
  <2>2. Cardinality(Left(w)) < BatchSize
    BY <2>1 DEF FullInv, LeftInv
  <2>3. PICK k \in Nat : Cardinality(Left(w)) = MsgLoad - k * BatchSize
    BY DEF LeftInv
  <2> QED
    BY <2>1, <2>2, <2>3, OneRemainder, ConstantsAssumption
<1> QED
  BY <1>1, <1>2, <1>3, <1>4, LeftInit, Invariance, PTL DEF Spec

\* The certificate stored by block id is that of a certified block of this id.  The block
\* next to it may be another one, but then it has no certificate of its own
\* (vordering.go:126-128,188-222).
THEOREM CertificatesNameTheBlock ==
    BoothSize >= 3 /\ BoothSize # 5 => (Spec => []CertificateOfItsId)
<1> SUFFICES ASSUME BoothSize >= 3, BoothSize # 5
             PROVE  Spec => []CertificateOfItsId
  OBVIOUS
<1>1. CInv /\ OneCertificatePerId => CertificateOfItsId
  <2> SUFFICES ASSUME CInv, OneCertificatePerId,
                      NEW id \in DOMAIN cmtSnapshot, cmtSnapshot[id].tSig # NoSig
               PROVE  \E h \in DOMAIN blocks :
                          /\ blocks[h].id = id /\ Certified(h)
                          /\ cmtSnapshot[id].tSig = CombSig(h)
                          /\ h # cmtSnapshot[id].hash => ~Certified(cmtSnapshot[id].hash)
    BY DEF CertificateOfItsId
  <2>1. PICK h \in DOMAIN blocks :
            Certified(h) /\ blocks[h].id = id /\ cmtSnapshot[id].tSig = CombSig(h)
    BY DEF CInv, SigInv
  <2>2. Cached(cmtSnapshot[id].hash, id)
    BY DEF CInv, CacheInv
  <2>3. h # cmtSnapshot[id].hash => ~Certified(cmtSnapshot[id].hash)
    BY <2>1, <2>2 DEF OneCertificatePerId, Cached
  <2> QED
    BY <2>1, <2>3
<1>2. Spec => []OneCertificatePerId
  BY OneCertificate
<1> QED
  BY <1>1, <1>2, CInvariance, PTL

\* The write lock of cmtSnapshot is a lock.
KeptInv ==
    \A m, n \in ob : m.pc = "locked" /\ n.pc = "locked" /\ m.to = n.to => m = n

LEMMA KeptStep == TypeOK /\ KeptInv /\ [Next]_vars => KeptInv'
<1> SUFFICES ASSUME TypeOK, KeptInv, [Next]_vars PROVE KeptInv'
  OBVIOUS
<1>1. ASSUME NEW m \in ob, LockCmtSnapshot(m) PROVE KeptInv'
  <2>1. \A n \in ob : n.to = m.to => n.pc # "locked"
    BY <1>1 DEF LockCmtSnapshot, CmtLockFree
  <2>2. PICK new : new = [m EXCEPT !.pc = "locked"]
    OBVIOUS
  <2>3. \A n \in ob' : n \in ob \/ n = new
    BY <1>1, <2>2 DEF LockCmtSnapshot
  <2>4. new.to = m.to
    BY <2>2
  <2>5. ASSUME NEW k \in ob', NEW n \in ob', k.pc = "locked", n.pc = "locked", k.to = n.to
        PROVE  k = n
    BY <2>1, <2>3, <2>4, <2>5 DEF KeptInv
  <2> QED
    BY <2>5 DEF KeptInv
<1>2. CASE \A n \in ob' : n.pc = "locked" => n \in ob
  BY <1>2 DEF KeptInv
<1>3. ASSUME NEW m \in ob, CheckOrdered(m) PROVE \A n \in ob' : n.pc = "locked" => n \in ob
  <2>1. \A n \in ob' : n \in ob \/ n = [m EXCEPT !.pc = "cmt"]
    BY <1>3 DEF CheckOrdered
  <2>2. [m EXCEPT !.pc = "cmt"].pc = "cmt"
    BY DEF TypeOK, OBMessages
  <2> QED
    BY <2>1, <2>2
<1>4. ASSUME NEW m \in ob, StoreCertificate(m) PROVE \A n \in ob' : n.pc = "locked" => n \in ob
  BY <1>4 DEF StoreCertificate
<1>5. ASSUME NEW o \in orderHandlers, BroadcastOPB(o)
      PROVE  \A n \in ob' : n.pc = "locked" => n \in ob
  BY <1>5 DEF BroadcastOPB
<1>6. ASSUME NEW v \in Validators, Crash(v) PROVE \A n \in ob' : n.pc = "locked" => n \in ob
  BY <1>6 DEF Crash
<1>7. CASE UNCHANGED ob
  BY <1>7 DEF KeptInv
<1> QED
  BY <1>1, <1>2, <1>3, <1>4, <1>5, <1>6, <1>7
     DEF Next, Worker, ReceiveRequest, ReadLogIndex, IncrementLogIndex, StoreOrdSnapshot,
         StoreCmtSnapshot, BroadcastOPA, HandleReplies, LookUpBlock, CountVote, RecordOrder,
         StoreThresholdSig, HandleOA, ReserveBlock, StoreAndVote, HandleOB, vars

LEMMA KeptInvariance == Spec => []KeptInv
<1>1. Init => KeptInv
  BY DEF Init, KeptInv
<1> QED
  BY <1>1, KeptStep, TypeCorrect, PTL DEF Spec

\* A block keeps the lock only of validators that did not vote for it.
LEMMA KeepersAreSpare ==
    ASSUME CInv, NEW id, NEW u \in Validators, KeepsLock(u, id)
    PROVE  /\ \E h \in DOMAIN blocks : blocks[h].id = id /\ Certified(h)
           /\ \A h \in DOMAIN blocks : blocks[h].id = id =>
                  \A s \in blocks[h].sigs : s.by # u
           /\ Cardinality({v \in Validators : KeepsLock(v, id)})
                  <= Cardinality(Validators) - 2 * F
<1> DEFINE keepers == {v \in Validators : KeepsLock(v, id)}
<1>1. PICK m \in ob : m.id = id
  BY DEF KeepsLock
<1>2. PICK hash : hash = m.hash
  OBVIOUS
<1>3. hash \in DOMAIN blocks /\ Certified(hash) /\ blocks[hash].id = id
  BY <1>1, <1>2 DEF CInv, CertInv, Certified
<1>4. \A h \in DOMAIN blocks : blocks[h].id = id =>
          \A s \in blocks[h].sigs : s.by \notin keepers
  BY DEF CInv, StoreInv, Stores, KeepsLock
<1> DEFINE signers == {s.by : s \in blocks[hash].sigs}
<1>5. signers \subseteq Validators /\ keepers \subseteq Validators \ signers
  BY <1>3, <1>4 DEF CInv, IInv, TypeOK, IsMap, Shares
<1>6. Cardinality(signers) >= Thresh
  BY <1>3 DEF Certified, PenRecovers
<1>7. u \in keepers
  OBVIOUS
<1> HIDE DEF signers, keepers
<1>8. /\ IsFiniteSet(Validators \ signers)
      /\ Cardinality(Validators \ signers) = Cardinality(Validators) - Cardinality(signers)
      /\ Cardinality(Validators) \in Nat /\ Cardinality(signers) \in Nat
  <2>1. Validators \cap signers = signers
    BY <1>5
  <2>2. IsFiniteSet(signers)
    BY <1>5, ConstantsAssumption, FS_Subset
  <2> QED
    BY <2>1, <2>2, ConstantsAssumption, FS_Difference, FS_CardinalityType
<1>9. /\ Cardinality(keepers) <= Cardinality(Validators \ signers)
      /\ Cardinality(keepers) \in Nat
  BY <1>5, <1>8, FS_Subset, FS_CardinalityType
<1>10. Cardinality(keepers) <= Cardinality(Validators) - 2 * F
  BY <1>6, <1>8, <1>9, ThreshBounds
<1> QED
  BY <1>3, <1>4, <1>7, <1>10 DEF keepers

\* OB goroutines block for ever, those waiting behind another one included, only where
\* the lock is kept for one block that the validator did not vote for; for each block
\* these are at most all but Threshold validators (comply.go:117-129).
THEOREM LockKeepersAreSpare == Spec => []LockKeptByNonVoter
<1>1. CInv /\ KeptInv => LockKeptByNonVoter
  <2> SUFFICES ASSUME CInv, KeptInv, NEW m \in ob, NeverReturns(m)
               PROVE  \E id \in DOMAIN vOrd[m.to] :
                  /\ KeepsLock(m.to, id)
                  /\ \E h \in DOMAIN blocks : blocks[h].id = id /\ Certified(h)
                  /\ \A h \in DOMAIN blocks : blocks[h].id = id =>
                         \A s \in blocks[h].sigs : s.by # m.to
                  /\ \A j \in DOMAIN vOrd[m.to] : KeepsLock(m.to, j) => j = id
                  /\ Cardinality({v \in Validators : KeepsLock(v, id)})
                         <= Cardinality(Validators) - 2 * F
    BY DEF LockKeptByNonVoter
  <2>1. PICK id \in DOMAIN vOrd[m.to] : KeepsLock(m.to, id)
    BY DEF NeverReturns
  <2>2. m.to \in Validators
    BY DEF CInv, IInv, TypeOK, OBMessages
  <2>3. \A j \in DOMAIN vOrd[m.to] : KeepsLock(m.to, j) => j = id
    BY <2>1 DEF KeepsLock, KeptInv
  <2> QED
    BY <2>1, <2>2, <2>3, KeepersAreSpare
<1> QED
  BY <1>1, CInvariance, KeptInvariance, PTL
===============================================================================
