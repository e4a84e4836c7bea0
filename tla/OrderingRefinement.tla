-------------------------- MODULE OrderingRefinement --------------------------
(***************************************************************************)
(* The ordering phase implements the abstract log and the interface that   *)
(* the consensus phase is built on, for every booth whose quorums          *)
(* intersect, any number of workers and requests, and any number of        *)
(* crashes.  In the log, reserving a block is the vote, and the reply      *)
(* goroutine whose share completes a certificate fills the slot.  For the  *)
(* interface: no block id is recorded twice.                               *)
(***************************************************************************)
EXTENDS OrderingProofs, MCOrdering

-------------------------------------------------------------------------------
(***************************************************************************)
(* Block ids are slots of the log: every id that is given out has used up  *)
(* a request.                                                              *)
(***************************************************************************)

\* The requests of batches whose worker has gone past the increment.
Used ==
    {r \in Requests :
        /\ r[2] > requestQueue[r[1]]
        /\ pc[r[1]] \in {"recv", "index", "incr"} => r \notin shuffle[r[1]]}

IdInv ==
    /\ logIndex <= Cardinality(Used)
    /\ \A w \in Workers : newBlockId[w] <= logIndex
    /\ \A hash \in DOMAIN blocks : blocks[hash].id <= logIndex
    /\ \A m \in oa : m.id <= logIndex

\* There are as many requests as the workers' queues hold at the start.
LEMMA RequestsFinite ==
    /\ IsFiniteSet(Requests)
    /\ Cardinality(Requests) = Cardinality(Workers) * MsgLoad
<1>1. IsFiniteSet(1..MsgLoad) /\ Cardinality(1..MsgLoad) = MsgLoad
  BY ConstantsAssumption, FS_Interval
<1> QED
  BY <1>1, ConstantsAssumption, FS_Product DEF Requests

LEMMA UsedFinite == IsFiniteSet(Used) /\ Cardinality(Used) \in Nat
BY RequestsFinite, FS_Subset, FS_CardinalityType DEF Used

\* Every id that does not exceed logIndex is one of the log's slots.
LEMMA IdsAreSlots ==
    ASSUME TypeOK, IdInv, NEW id \in BlockIds, id <= logIndex
    PROVE  id \in Ids
<1>1. Cardinality(Used) <= Cardinality(Workers) * MsgLoad
  BY RequestsFinite, FS_Subset DEF Used
<1>2. Cardinality(Workers) * MsgLoad \in Nat
  BY RequestsFinite, FS_CardinalityType
<1> QED
  BY <1>1, <1>2, UsedFinite DEF IdInv, Ids, BlockIds, TypeOK

\* A request stays used.
LEMMA UsedGrows ==
    ASSUME TypeOK, BatchInv, [Next]_vars
    PROVE  Used \subseteq Used'
<1> SUFFICES ASSUME NEW r \in Used PROVE r \in Used'
  OBVIOUS
<1>1. r \in Requests /\ r[1] \in Workers /\ r[2] \in Int
  BY ConstantsAssumption DEF Used, Requests
<1>2. CASE UNCHANGED <<requestQueue, shuffle, pc>>
  BY <1>2 DEF Used
<1>3. ASSUME NEW w \in Workers, ReceiveRequest(w) PROVE r \in Used'
  <2> DEFINE e == <<w, requestQueue[w]>>
  <2>1. /\ requestQueue' = [requestQueue EXCEPT ![w] = requestQueue[w] - 1]
        /\ shuffle' = [shuffle EXCEPT ![w] = shuffle[w] \cup {e}]
        /\ pc[w] = "recv"
        /\ \A x \in Workers : x # w => pc'[x] = pc[x]
    BY <1>3 DEF ReceiveRequest, TypeOK
  <2>2. requestQueue[r[1]] \in Int /\ r[2] > requestQueue[r[1]]
    BY <1>1 DEF Used, TypeOK
  <2>3. requestQueue'[r[1]] \in Int /\ requestQueue'[r[1]] <= requestQueue[r[1]]
    BY <1>1, <2>1, <2>2 DEF TypeOK
  <2>4. r[2] > requestQueue'[r[1]]
    BY <1>1, <2>2, <2>3
  <2>5. r[1] = w => r # e
    BY <2>2
  <2>6. pc'[r[1]] \in {"recv", "index", "incr"} => r \notin shuffle'[r[1]]
    BY <1>1, <2>1, <2>5 DEF Used, TypeOK
  <2> QED
    BY <1>1, <2>4, <2>6 DEF Used
<1>4. ASSUME NEW w \in Workers,
             ReadLogIndex(w) \/ IncrementLogIndex(w) \/ StoreOrdSnapshot(w)
                 \/ StoreCmtSnapshot(w)
      PROVE  r \in Used'
  <2>1. /\ requestQueue' = requestQueue /\ shuffle' = shuffle
        /\ \A x \in Workers : pc'[x] \in {"recv", "index", "incr"} =>
               pc[x] \in {"recv", "index", "incr"}
    BY <1>4 DEF ReadLogIndex, IncrementLogIndex, StoreOrdSnapshot, StoreCmtSnapshot, TypeOK
  <2> QED
    BY <1>1, <2>1 DEF Used
<1>5. ASSUME NEW w \in Workers, BroadcastOPA(w) PROVE r \in Used'
  <2>1. /\ requestQueue' = requestQueue
        /\ shuffle' = [shuffle EXCEPT ![w] = {}] /\ pc' = [pc EXCEPT ![w] = "recv"]
    BY <1>5 DEF BroadcastOPA, NextBatch
  <2> QED
    BY <1>1, <2>1 DEF Used, TypeOK
<1>6. ASSUME HandleReplies PROVE UNCHANGED <<requestQueue, shuffle, pc>>
  BY <1>6 DEF HandleReplies, LookUpBlock, CountVote, RecordOrder, StoreThresholdSig,
              BroadcastOPB, proposerVars
<1>7. ASSUME NEW v \in Validators, HandleOA(v) \/ HandleOB(v) \/ Crash(v)
      PROVE  UNCHANGED <<requestQueue, shuffle, pc>>
  BY <1>7 DEF HandleOA, HandleOB, Crash, ReserveBlock, StoreAndVote, CheckOrdered,
              LockCmtSnapshot, StoreCertificate, proposerVars
<1>8. CASE UNCHANGED vars
  BY <1>2, <1>8 DEF vars, proposerVars
<1> QED
  BY <1>2, <1>3, <1>4, <1>5, <1>6, <1>7, <1>8 DEF Next, Worker

\* The increment uses up the requests of its batch.
LEMMA IncrementUses ==
    ASSUME TypeOK, BatchInv, NEW w \in Workers, IncrementLogIndex(w), Used \subseteq Used'
    PROVE  Cardinality(Used') >= Cardinality(Used) + 1
<1>1. PICK r \in shuffle[w] : TRUE
  BY DEF BatchInv, IncrementLogIndex
<1>2. r \in Requests /\ r[1] = w /\ r[2] > requestQueue[w]
  BY DEF BatchInv, TypeOK, Blocks
<1>3. pc[w] = "incr" /\ pc'[w] = "ord" /\ requestQueue' = requestQueue
  BY DEF IncrementLogIndex, TypeOK
<1>4. r \notin Used /\ r \in Used'
  BY <1>1, <1>2, <1>3 DEF Used
<1>5. IsFiniteSet(Used) /\ Cardinality(Used) \in Nat
  BY UsedFinite
<1>6. Cardinality(Used \cup {r}) = Cardinality(Used) + 1
  BY <1>4, <1>5, FS_AddElement
<1>7. Used \cup {r} \subseteq Used' /\ IsFiniteSet(Used')
  <2>1. Used' \subseteq Requests
    BY DEF Used
  <2> QED
    BY <1>4, <2>1, RequestsFinite, FS_Subset
<1>8. Cardinality(Used \cup {r}) <= Cardinality(Used')
  BY <1>7, FS_Subset
<1>9. Cardinality(Used') \in Nat
  BY <1>7, FS_CardinalityType
<1> HIDE DEF Used
<1> QED
  BY <1>5, <1>6, <1>8, <1>9

\* Nothing exceeds logIndex, and logIndex counts used requests.
LEMMA IdStep ==
    ASSUME IInv, IdInv, [Next]_vars
    PROVE  IdInv'
<1> USE DEF IInv
<1>1. /\ logIndex \in Nat /\ Cardinality(Used) \in Nat /\ IsFiniteSet(Used)
      /\ \A w \in Workers : newBlockId[w] \in Nat
      /\ \A hash \in DOMAIN blocks : blocks[hash].id \in Nat
      /\ \A m \in oa : m.id \in Nat
  BY UsedFinite DEF TypeOK, BlockIds, IsMap, OAMessages
<1>2. /\ Used \subseteq Used'
      /\ Cardinality(Used) <= Cardinality(Used') /\ Cardinality(Used') \in Nat
  <2>1. Used' \subseteq Requests
    BY DEF Used
  <2> QED
    BY <2>1, UsedGrows, RequestsFinite, FS_Subset, FS_CardinalityType
<1>3. CASE UNCHANGED <<logIndex, newBlockId, blocks, oa>>
  BY <1>1, <1>2, <1>3 DEF IdInv
<1>4. ASSUME NEW w \in Workers, Worker(w) PROVE IdInv'
  <2>1. CASE ReceiveRequest(w) \/ StoreCmtSnapshot(w)
    BY <1>3, <2>1 DEF ReceiveRequest, StoreCmtSnapshot
  <2>2. CASE ReadLogIndex(w)
    <3>1. /\ newBlockId' = [newBlockId EXCEPT ![w] = logIndex]
          /\ UNCHANGED <<logIndex, blocks, oa>>
      BY <2>2 DEF ReadLogIndex
    <3> QED
      BY <1>1, <1>2, <3>1 DEF IdInv, TypeOK
  <2>3. CASE IncrementLogIndex(w)
    <3>1. logIndex' = logIndex + 1 /\ UNCHANGED <<newBlockId, blocks, oa>>
      BY <2>3 DEF IncrementLogIndex
    <3>2. Cardinality(Used') >= Cardinality(Used) + 1
      BY <1>2, <2>3, IncrementUses
    <3> QED
      BY <1>1, <1>2, <3>1, <3>2 DEF IdInv
  <2>4. CASE StoreOrdSnapshot(w)
    <3> DEFINE new == Digest(shuffle[w])
               frag == [id |-> newBlockId[w], len |-> 0, sigs |-> {}]
    <3>1. blocks' = Put(blocks, new, frag) /\ UNCHANGED <<logIndex, newBlockId, oa>>
      BY <2>4 DEF StoreOrdSnapshot
    <3>2. frag.id = newBlockId[w]
      OBVIOUS
    <3> HIDE DEF new, frag
    <3>3. \A hash \in DOMAIN blocks' :
              blocks'[hash].id = newBlockId[w]
              \/ (hash \in DOMAIN blocks /\ blocks'[hash] = blocks[hash])
      BY <3>1, <3>2 DEF Put
    <3> QED
      BY <1>1, <1>2, <3>1, <3>3 DEF IdInv
  <2>5. CASE BroadcastOPA(w)
    <3>1. /\ UNCHANGED <<logIndex, newBlockId, blocks>>
          /\ \A m \in oa' : m \in oa \/ m.id = newBlockId[w]
      BY <2>5 DEF BroadcastOPA
    <3> QED
      BY <1>1, <1>2, <3>1 DEF IdInv
  <2> QED
    BY <1>4, <2>1, <2>2, <2>3, <2>4, <2>5 DEF Worker
<1>5. ASSUME NEW h \in voteHandlers, CountVote(h) PROVE IdInv'
  <2>1. UNCHANGED <<logIndex, newBlockId, oa>>
    BY <1>5 DEF CountVote
  <2>2. DOMAIN blocks' = DOMAIN blocks /\ \A x \in DOMAIN blocks : blocks'[x].id = blocks[x].id
    BY <1>5, CountChanges
  <2> QED
    BY <1>1, <1>2, <2>1, <2>2 DEF IdInv
<1>6. ASSUME HandleReplies, ~\E h \in voteHandlers : CountVote(h) PROVE IdInv'
  BY <1>3, <1>6 DEF HandleReplies, LookUpBlock, RecordOrder, StoreThresholdSig, BroadcastOPB,
                    proposerVars
<1>7. ASSUME NEW m \in oa, ReserveBlock(m) \/ StoreAndVote(m) PROVE IdInv'
  <2>1. m \in OAMessages
    BY DEF TypeOK
  <2>2. [m EXCEPT !.pc = "cmt"].id = m.id
    BY <2>1 DEF OAMessages
  <2> DEFINE n == [m EXCEPT !.pc = "cmt"]
  <2>3. oa' \subseteq oa \cup {n}
    BY <1>7 DEF ReserveBlock, StoreAndVote
  <2>4. UNCHANGED <<logIndex, newBlockId, blocks>>
    BY <1>7 DEF ReserveBlock, StoreAndVote, proposerVars
  <2>5. n.id = m.id
    BY <2>2
  <2> HIDE DEF n
  <2> QED
    BY <1>1, <1>2, <2>3, <2>4, <2>5 DEF IdInv
<1>8. ASSUME NEW v \in Validators, HandleOB(v) \/ Crash(v) PROVE IdInv'
  <2>1. UNCHANGED <<logIndex, newBlockId, blocks>> /\ oa' \subseteq oa
    BY <1>8 DEF HandleOB, Crash, CheckOrdered, LockCmtSnapshot, StoreCertificate, proposerVars
  <2> QED
    BY <1>1, <1>2, <2>1 DEF IdInv
<1>9. CASE UNCHANGED vars
  BY <1>3, <1>9 DEF vars, proposerVars
<1> QED
  BY <1>4, <1>5, <1>6, <1>7, <1>8, <1>9 DEF Next, HandleOA

LEMMA IdInvariance == Spec => []IdInv
<1>1. Init => IdInv
  <2> SUFFICES ASSUME Init PROVE IdInv
    OBVIOUS
  <2>1. DOMAIN EmptyMap = {}
    BY DEF EmptyMap
  <2>2. logIndex = 0
    BY DEF Init
  <2> QED
    BY <2>1, <2>2, UsedFinite DEF Init, IdInv
<1>2. IInv /\ IdInv /\ [Next]_vars => IdInv'
  BY IdStep
<1> QED
  BY <1>1, <1>2, Invariance, PTL DEF Spec
-------------------------------------------------------------------------------
(***************************************************************************)
(* The log.                                                                *)
(***************************************************************************)
Filled == {[slot |-> blocks[h].id, hash |-> h] : h \in {x \in DOMAIN blocks : Certified(x)}}

\* A step that changes one block's votes, or adds a block without a certificate,
\* fills at most that block's slot.
LEMMA FilledChanges ==
    ASSUME NEW h, ~Certified(h), h \in DOMAIN blocks',
           DOMAIN blocks' = DOMAIN blocks \cup {h},
           \A x \in DOMAIN blocks \ {h} : blocks'[x] = blocks[x]
    PROVE  Filled' = IF Certified(h)' THEN Filled \cup {[slot |-> blocks'[h].id, hash |-> h]}
                     ELSE Filled
<1>1. \A x : x # h => (Certified(x)' <=> Certified(x))
  BY DEF Certified
<1>2. \A x : x # h /\ x \in DOMAIN blocks' => x \in DOMAIN blocks /\ blocks'[x] = blocks[x]
  OBVIOUS
<1>3. \A x \in DOMAIN blocks : x # h => x \in DOMAIN blocks' /\ blocks'[x] = blocks[x]
  OBVIOUS
<1>4. \A e : e \in Filled' <=>
          \E x \in DOMAIN blocks' : Certified(x)' /\ e = [slot |-> blocks'[x].id, hash |-> x]
  BY DEF Filled
<1>5. \A e : e \in Filled <=>
          \E x \in DOMAIN blocks : Certified(x) /\ e = [slot |-> blocks[x].id, hash |-> x]
  BY DEF Filled
<1>6. CASE Certified(h)'
  BY <1>1, <1>2, <1>3, <1>4, <1>5, <1>6
<1>7. CASE ~Certified(h)'
  BY <1>1, <1>2, <1>3, <1>4, <1>5, <1>7
<1> QED
  BY <1>6, <1>7

\* Reserving a block is a vote in a slot in which the validator has not voted.
LEMMA ReserveVotes ==
    ASSUME IInv, IdInv, NEW m \in oa, ReserveBlock(m), ~AlreadyUsed(m.to, m.id)
    PROVE  /\ UNCHANGED Filled
           /\ \E v \in Validators, slot \in Ids, hash \in Hashes : Log!Vote(v, slot, hash)
<1>1. m.to \in Validators /\ m.id \in BlockIds /\ m.hash \in Hashes
  BY DEF IInv, TypeOK, OAMessages
<1>2. m.id \in Ids
  BY <1>1, IdsAreSlots DEF IInv, IdInv
<1>3. Log!Vote(m.to, m.id, m.hash)
  BY <1>1 DEF ReserveBlock, AlreadyUsed, Log!Vote, Log!Put, Put
<1>4. UNCHANGED blocks
  BY DEF ReserveBlock, proposerVars
<1> QED
  BY <1>1, <1>2, <1>3, <1>4 DEF Filled, Certified

\* The log counts as the phase does.
LEMMA LogCardinality == \A S : Log!Cardinality(S) = Cardinality(S)
BY Zenon DEF Log!Cardinality, Cardinality

\* What SignersHold says of a certificate, in the state after a step.
SignersHoldBlock ==
    IInv => \A hash : Certified(hash) =>
        /\ Cardinality(Holders(blocks[hash].id, hash)) \in Nat
        /\ Cardinality(Holders(blocks[hash].id, hash)) >= Thresh

LEMMA SignersHoldNext == SignersHoldBlock'
<1>1. SignersHoldBlock
  BY SignersHold DEF SignersHoldBlock
<1> QED
  BY <1>1, PTL

\* The share that completes a certificate fills the slot of its block: a quorum
\* holds the block by then, and no other block of that id has a certificate.
LEMMA CompletionFills ==
    ASSUME IInv, IInv', IdInv, OneCertificatePerId', NEW h \in voteHandlers, CountVote(h)
    PROVE  /\ UNCHANGED vOrd
           /\ UNCHANGED Filled \/ \E slot \in Ids, hash \in Hashes : Log!Fill(slot, hash)
<1>1. UNCHANGED vOrd
  BY DEF CountVote, validatorVars
<1>2. CASE UNCHANGED blocks
  BY <1>1, <1>2 DEF Filled, Certified
<1>3. CASE ~UNCHANGED blocks
  <2> DEFINE g == h.frag
  <2>1. /\ g \in DOMAIN blocks /\ DOMAIN blocks' = DOMAIN blocks
        /\ \A x \in DOMAIN blocks \ {g} : blocks'[x] = blocks[x]
        /\ blocks'[g].id = blocks[g].id
    BY CountChanges DEF IInv
  <2>2. PICK slot : slot = blocks[g].id
    OBVIOUS
  <2>3. ~Certified(g)
    BY <1>3 DEF CountVote, VotesComplete, Certified
  <2>4. Filled' = IF Certified(g)' THEN Filled \cup {[slot |-> slot, hash |-> g]} ELSE Filled
    BY <2>1, <2>2, <2>3, FilledChanges
  <2>5. CASE ~Certified(g)'
    BY <1>1, <2>4, <2>5
  <2>6. CASE Certified(g)'
    <3>1. g \in Hashes /\ slot \in Ids
      <4>1. g \in Hashes /\ blocks[g].id \in BlockIds /\ blocks[g].id <= logIndex
        BY <2>1 DEF IInv, TypeOK, IsMap, IdInv
      <4> QED
        BY <2>2, <4>1, IdsAreSlots DEF IInv
    <3>2. \A e \in Filled : e.slot # slot
      <4>1. ASSUME NEW x \in DOMAIN blocks, Certified(x) PROVE blocks[x].id # slot
        <5>1. x # g
          BY <2>3, <4>1
        <5>2. blocks'[x] = blocks[x] /\ Certified(x)'
          BY <2>1, <4>1, <5>1 DEF Certified
        <5> QED
          BY <2>1, <2>2, <2>6, <5>1, <5>2 DEF OneCertificatePerId
      <4> QED
        BY <4>1 DEF Filled
    <3>3. Cardinality(Holders(slot, g)) >= 2 * F
      <4>1. Cardinality(Holders(slot, g)') >= Thresh /\ Cardinality(Holders(slot, g)') \in Nat
        <5>1. Holders(slot, g)' = Holders(blocks[g].id, g)'
          BY <2>1, <2>2 DEF Holders, Holds
        <5> QED
          BY <2>6, <5>1, SignersHoldNext DEF SignersHoldBlock
      <4>2. Holders(slot, g)' = Holders(slot, g)
        BY <1>1 DEF Holders, Holds
      <4> QED
        BY <4>1, <4>2, ThreshBounds
    <3>4. Log!Cardinality(Log!Voters(slot, g)) = Cardinality(Holders(slot, g))
      BY LogCardinality DEF Log!Voters, Holders, Holds
    <3>5. Log!Fill(slot, g)
      BY <2>4, <2>6, <3>2, <3>3, <3>4 DEF Log!Fill, Filled
    <3> QED
      BY <1>1, <3>1, <3>5
  <2> QED
    BY <2>5, <2>6
<1> QED
  BY <1>2, <1>3

\* In a booth whose quorums intersect every step is a step of the log, or leaves
\* it alone.
LEMMA LogStep ==
    ASSUME BoothSize >= 3, IInv, IInv', IdInv, OneCertificatePerId', [Next]_vars
    PROVE  [Log!Next]_(Log!vars)
<1> SUFFICES \/ UNCHANGED <<vOrd, Filled>>
             \/ /\ UNCHANGED Filled
                /\ \E v \in Validators, slot \in Ids, hash \in Hashes : Log!Vote(v, slot, hash)
             \/ /\ UNCHANGED vOrd
                /\ \E slot \in Ids, hash \in Hashes : Log!Fill(slot, hash)
  BY DEF Log!Next, Log!vars, Filled
<1>1. CASE UNCHANGED <<vOrd, blocks>>
  BY <1>1 DEF Filled, Certified
<1>2. ASSUME NEW w \in Workers, StoreOrdSnapshot(w) PROVE UNCHANGED <<vOrd, Filled>>
  <2>1. PICK new, frag : /\ new = Digest(shuffle[w])
                         /\ frag = [id |-> newBlockId[w], len |-> 0, sigs |-> {}]
    OBVIOUS
  <2>2. /\ new \notin DOMAIN blocks
        /\ blocks' = Put(blocks, new, frag) /\ UNCHANGED vOrd
    BY <1>2, <2>1, FreshDigest DEF IInv, StoreOrdSnapshot, validatorVars
  <2>3. Thresh # 0
    BY ThreshBounds DEF Thresh, Threshold, Quorum
  <2>4. frag.len # Thresh
    BY <2>1, <2>3
  <2>5. /\ new \in DOMAIN blocks' /\ DOMAIN blocks' = DOMAIN blocks \cup {new}
        /\ blocks'[new] = frag
        /\ \A x \in DOMAIN blocks \ {new} : blocks'[x] = blocks[x]
    BY <2>2 DEF Put
  <2>6. ~Certified(new) /\ ~Certified(new)'
    BY <2>2, <2>4, <2>5 DEF Certified
  <2> QED
    BY <2>2, <2>5, <2>6, FilledChanges
<1>3. ASSUME NEW w \in Workers, Worker(w), ~StoreOrdSnapshot(w)
      PROVE  UNCHANGED <<vOrd, blocks>>
  BY <1>3 DEF Worker, ReceiveRequest, ReadLogIndex, IncrementLogIndex, StoreCmtSnapshot,
              BroadcastOPA, validatorVars
<1>4. ASSUME HandleReplies, ~\E h \in voteHandlers : CountVote(h)
      PROVE  UNCHANGED <<vOrd, blocks>>
  BY <1>4 DEF HandleReplies, LookUpBlock, RecordOrder, StoreThresholdSig, BroadcastOPB,
              proposerVars, validatorVars
<1>5. ASSUME NEW m \in oa, StoreAndVote(m) \/ (ReserveBlock(m) /\ AlreadyUsed(m.to, m.id))
      PROVE  UNCHANGED <<vOrd, blocks>>
  BY <1>5 DEF StoreAndVote, ReserveBlock, proposerVars
<1>6. ASSUME NEW v \in Validators, HandleOB(v) \/ Crash(v)
      PROVE  UNCHANGED <<vOrd, blocks>>
  BY <1>6 DEF HandleOB, Crash, CheckOrdered, LockCmtSnapshot, StoreCertificate,
              proposerVars, validatorVars
<1>7. CASE UNCHANGED vars
  BY <1>1, <1>7 DEF vars, proposerVars, validatorVars
<1>8. CASE \E w \in Workers : Worker(w)
  BY <1>1, <1>2, <1>3, <1>8
<1>9. CASE HandleReplies
  BY <1>1, <1>4, <1>9, CompletionFills
<1>10. CASE \E v \in Validators : HandleOA(v) \/ HandleOB(v) \/ Crash(v)
  BY <1>1, <1>5, <1>6, <1>10, ReserveVotes DEF HandleOA
<1> QED
  BY <1>7, <1>8, <1>9, <1>10 DEF Next

\* The ordering phase implements the log: validators vote once per id, what is
\* accepted is final, and only a block that a quorum accepted is ordered, once
\* (comply.go:24-39, vordering.go:160-203).
THEOREM OrderingImplementsLog ==
    BoothSize >= 3 /\ BoothSize # 5 => (Spec => ImplementsLog)
<1> SUFFICES ASSUME BoothSize >= 3, BoothSize # 5
             PROVE  Spec => Log!Spec
  BY DEF ImplementsLog
<1>1. Init => Log!Init
  <2> SUFFICES ASSUME Init PROVE Log!Init
    OBVIOUS
  <2>1. DOMAIN EmptyMap = {} /\ Log!EmptyMap = EmptyMap
    BY DEF EmptyMap, Log!EmptyMap
  <2>2. blocks = EmptyMap /\ vOrd = [v \in Validators |-> EmptyMap]
    BY DEF Init
  <2> QED
    BY <2>1, <2>2 DEF Log!Init
<1>2. IInv /\ IInv' /\ IdInv /\ OneCertificatePerId' /\ [Next]_vars => [Log!Next]_(Log!vars)
  BY LogStep
<1>3. Spec => []OneCertificatePerId
  BY OneCertificate
<1> QED
  BY <1>1, <1>2, <1>3, Invariance, IdInvariance, PTL DEF Spec, Log!Spec
-------------------------------------------------------------------------------
(***************************************************************************)
(* The record.                                                             *)
(***************************************************************************)

\* The ids the consensus phase may have seen.
Recorded(id) == \E i \in DOMAIN vgrec : vgrec[i] = id

\* There is one goroutine past the count for a certificate, and what it has done so far
\* is in the record.
HandlerInv ==
    /\ \A o \in orderHandlers : o.pc = "record" <=> ~Recorded(o.id)
    /\ \A o, p \in orderHandlers : o.hash = p.hash => o = p

\* What is recorded is certified, and recorded once.
RecordInv ==
    /\ \A i \in DOMAIN vgrec :
           \E h \in DOMAIN blocks : Certified(h) /\ blocks[h].id = vgrec[i]
    /\ RecordedOnce

\* What is announced to the booth is recorded.
AnnounceInv == \A m \in ob : Recorded(m.id)

OInv == CInv /\ IdInv /\ OneCertificatePerId /\ HandlerInv /\ RecordInv /\ AnnounceInv

\* Recording a block.
LEMMA RecordGrows ==
    ASSUME TypeOK, NEW o \in orderHandlers, RecordOrder(o)
    PROVE  /\ Recorded(o.id)'
           /\ \A id : Recorded(id)' <=> Recorded(id) \/ id = o.id
           /\ \A i \in DOMAIN vgrec' : IF i \in DOMAIN vgrec THEN vgrec'[i] = vgrec[i]
                                       ELSE vgrec'[i] = o.id /\ i = Len(vgrec')
           /\ DOMAIN vgrec' = 1..Len(vgrec') /\ DOMAIN vgrec = 1..Len(vgrec)
<1>1. vgrec \in Seq(BlockIds) /\ vgrec' = Append(vgrec, o.id) /\ o.id \in BlockIds
  BY DEF TypeOK, RecordOrder
<1>2. /\ DOMAIN vgrec = 1..Len(vgrec) /\ Len(vgrec) \in Nat
      /\ DOMAIN vgrec' = 1..Len(vgrec') /\ Len(vgrec') = Len(vgrec) + 1
      /\ vgrec'[Len(vgrec')] = o.id
      /\ \A i \in 1..Len(vgrec) : vgrec'[i] = vgrec[i]
  BY <1>1
<1>3. \A i \in DOMAIN vgrec' : i \notin DOMAIN vgrec => i = Len(vgrec')
  BY <1>2
<1>4. DOMAIN vgrec' = DOMAIN vgrec \cup {Len(vgrec')}
  BY <1>2
<1> QED
  BY <1>2, <1>3, <1>4 DEF Recorded

\* One goroutine has each certificate, and its progress agrees with the record.
LEMMA HandlerStep ==
    ASSUME IInv, CertInv, HandlerInv, RecordInv, OneCertificatePerId, OneCertificatePerId',
           [Next]_vars
    PROVE  HandlerInv'
<1>1. TypeOK
  BY DEF IInv
<1>2. CASE UNCHANGED <<orderHandlers, vgrec>>
  BY <1>2 DEF HandlerInv, Recorded
<1>3. ASSUME NEW h \in voteHandlers, CountVote(h), ~UNCHANGED orderHandlers
      PROVE  HandlerInv'
  <2>1. PICK o : /\ orderHandlers' = orderHandlers \cup {o} /\ vgrec' = vgrec
                 /\ o.pc = "record" /\ Certified(o.hash)' /\ blocks'[o.hash].id = o.id
                 /\ ~Certified(o.hash)
    BY <1>3, CountCertifies
  <2>2. \A p \in orderHandlers : p.hash # o.hash
    BY <2>1 DEF CertInv
  <2>3. ~Recorded(o.id)
    <3> SUFFICES ASSUME Recorded(o.id) PROVE FALSE
      OBVIOUS
    <3>1. PICK g \in DOMAIN blocks : Certified(g) /\ blocks[g].id = o.id
      BY DEF Recorded, RecordInv
    <3>2. g \in DOMAIN blocks' /\ Certified(g)' /\ blocks'[g].id = o.id
      BY <3>1, BlockStable
    <3>3. o.hash \in DOMAIN blocks'
      BY <2>1 DEF Certified
    <3> QED
      BY <2>1, <3>1, <3>2, <3>3 DEF OneCertificatePerId
  <2> QED
    BY <2>1, <2>2, <2>3 DEF HandlerInv, Recorded
<1>4. ASSUME NEW o \in orderHandlers, RecordOrder(o)
      PROVE  HandlerInv'
  <2>1. PICK n : /\ orderHandlers' = (orderHandlers \ {o}) \cup {n}
                 /\ n.id = o.id /\ n.hash = o.hash /\ n.pc = "tsig"
    BY <1>1, <1>4, AdvanceKeeps DEF RecordOrder
  <2>2. \A id : Recorded(id)' <=> Recorded(id) \/ id = o.id
    BY <1>1, <1>4, RecordGrows
  <2>3. \A p \in orderHandlers : p # o => p.id # o.id /\ p.hash # o.hash
    BY DEF HandlerInv, CertInv, OneCertificatePerId, Certified
  <2> QED
    BY <2>1, <2>2, <2>3 DEF HandlerInv
<1>5. ASSUME NEW o \in orderHandlers, StoreThresholdSig(o)
      PROVE  HandlerInv'
  <2>1. PICK n : /\ orderHandlers' = (orderHandlers \ {o}) \cup {n}
                 /\ n.id = o.id /\ n.hash = o.hash /\ n.pc = "bcast"
    BY <1>1, <1>5, AdvanceKeeps DEF StoreThresholdSig
  <2>2. vgrec' = vgrec /\ o.pc = "tsig"
    BY <1>5 DEF StoreThresholdSig
  <2> QED
    BY <2>1, <2>2 DEF HandlerInv, Recorded
<1>6. ASSUME NEW o \in orderHandlers, BroadcastOPB(o)
      PROVE  HandlerInv'
  <2>1. orderHandlers' \subseteq orderHandlers /\ vgrec' = vgrec
    BY <1>6 DEF BroadcastOPB, proposerVars
  <2> QED
    BY <2>1 DEF HandlerInv, Recorded
<1>7. ASSUME NEW h \in voteHandlers, CountVote(h), UNCHANGED orderHandlers
      PROVE  UNCHANGED vgrec
  BY <1>7 DEF CountVote
<1> QED
  BY <1>2, <1>3, <1>4, <1>5, <1>6, <1>7, RecordFrame

\* A block is recorded by its one goroutine, which does it once.
LEMMA RecordStep ==
    ASSUME IInv, CertInv, HandlerInv, RecordInv, [Next]_vars
    PROVE  RecordInv' /\ (\A id : Recorded(id) => Recorded(id)')
<1>1. \A x \in DOMAIN blocks :
          Certified(x) => x \in DOMAIN blocks' /\ Certified(x)' /\ blocks'[x].id = blocks[x].id
  BY BlockStable
<1>2. CASE UNCHANGED vgrec
  BY <1>1, <1>2 DEF RecordInv, RecordedOnce, Recorded
<1>3. ASSUME NEW o \in orderHandlers, RecordOrder(o)
      PROVE  RecordInv' /\ (\A id : Recorded(id) => Recorded(id)')
  <2>1. TypeOK
    BY DEF IInv
  <2>2. /\ \A id : Recorded(id)' <=> Recorded(id) \/ id = o.id
        /\ \A i \in DOMAIN vgrec' : IF i \in DOMAIN vgrec THEN vgrec'[i] = vgrec[i]
                                    ELSE vgrec'[i] = o.id /\ i = Len(vgrec')
        /\ DOMAIN vgrec' = 1..Len(vgrec') /\ DOMAIN vgrec = 1..Len(vgrec)
    BY <1>3, <2>1, RecordGrows
  <2>3. \A i \in DOMAIN vgrec : vgrec[i] # o.id
    BY <1>3 DEF RecordOrder, HandlerInv, Recorded
  <2>4. RecordedOnce'
    BY <2>2, <2>3 DEF RecordInv, RecordedOnce
  <2>5. o.hash \in DOMAIN blocks /\ Certified(o.hash) /\ blocks[o.hash].id = o.id
    BY DEF CertInv, Certified
  <2>6. \A i \in DOMAIN vgrec' : \E h \in DOMAIN blocks' : Certified(h)' /\ blocks'[h].id = vgrec'[i]
    BY <1>1, <2>2, <2>5 DEF RecordInv
  <2> QED
    BY <2>2, <2>4, <2>6 DEF RecordInv
<1>4. ASSUME NEW o \in orderHandlers, StoreThresholdSig(o) \/ BroadcastOPB(o)
      PROVE  UNCHANGED vgrec
  BY <1>4 DEF StoreThresholdSig, BroadcastOPB, proposerVars
<1>5. ASSUME NEW h \in voteHandlers, CountVote(h)
      PROVE  UNCHANGED vgrec
  BY <1>5 DEF CountVote
<1> QED
  BY <1>2, <1>3, <1>4, <1>5, RecordFrame

\* Only a recorded block is announced.
LEMMA AnnounceStep ==
    ASSUME IInv, CertInv, HandlerInv, RecordInv, AnnounceInv, [Next]_vars
    PROVE  AnnounceInv'
<1>1. \A id : Recorded(id) => Recorded(id)'
  BY RecordStep
<1>2. CASE ob' \subseteq ob
  BY <1>1, <1>2 DEF AnnounceInv
<1>3. ASSUME NEW o \in orderHandlers, BroadcastOPB(o)
      PROVE  AnnounceInv'
  <2>1. \A m \in ob' : m \in ob \/ m.id = o.id
    BY <1>3 DEF BroadcastOPB
  <2>2. Recorded(o.id)
    BY <1>3 DEF BroadcastOPB, HandlerInv
  <2> QED
    BY <1>1, <2>1, <2>2 DEF AnnounceInv
<1>4. ASSUME NEW m \in ob, NEW next \in {"cmt", "locked"},
             ob' = (ob \ {m}) \cup {[m EXCEPT !.pc = next]}
      PROVE  AnnounceInv'
  <2>1. m \in OBMessages
    BY DEF IInv, TypeOK
  <2>2. [m EXCEPT !.pc = next].id = m.id
    BY <2>1 DEF OBMessages
  <2> QED
    BY <1>1, <1>4, <2>2 DEF AnnounceInv
<1> QED
  BY <1>2, <1>3, <1>4, OBFrame
-------------------------------------------------------------------------------
(***************************************************************************)
(* The invariant, and what it says of the record.                          *)
(***************************************************************************)
LEMMA OInvariance ==
    BoothSize >= 3 /\ BoothSize # 5 => (Spec => []OInv)
<1> SUFFICES ASSUME BoothSize >= 3, BoothSize # 5
             PROVE  Spec => []OInv
  OBVIOUS
<1> DEFINE J == HandlerInv /\ RecordInv /\ AnnounceInv
<1>1. Init => J
  <2> SUFFICES ASSUME Init PROVE J
    OBVIOUS
  <2>1. vgrec = <<>> /\ DOMAIN vgrec = {} /\ Len(vgrec) = 0
    BY DEF Init
  <2> QED
    BY <2>1 DEF Init, HandlerInv, RecordInv, RecordedOnce, AnnounceInv
<1>2. CInv /\ OneCertificatePerId /\ OneCertificatePerId' /\ J /\ [Next]_vars => J'
  BY HandlerStep, RecordStep, AnnounceStep DEF CInv
<1>3. Spec => []OneCertificatePerId
  BY OneCertificate
<1>4. CInv /\ IdInv /\ OneCertificatePerId /\ J => OInv
  BY DEF OInv
<1> HIDE DEF J
<1> QED
  BY <1>1, <1>2, <1>3, <1>4, CInvariance, IdInvariance, PTL DEF Spec

\* No block id is handed to the consensus phase twice, although two workers may have
\* given it to two blocks whose replies are counted side by side
\* (vordering.go:90,105,203).
THEOREM EachIdRecordedOnce ==
    BoothSize >= 3 /\ BoothSize # 5 => (Spec => []RecordedOnce)
<1> SUFFICES ASSUME BoothSize >= 3, BoothSize # 5
             PROVE  Spec => []RecordedOnce
  OBVIOUS
<1>1. OInv => RecordedOnce
  BY DEF OInv, RecordInv
<1> QED
  BY <1>1, OInvariance, PTL
-------------------------------------------------------------------------------
(***************************************************************************)
(* The interface.                                                          *)
(***************************************************************************)

\* The blocks that the validators have stored, as the consensus phase sees them.
StoredHashes == [v \in Validators |-> [id \in DOMAIN vCmt[v] |-> vCmt[v][id].hash]]

\* The validators whose cmtSnapshot lock an OB goroutine keeps.
StuckValidators ==
    {v \in Validators : \E m \in ob : m.to = v /\ m.pc = "locked" /\ m.id \notin DOMAIN vCmt[v]}

\* The operators of the interface are those of this module.
LEMMA InterfaceOperators ==
    /\ \A m, k, x : Interface!Put(m, k, x) = Put(m, k, x)
    /\ \A hash : Interface!CombSig(hash) = CombSig(hash)
    /\ Interface!NoSig = NoSig
    /\ Interface!EmptyMap = EmptyMap
    /\ \A id : Interface!Recorded(id) <=> Recorded(id)
<1>1. \A m, k, x : Interface!Put(m, k, x) = Put(m, k, x)
  BY DEF Interface!Put, Put
<1>2. \A hash : Interface!CombSig(hash) = CombSig(hash)
  BY DEF Interface!CombSig, CombSig
<1>3. Interface!NoSig = NoSig
  BY DEF Interface!NoSig, NoSig
<1>4. Interface!EmptyMap = EmptyMap
  BY DEF Interface!EmptyMap, EmptyMap
<1>5. \A id : Interface!Recorded(id) <=> Recorded(id)
  BY DEF Interface!Recorded, Recorded
<1> QED
  BY <1>1, <1>2, <1>3, <1>4, <1>5

LEMMA InterfaceThresh == Interface!OrdThresh = Thresh
<1>1. \A S : Interface!Cardinality(S) = Cardinality(S)
  BY Zenon DEF Interface!Cardinality, Cardinality
<1> QED
  BY <1>1 DEF Interface!OrdThresh, Interface!Threshold, Interface!Quorum, Thresh, Threshold,
              Quorum, BoothSize

\* A certified block is stored by as many validators as the certificate has shares.
LEMMA CertifiedOrderable ==
    ASSUME IInv, StoreInv, NEW hash, Certified(hash)
    PROVE  Interface!OrderableAs(blocks[hash].id, hash)
<1> DEFINE holders == {v \in Validators : Stores(v, blocks[hash].id, hash)}
           signers == {s.by : s \in blocks[hash].sigs}
<1>1. signers \subseteq holders
  <2>1. hash \in DOMAIN blocks /\ blocks[hash].sigs \subseteq Shares
    BY DEF Certified, IInv, TypeOK, IsMap
  <2> QED
    BY <2>1 DEF Certified, PenRecovers, StoreInv, Shares
<1>2. IsFiniteSet(holders) /\ Cardinality(holders) \in Nat
  BY ConstantsAssumption, FS_Subset, FS_CardinalityType
<1>3. Cardinality(signers) <= Cardinality(holders) /\ Cardinality(signers) \in Nat
  BY <1>1, <1>2, FS_Subset, FS_CardinalityType
<1>4. Cardinality(signers) >= Thresh
  BY DEF Certified, PenRecovers
<1>5. Interface!OrdHolders(blocks[hash].id, hash) = holders
  BY DEF Interface!OrdHolders, Stores
<1>6. Interface!Cardinality(holders) = Cardinality(holders)
  BY Zenon DEF Interface!Cardinality, Cardinality
<1> HIDE DEF holders, signers
<1>7. Cardinality(holders) >= Thresh
  BY <1>2, <1>3, <1>4, ThreshBounds
<1> QED
  BY <1>5, <1>6, <1>7, InterfaceThresh DEF Interface!OrderableAs

\* Recorded ids are slots.
LEMMA RecordedAreSlots ==
    ASSUME IInv, IdInv, RecordInv, NEW id, Recorded(id)
    PROVE  id \in Ids
<1>1. PICK h \in DOMAIN blocks : blocks[h].id = id
  BY DEF Recorded, RecordInv
<1>2. id \in BlockIds /\ id <= logIndex
  BY <1>1 DEF IInv, TypeOK, IsMap, IdInv
<1> QED
  BY <1>2, IdsAreSlots DEF IInv

\* Steps that leave the validators' blocks and locks alone.
LEMMA ViewUnchanged ==
    ASSUME UNCHANGED <<vCmt, ob>>
    PROVE  UNCHANGED <<StoredHashes, StuckValidators>>
BY DEF StoredHashes, StuckValidators

LEMMA FormStep ==
    ASSUME OInv, NEW w \in Workers, StoreCmtSnapshot(w)
    PROVE  \E id \in Ids, hash \in Hashes : Interface!FormBlock(id, hash)
<1> DEFINE id == newBlockId[w]
           hash == Digest(shuffle[w])
<1>1. id \in BlockIds /\ id <= logIndex /\ hash \in Hashes
  BY DigestType DEF OInv, CInv, IInv, TypeOK, IdInv
<1>2. id \in Ids
  BY <1>1, IdsAreSlots DEF OInv, CInv, IInv
<1>3. id \in DOMAIN cmtSnapshot => cmtSnapshot[id].hash # hash
  BY DEF OInv, CInv, CacheInv, StoreCmtSnapshot
<1>4. /\ cmtSnapshot' = Interface!Put(cmtSnapshot, id, [hash |-> hash, tSig |-> Interface!NoSig])
      /\ UNCHANGED <<vgrec, vCmt, ob>>
  BY InterfaceOperators DEF StoreCmtSnapshot, validatorVars
<1>5. UNCHANGED <<StoredHashes, StuckValidators>>
  BY <1>4, ViewUnchanged
<1> HIDE DEF id, hash
<1>6. Interface!FormBlock(id, hash)
  BY <1>3, <1>4, <1>5 DEF Interface!FormBlock, StoredHashes, StuckValidators
<1> QED
  BY <1>1, <1>2, <1>6

LEMMA StoreBlockStep ==
    ASSUME OInv, [Next]_vars, NEW m \in oa, StoreAndVote(m)
    PROVE  \E id \in Ids, hash \in Hashes : Interface!StoreBlock(m.to, id, hash)
<1>1. /\ m.to \in Validators /\ m.id \in BlockIds /\ m.hash \in Hashes /\ m.id <= logIndex
      /\ DOMAIN vCmt = Validators /\ vCmt = [v \in Validators |-> vCmt[v]]
      /\ m.id \in DOMAIN cmtSnapshot /\ m.id \notin DOMAIN vCmt[m.to]
  BY DEF OInv, CInv, IInv, TypeOK, OAMessages, IdInv, CacheInv, StoreInv, StoreAndVote
<1>2. m.id \in Ids
  BY <1>1, IdsAreSlots DEF OInv, CInv, IInv
<1>3. PICK frag : frag = [hash |-> m.hash, tSig |-> NoSig]
  OBVIOUS
<1>4. /\ vCmt' = [vCmt EXCEPT ![m.to] = Put(vCmt[m.to], m.id, frag)]
      /\ UNCHANGED <<cmtSnapshot, vgrec, ob>>
      /\ \A n \in ob : n.to = m.to => n.pc # "locked"
  BY <1>3 DEF StoreAndVote, CmtLockFree, proposerVars
<1>5. m.to \notin StuckValidators /\ UNCHANGED StuckValidators
  BY <1>1, <1>4 DEF StuckValidators
<1>6. StoredHashes' = [StoredHashes EXCEPT ![m.to] = Put(StoredHashes[m.to], m.id, m.hash)]
  <2>1. /\ StoredHashes = [v \in Validators |-> StoredHashes[v]]
        /\ StoredHashes' = [v \in Validators |-> StoredHashes'[v]]
    BY DEF StoredHashes
  <2>2. ASSUME NEW v \in Validators, v # m.to PROVE StoredHashes'[v] = StoredHashes[v]
    <3>1. vCmt'[v] = vCmt[v]
      BY <1>1, <1>4, <2>2
    <3> QED
      BY <3>1 DEF StoredHashes
  <2>3. StoredHashes'[m.to] = Put(StoredHashes[m.to], m.id, m.hash)
    <3>1. vCmt'[m.to] = Put(vCmt[m.to], m.id, frag)
      BY <1>1, <1>4
    <3>2. /\ StoredHashes[m.to] = [id \in DOMAIN vCmt[m.to] |-> vCmt[m.to][id].hash]
          /\ StoredHashes'[m.to] = [id \in DOMAIN vCmt'[m.to] |-> vCmt'[m.to][id].hash]
      BY <1>1 DEF StoredHashes
    <3>3. frag.hash = m.hash
      BY <1>3
    <3> QED
      BY <3>1, <3>2, <3>3 DEF Put
  <2> QED
    BY <1>1, <2>1, <2>2, <2>3
<1>7. m.id \notin DOMAIN StoredHashes[m.to]
  BY <1>1 DEF StoredHashes
<1>8. Interface!StoreBlock(m.to, m.id, m.hash)
  BY <1>1, <1>4, <1>5, <1>6, <1>7, InterfaceOperators
     DEF Interface!StoreBlock, StoredHashes, StuckValidators
<1> QED
  BY <1>1, <1>2, <1>8

LEMMA RecordBlockStep ==
    ASSUME OInv, NEW o \in orderHandlers, RecordOrder(o)
    PROVE  \E id \in Ids : Interface!RecordBlock(id)
<1>1. /\ Certified(o.hash) /\ blocks[o.hash].id = o.id /\ o.hash \in DOMAIN blocks
      /\ o.pc = "record" /\ ~Recorded(o.id)
  BY DEF OInv, CInv, CertInv, HandlerInv, Certified, RecordOrder
<1>2. o.hash \in Hashes /\ o.id \in Ids
  <2>1. o.hash \in Hashes /\ o.id \in BlockIds /\ o.id <= logIndex
    BY <1>1 DEF OInv, CInv, IInv, TypeOK, IsMap, IdInv
  <2> QED
    BY <2>1, IdsAreSlots DEF OInv, CInv, IInv
<1>3. Interface!OrderableAs(o.id, o.hash)
  BY <1>1, CertifiedOrderable DEF OInv, CInv
<1>4. vgrec' = Append(vgrec, o.id) /\ UNCHANGED <<cmtSnapshot, vCmt, ob>>
  BY DEF RecordOrder, validatorVars
<1>5. UNCHANGED <<StoredHashes, StuckValidators>>
  BY <1>4, ViewUnchanged
<1>6. Interface!RecordBlock(o.id)
  BY <1>1, <1>2, <1>3, <1>4, <1>5, InterfaceOperators
     DEF Interface!RecordBlock, StoredHashes, StuckValidators
<1> QED
  BY <1>2, <1>6

LEMMA OrderSigStep ==
    ASSUME OInv, NEW o \in orderHandlers, StoreThresholdSig(o)
    PROVE  \E id \in Ids, hash \in Hashes : Interface!StoreOrderSig(id, hash)
<1>1. /\ Certified(o.hash) /\ blocks[o.hash].id = o.id /\ o.hash \in DOMAIN blocks
      /\ Recorded(o.id)
  BY DEF OInv, CInv, CertInv, HandlerInv, Certified, StoreThresholdSig
<1>2. o.hash \in Hashes /\ o.id \in Ids
  <2>1. o.hash \in Hashes /\ o.id \in BlockIds /\ o.id <= logIndex
    BY <1>1 DEF OInv, CInv, IInv, TypeOK, IsMap, IdInv
  <2> QED
    BY <2>1, IdsAreSlots DEF OInv, CInv, IInv
<1>3. Interface!OrderableAs(o.id, o.hash)
  BY <1>1, CertifiedOrderable DEF OInv, CInv
<1>4. /\ cmtSnapshot' = [cmtSnapshot EXCEPT ![o.id].tSig = CombSig(o.hash)]
      /\ UNCHANGED <<vgrec, vCmt, ob>>
  BY DEF StoreThresholdSig, WithSig, validatorVars
<1>5. UNCHANGED <<StoredHashes, StuckValidators>>
  BY <1>4, ViewUnchanged
<1>6. cmtSnapshot' = [cmtSnapshot EXCEPT ![o.id].tSig = Interface!CombSig(o.hash)]
  BY <1>4, InterfaceOperators
<1>7. Interface!StoreOrderSig(o.id, o.hash)
  BY <1>1, <1>3, <1>4, <1>5, <1>6, InterfaceOperators
     DEF Interface!StoreOrderSig, StoredHashes, StuckValidators
<1> QED
  BY <1>2, <1>7

\* The certificate changes no block; the lock it was kept for is free again, and was
\* never one that is kept for good.
LEMMA CertificateStep ==
    ASSUME OInv, NEW m \in ob, StoreCertificate(m)
    PROVE  UNCHANGED <<cmtSnapshot, vgrec, StoredHashes, StuckValidators>>
<1>1. /\ m.to \in Validators /\ DOMAIN vCmt = Validators
      /\ m.id \in DOMAIN vCmt[m.to]
  BY DEF OInv, CInv, IInv, TypeOK, OBMessages, StoreInv, StoreCertificate
<1>2. /\ vCmt' = [vCmt EXCEPT ![m.to] = WithSig(vCmt[m.to], m.id, m.sig)]
      /\ ob' = ob \ {m} /\ UNCHANGED <<cmtSnapshot, vgrec>>
  BY DEF StoreCertificate, proposerVars
<1>3. ASSUME NEW v \in Validators
      PROVE  /\ DOMAIN vCmt'[v] = DOMAIN vCmt[v]
             /\ \A id \in DOMAIN vCmt[v] : vCmt'[v][id].hash = vCmt[v][id].hash
  <2>1. CASE v = m.to
    <3>1. vCmt'[v] = WithSig(vCmt[v], m.id, m.sig)
      BY <1>1, <1>2, <2>1
    <3>2. /\ vCmt[v] = [x \in DOMAIN vCmt[v] |-> vCmt[v][x]]
          /\ \A x \in DOMAIN vCmt[v] : vCmt[v][x] \in [hash : Hashes, tSig : Sigs]
      BY DEF OInv, CInv, IInv, TypeOK, IsMap
    <3> QED
      BY <3>1, <3>2, WithSigKeeps
  <2>2. CASE v # m.to
    <3>1. vCmt'[v] = vCmt[v]
      BY <1>1, <1>2, <2>2
    <3> QED
      BY <3>1
  <2> QED
    BY <2>1, <2>2
<1>4. UNCHANGED StoredHashes
  <2>1. ASSUME NEW v \in Validators
        PROVE  [id \in DOMAIN vCmt'[v] |-> vCmt'[v][id].hash]
                   = [id \in DOMAIN vCmt[v] |-> vCmt[v][id].hash]
    BY <1>3
  <2> QED
    BY <2>1 DEF StoredHashes
<1>5. UNCHANGED StuckValidators
  BY <1>1, <1>2, <1>3 DEF StuckValidators
<1> QED
  BY <1>2, <1>4, <1>5

\* Taking the lock before the block is there keeps it for good.
LEMMA LockStep ==
    ASSUME OInv, NEW m \in ob, LockCmtSnapshot(m)
    PROVE  \/ UNCHANGED <<cmtSnapshot, vgrec, StoredHashes, StuckValidators>>
           \/ \E id \in Ids : Interface!BlockOB(m.to, id)
<1>1. /\ m.to \in Validators /\ DOMAIN vCmt = Validators
      /\ m.id \in Ids /\ Recorded(m.id)
  BY RecordedAreSlots DEF OInv, CInv, IInv, TypeOK, OBMessages, AnnounceInv
<1>2. PICK n : /\ ob' = (ob \ {m}) \cup {n}
               /\ n.to = m.to /\ n.id = m.id /\ n.pc = "locked"
  <2>1. m \in OBMessages
    BY DEF OInv, CInv, IInv, TypeOK
  <2>2. /\ [m EXCEPT !.pc = "locked"].to = m.to /\ [m EXCEPT !.pc = "locked"].id = m.id
        /\ [m EXCEPT !.pc = "locked"].pc = "locked"
    BY <2>1 DEF OBMessages
  <2> QED
    BY <2>2 DEF LockCmtSnapshot
<1>3. m.pc = "cmt" /\ UNCHANGED <<cmtSnapshot, vgrec, vCmt>>
  BY DEF LockCmtSnapshot, proposerVars, validatorVars
<1>4. UNCHANGED StoredHashes
  BY <1>3 DEF StoredHashes
<1>5. CASE m.id \in DOMAIN vCmt[m.to]
  <2>1. UNCHANGED StuckValidators
    BY <1>2, <1>3, <1>5 DEF StuckValidators
  <2> QED
    BY <1>3, <1>4, <2>1
<1>6. CASE m.id \notin DOMAIN vCmt[m.to]
  <2>1. StuckValidators' = StuckValidators \cup {m.to}
    BY <1>1, <1>2, <1>3, <1>6 DEF StuckValidators
  <2>2. m.id \notin DOMAIN StoredHashes[m.to]
    BY <1>1, <1>6 DEF StoredHashes
  <2>3. Interface!BlockOB(m.to, m.id)
    BY <1>1, <1>3, <1>4, <2>1, <2>2, InterfaceOperators
       DEF Interface!BlockOB, StoredHashes, StuckValidators
  <2> QED
    BY <1>1, <2>3
<1> QED
  BY <1>5, <1>6

\* A crash frees the lock that a validator's goroutine kept, and no other.
LEMMA CrashStep ==
    ASSUME OInv, NEW v \in Validators, Crash(v)
    PROVE  \/ UNCHANGED <<cmtSnapshot, vgrec, StoredHashes, StuckValidators>>
           \/ Interface!LoseLock(v)
<1>1. /\ ob' = {m \in ob : m.to # v} /\ UNCHANGED <<cmtSnapshot, vgrec, vCmt>>
  BY DEF Crash, proposerVars, validatorVars
<1>2. UNCHANGED StoredHashes /\ StuckValidators' = StuckValidators \ {v}
  BY <1>1 DEF StoredHashes, StuckValidators
<1>3. CASE v \in StuckValidators
  BY <1>1, <1>2, <1>3 DEF Interface!LoseLock, StoredHashes, StuckValidators
<1>4. CASE v \notin StuckValidators
  BY <1>1, <1>2, <1>4
<1> QED
  BY <1>3, <1>4

\* Every step of the ordering phase is a step of the interface, or leaves it alone.
LEMMA InterfaceStep ==
    ASSUME OInv, [Next]_vars
    PROVE  [Interface!OrdNext]_(Interface!ordVars)
<1> SUFFICES \/ UNCHANGED <<cmtSnapshot, vgrec, StoredHashes, StuckValidators>>
             \/ Interface!OrdNext
  BY DEF Interface!ordVars, StoredHashes, StuckValidators
<1>1. CASE UNCHANGED <<cmtSnapshot, vgrec, vCmt, ob>>
  BY <1>1, ViewUnchanged
<1>2. ASSUME NEW w \in Workers, StoreCmtSnapshot(w) PROVE Interface!OrdNext
  BY <1>2, FormStep DEF Interface!OrdNext, Interface!ProposerOrders
<1>3. ASSUME NEW o \in orderHandlers, RecordOrder(o) \/ StoreThresholdSig(o)
      PROVE  Interface!OrdNext
  BY <1>3, RecordBlockStep, OrderSigStep DEF Interface!OrdNext, Interface!ProposerOrders
<1>4. ASSUME NEW o \in orderHandlers, BroadcastOPB(o)
      PROVE  UNCHANGED <<cmtSnapshot, vgrec, StoredHashes, StuckValidators>>
  <2>1. UNCHANGED <<cmtSnapshot, vgrec, vCmt>>
    BY <1>4 DEF BroadcastOPB, proposerVars, validatorVars
  <2>2. \A m : m.pc = "locked" => (m \in ob' <=> m \in ob)
    BY <1>4 DEF BroadcastOPB
  <2> QED
    BY <2>1, <2>2 DEF StoredHashes, StuckValidators
<1>5. ASSUME NEW m \in oa, StoreAndVote(m) PROVE Interface!OrdNext
  <2>1. m.to \in Validators
    BY DEF OInv, CInv, IInv, TypeOK, OAMessages
  <2> QED
    BY <1>5, <2>1, StoreBlockStep DEF Interface!OrdNext, Interface!ValidatorOrders
<1>6. ASSUME NEW m \in ob, CheckOrdered(m)
      PROVE  UNCHANGED <<cmtSnapshot, vgrec, StoredHashes, StuckValidators>>
  <2>1. UNCHANGED <<cmtSnapshot, vgrec, vCmt>> /\ m.pc = "recv"
    BY <1>6 DEF CheckOrdered, proposerVars, validatorVars
  <2>2. [m EXCEPT !.pc = "cmt"].pc = "cmt"
    BY DEF OInv, CInv, IInv, TypeOK, OBMessages
  <2>3. \A n : n.pc = "locked" => (n \in ob' <=> n \in ob)
    BY <1>6, <2>1, <2>2 DEF CheckOrdered
  <2> QED
    BY <2>1, <2>3 DEF StoredHashes, StuckValidators
<1>7. ASSUME NEW m \in ob, LockCmtSnapshot(m)
      PROVE  \/ UNCHANGED <<cmtSnapshot, vgrec, StoredHashes, StuckValidators>>
             \/ Interface!OrdNext
  <2>1. m.to \in Validators
    BY DEF OInv, CInv, IInv, TypeOK, OBMessages
  <2> QED
    BY <1>7, <2>1, LockStep DEF Interface!OrdNext, Interface!ValidatorOrders
<1>8. ASSUME NEW m \in ob, StoreCertificate(m)
      PROVE  UNCHANGED <<cmtSnapshot, vgrec, StoredHashes, StuckValidators>>
  BY <1>8, CertificateStep
<1>9. ASSUME NEW v \in Validators, Crash(v)
      PROVE  \/ UNCHANGED <<cmtSnapshot, vgrec, StoredHashes, StuckValidators>>
             \/ Interface!OrdNext
  BY <1>9, CrashStep DEF Interface!OrdNext
<1>10. CASE \E w \in Workers : Worker(w)
  <2>1. ASSUME NEW w \in Workers, Worker(w), ~StoreCmtSnapshot(w)
        PROVE  UNCHANGED <<cmtSnapshot, vgrec, vCmt, ob>>
    BY <2>1 DEF Worker, ReceiveRequest, ReadLogIndex, IncrementLogIndex, StoreOrdSnapshot,
                BroadcastOPA, validatorVars
  <2> QED
    BY <1>1, <1>2, <1>10, <2>1
<1>11. CASE HandleReplies
  <2>1. ASSUME NEW r \in opaReplies, LookUpBlock(r)
        PROVE  UNCHANGED <<cmtSnapshot, vgrec, vCmt, ob>>
    BY <2>1 DEF LookUpBlock, proposerVars, validatorVars
  <2>2. ASSUME NEW h \in voteHandlers, CountVote(h)
        PROVE  UNCHANGED <<cmtSnapshot, vgrec, vCmt, ob>>
    BY <2>2 DEF CountVote, validatorVars
  <2> QED
    BY <1>1, <1>3, <1>4, <1>11, <2>1, <2>2 DEF HandleReplies
<1>12. CASE \E v \in Validators : HandleOA(v) \/ HandleOB(v) \/ Crash(v)
  <2>1. ASSUME NEW m \in oa, ReserveBlock(m)
        PROVE  UNCHANGED <<cmtSnapshot, vgrec, vCmt, ob>>
    BY <2>1 DEF ReserveBlock, proposerVars
  <2> QED
    BY <1>1, <1>5, <1>6, <1>7, <1>8, <1>9, <1>12, <2>1 DEF HandleOA, HandleOB
<1>13. CASE UNCHANGED vars
  BY <1>1, <1>13 DEF vars, proposerVars, validatorVars
<1> QED
  BY <1>10, <1>11, <1>12, <1>13 DEF Next

\* The ordering phase implements the interface that the consensus phase is built on: a
\* block is recorded only once a quorum has stored it, its certificate comes only
\* afterwards, and validators' blocks never change
\* (vordering.go:122-128,203-222; comply.go:41-60).
THEOREM OrderingImplementsInterface ==
    BoothSize >= 3 /\ BoothSize # 5 => (Spec => ImplementsInterface)
<1> SUFFICES ASSUME BoothSize >= 3, BoothSize # 5
             PROVE  Spec => Interface!OrdSpec
  BY DEF ImplementsInterface
<1>1. Init => Interface!OrdInit(Validators)
  <2> SUFFICES ASSUME Init PROVE Interface!OrdInit(Validators)
    OBVIOUS
  <2>1. DOMAIN EmptyMap = {}
    BY DEF EmptyMap
  <2>2. /\ cmtSnapshot = EmptyMap /\ vgrec = <<>>
        /\ vCmt = [v \in Validators |-> EmptyMap] /\ ob = {}
    BY DEF Init
  <2>3. \A v \in Validators : [id \in DOMAIN vCmt[v] |-> vCmt[v][id].hash] = EmptyMap
    BY <2>1, <2>2 DEF EmptyMap
  <2> QED
    BY <2>1, <2>2, <2>3, InterfaceOperators DEF Interface!OrdInit
<1>2. OInv /\ [Next]_vars => [Interface!OrdNext]_(Interface!ordVars)
  BY InterfaceStep
<1> QED
  BY <1>1, <1>2, OInvariance, PTL DEF Spec, Interface!OrdSpec
===============================================================================
