---------------------------- MODULE OrderedBlocks ----------------------------
(***************************************************************************)
(* The ordering phase as the consensus phase sees it: the four pieces of   *)
(* state the two phases share, and every way the ordering phase may change *)
(* them.  Consensus is built on this interface, and Ordering is shown to   *)
(* implement it, so the two phases are checked together without their      *)
(* product.                                                                *)
(***************************************************************************)
EXTENDS Integers, Sequences, FiniteSets, GoMaps, ThresholdSigs

CONSTANTS
    OrdValidators,  \* validators of the ordering booth
    BlockIds,       \* block ids
    BlockHashes     \* digests of blocks

OrdThresh == Threshold(Cardinality(OrdValidators) + 1)

VARIABLES
    cmtSnapshot,  \* proposer: block id -> [hash, tSig]
    vgrec,        \* proposer: block ids in the order in which they were ordered
    vCmt,         \* vCmt[v]: block id -> hash, cmtSnapshot of validator v
    obStuck       \* validators whose cmtSnapshot lock an OB handler never releases

ordVars == <<cmtSnapshot, vgrec, vCmt, obStuck>>

\* The blocks that enough validators of the booth have stored and voted for.
OrdHolders(id, hash) ==
    {v \in OrdValidators : id \in DOMAIN vCmt[v] /\ vCmt[v][id] = hash}
OrderableAs(id, hash) == Cardinality(OrdHolders(id, hash)) >= OrdThresh

Recorded(id) == \E i \in DOMAIN vgrec : vgrec[i] = id

\* A worker stores a block for the consensus phase, over that of another worker
\* if the two have read the same id.
FormBlock(id, hash) ==
    /\ id \in DOMAIN cmtSnapshot => cmtSnapshot[id].hash # hash
    /\ cmtSnapshot' = Put(cmtSnapshot, id, [hash |-> hash, tSig |-> NoSig])
    /\ UNCHANGED <<vgrec, vCmt, obStuck>>

\* A validator stores a block, once per id, and votes for it.
StoreBlock(v, id, hash) ==
    /\ id \in DOMAIN cmtSnapshot
    /\ id \notin DOMAIN vCmt[v]
    /\ v \notin obStuck
    /\ vCmt' = [vCmt EXCEPT ![v] = Put(@, id, hash)]
    /\ UNCHANGED <<cmtSnapshot, vgrec, obStuck>>

\* A reply goroutine has enough votes and records the block.
RecordBlock(id) ==
    /\ ~Recorded(id)
    /\ \E hash \in BlockHashes : OrderableAs(id, hash)
    /\ vgrec' = Append(vgrec, id)
    /\ UNCHANGED <<cmtSnapshot, vCmt, obStuck>>

\* It stores the certificate a step later.
StoreOrderSig(id, hash) ==
    /\ Recorded(id)
    /\ OrderableAs(id, hash)
    /\ cmtSnapshot' = [cmtSnapshot EXCEPT ![id].tSig = CombSig(hash)]
    /\ UNCHANGED <<vgrec, vCmt, obStuck>>

\* An OB handler takes the lock before the OA handler of its block does.
BlockOB(v, id) ==
    /\ Recorded(id)
    /\ id \notin DOMAIN vCmt[v]
    /\ obStuck' = obStuck \cup {v}
    /\ UNCHANGED <<cmtSnapshot, vgrec, vCmt>>

\* The process of v dies, and with it the handler that keeps the lock.  The
\* composition takes this step together with the crash itself.
LoseLock(v) ==
    /\ v \in obStuck
    /\ obStuck' = obStuck \ {v}
    /\ UNCHANGED <<cmtSnapshot, vgrec, vCmt>>

OrdInit(validators) ==
    /\ cmtSnapshot = EmptyMap
    /\ vgrec = <<>>
    /\ vCmt = [v \in validators |-> EmptyMap]
    /\ obStuck = {}

ProposerOrders ==
    \E id \in BlockIds :
        \/ RecordBlock(id)
        \/ \E hash \in BlockHashes : FormBlock(id, hash) \/ StoreOrderSig(id, hash)

ValidatorOrders(v) ==
    \E id \in BlockIds :
        BlockOB(v, id) \/ \E hash \in BlockHashes : StoreBlock(v, id, hash)

OrdNext ==
    \/ ProposerOrders
    \/ \E v \in OrdValidators : ValidatorOrders(v) \/ LoseLock(v)

OrdSpec == OrdInit(OrdValidators) /\ [][OrdNext]_ordVars
===============================================================================
