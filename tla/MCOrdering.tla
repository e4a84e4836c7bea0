------------------------------ MODULE MCOrdering ------------------------------
(***************************************************************************)
(* Small instances of the ordering phase for TLC: a booth of four, that is *)
(* three validators, which is the default of flag -boo.                    *)
(***************************************************************************)
EXTENDS Ordering, TLC

CONSTANTS v1, v2, v3, w1, w2

MCValidators == {v1, v2, v3}
OneWorker == {w1}
TwoWorkers == {w1, w2}

\* Validators are interchangeable, and so are workers.
SymmetryWorkers == Permutations(MCValidators) \cup Permutations(TwoWorkers)

Ids == 0..(Cardinality(Workers) * MsgLoad)

\* The log that the ordering phase implements: reserving a block is the vote, and
\* a block fills its id at the moment its votes make a certificate.
Log == INSTANCE QuorumLog WITH
    Slots <- Ids,
    QuorumVotes <- 2 * F,
    voted <- vOrd,
    log <- {[slot |-> blocks[h].id, hash |-> h] : h \in {x \in DOMAIN blocks : Certified(x)}}

\* Every step of the ordering phase is a step of the log or leaves it alone:
\* accepted blocks are final, and only blocks a quorum accepted are ordered
\* (comply.go:24-39, vordering.go:160-203).
ImplementsLog == Log!Spec

\* The interface that the consensus phase is built on.
Interface == INSTANCE OrderedBlocks WITH
    OrdValidators <- Validators,
    BlockIds <- Ids,
    BlockHashes <- Hashes,
    vCmt <- [v \in Validators |-> [id \in DOMAIN vCmt[v] |-> vCmt[v][id].hash]],
    obStuck <- {v \in Validators :
                    \E m \in ob : m.to = v /\ m.pc = "locked" /\ m.id \notin DOMAIN vCmt[v]}

\* The consensus phase sees a block recorded only once a quorum has stored it,
\* its certificate only afterwards, and validators' blocks never change
\* (vordering.go:122-128,203-222; comply.go:41-60).
ImplementsInterface == Interface!OrdSpec
===============================================================================
