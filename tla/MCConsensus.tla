------------------------------ MODULE MCConsensus ------------------------------
(***************************************************************************)
(* Small instances of the consensus phase for TLC.  The ordering booth is  *)
(* {v1, v2, v3} and the proposer; the commit booth is the same one (booth  *)
(* mode OCSB), or shares some members with it (WOP), or only the pivot     *)
(* validator, which is in every booth (NOP).                               *)
(***************************************************************************)
EXTENDS Consensus, TLC

CONSTANTS v1, v2, v3, v4, v5, h1, h2

OrdBooth == {v1, v2, v3}
BoothWOP == {v1, v2, v4}
BoothNOP == {v1, v4, v5}

B == INSTANCE Booths

\* These are the booths that prepareBooths makes of the default six servers under
\* the default ids of the three booth modes (parameters.go:122-123,138-141).
ASSUME BoothsOfModes ==
    LET booths      == B!PrepareBooths(6, 4)
        named(m)    == CASE m = 1 -> v1 [] m = 2 -> v2 [] m = 3 -> v3
                         [] m = 4 -> v4 [] m = 5 -> v5
        members(id) == {named(m) : m \in B!BoothAt(booths, id).members \ {0}}
    IN  members(0) = OrdBooth /\ members(1) = BoothWOP /\ members(5) = BoothNOP

\* Whatever the numbers of servers and of members, the booths are all the sets of
\* that size with proposer and pivot, each at the place its id names.
ASSUME BoothsOfSmallClusters ==
    \A c \in 2..7 : \A b \in 2..c :
        LET booths == B!PrepareBooths(c, b)
        IN  /\ {booths[k].members : k \in DOMAIN booths} = B!AllBooths(c, b)
            /\ \A k \in DOMAIN booths : booths[k].id = k - 1

\* A booth of three, where both validators must sign.
OrdPair == {v1, v2}
CmtPair == {v1, v4}

OneBlock == {0}
TwoBlocks == {0, 1}

\* With one worker a block id names one block; two workers may share an id.
OneHash == {h1}
TwoHashes == {h1, h2}

\* Validators with the same booths are interchangeable, and so are blocks.
SymmetryOCSB == Permutations(OrdBooth)
SymmetryWOP == Permutations({v1, v2}) \cup Permutations(TwoHashes)
SymmetryPair == Permutations(OrdPair)
SymmetryNOP == Permutations({v2, v3}) \cup Permutations({v4, v5})

\* The log that the consensus phase implements: signing is the vote, and an
\* instance is filled when its combined signature is made.
Log == INSTANCE QuorumLog WITH
    Validators <- CmtValidators,
    Slots <- Instances,
    Hashes <- TotalHashes,
    QuorumVotes <- 2 * F,
    voted <- [v \in CmtValidators |->
                 LET signing == {m \in ca : m.to = v /\ m.pc = "token"}
                 IN  [i \in DOMAIN vHash[v] \cup {m.inst : m \in signing} |->
                         IF i \in DOMAIN vHash[v] THEN vHash[v][i]
                         ELSE Digest((CHOOSE m \in signing : m.inst = i).rangeHash)]],
    log <- {[slot |-> c.inst, hash |-> c.hash] : c \in commits}

\* Every step of the consensus phase is a step of the log or leaves it alone:
\* no validator signs two different ranges for one instance, and no two are
\* committed for it, nor any that a quorum has not signed
\* (vconsensus.go:152-203, comply.go:197-212).  How often an instance is
\* committed is not said here; CBReturns shows that it may be twice.
ImplementsLog == Log!Spec

\* The ordering phase as its interface describes it, seen in the state of the consensus
\* phase.
Phase == INSTANCE OrderedBlocks WITH vCmt <- [v \in OrdValidators |-> vCmt[v]]

\* The consensus phase leaves the ordering phase alone: the handlers of the commit booth
\* write to the cache of the ordering booth no block that its own handlers might not
\* write, and a crash takes no more than the dead process held (comply.go:76-111).
ImplementsOrdering == Phase!OrdSpec
===============================================================================
