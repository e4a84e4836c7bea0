------------------------------- MODULE QuorumLog -------------------------------
(***************************************************************************)
(* What both phases of V-Guard promise.  Each slot (a block id in the      *)
(* ordering phase, a consensus instance in the consensus phase) collects   *)
(* the votes of a booth: a validator votes for at most one digest per      *)
(* slot, and a slot is filled with at most one digest, one that a quorum   *)
(* of validators has voted for beforehand.  Nothing is ever taken back.    *)
(* How often a phase announces the digest of a slot is not said.           *)
(***************************************************************************)
EXTENDS Integers, FiniteSets, GoMaps

CONSTANTS
    Validators,  \* the validators of the booth
    Slots,       \* block ids or consensus instances
    Hashes,      \* digests
    QuorumVotes  \* validators that must vote for a digest before it is final

VARIABLES
    voted,  \* voted[v]: slot -> digest v has voted for
    log     \* the filled slots, a set of [slot, hash]

vars == <<voted, log>>

Init ==
    /\ voted = [v \in Validators |-> EmptyMap]
    /\ log = {}

Voters(slot, hash) == {v \in Validators : slot \in DOMAIN voted[v] /\ voted[v][slot] = hash}

\* v votes in a slot in which it has not voted.
Vote(v, slot, hash) ==
    /\ slot \notin DOMAIN voted[v]
    /\ voted' = [voted EXCEPT ![v] = Put(@, slot, hash)]

\* A digest that enough validators have voted for fills its slot.
Fill(slot, hash) ==
    /\ \A e \in log : e.slot # slot
    /\ Cardinality(Voters(slot, hash)) >= QuorumVotes
    /\ log' = log \cup {[slot |-> slot, hash |-> hash]}

Next ==
    \/ /\ UNCHANGED log
       /\ \E v \in Validators, slot \in Slots, hash \in Hashes : Vote(v, slot, hash)
    \/ /\ UNCHANGED voted
       /\ \E slot \in Slots, hash \in Hashes : Fill(slot, hash)

Spec == Init /\ [][Next]_vars
===============================================================================
