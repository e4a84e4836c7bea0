-------------------------------- MODULE Booths --------------------------------
(***************************************************************************)
(* Booth generation, prepareBooths of mmu.go.  A booth has the proposer    *)
(* (server 0) and the pivot validator (server 1); the code enumerates the  *)
(* combinations of one server less, in which member 0 stands for that pair. *)
(***************************************************************************)
EXTENDS Integers, Sequences, FiniteSets, FiniteSetsExt

\* The elements of a finite set, in an order that is total on it.
InOrder(S, Before(_, _)) ==
    [i \in 1..Cardinality(S) |->
        CHOOSE s \in S : Cardinality({t \in S : Before(t, s)}) = i - 1]

\* combin.Combinations(n, k): the k-element subsets of 0..n-1 in lexicographic
\* order of their sorted elements.
LexBefore(s, t) == s # t /\ Min((s \ t) \cup (t \ s)) \in s
Combinations(n, k) == InOrder(kSubset(k, 0..(n - 1)), LexBefore)

\* The pair of proposer and pivot is in the combination.
LastMemberIsPivot(members) == Max(members \cup {0}) = 0 \/ 1 \in members
HasPivot(members) == 0 \in members

\* prepareBooths: number the combinations, keep those with the pivot, shift the
\* members by one and add the proposer.
PrepareBooths(numOfConns, boothsize) ==
    LET size     == boothsize - 1
        total    == Max({numOfConns - 1, size})
        combos   == Combinations(total, size)
        kept     == InOrder({k \in DOMAIN combos : HasPivot(combos[k])}, <)
    IN  [i \in DOMAIN kept |->
            [id      |-> kept[i] - 1,
             members |-> {m + 1 : m \in combos[kept[i]]} \cup {0}]]

\* booMgr.b[id]: the booth a broadcast addresses by id.
InRange(booths, id) == id + 1 \in DOMAIN booths
BoothAt(booths, id) == booths[id + 1]

\* Reference: every set of boothsize servers with the proposer and the pivot.
AllBooths(numOfConns, boothsize) ==
    {s \in kSubset(boothsize, 0..(numOfConns - 1)) : {0, 1} \subseteq s}
===============================================================================
