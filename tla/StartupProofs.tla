----------------------------- MODULE StartupProofs -----------------------------
(***************************************************************************)
(* Proofs about the booths, for any number of servers, and about the       *)
(* start-up, for any number of servers and phases, any booth flags, and    *)
(* any number of failures and restarts.                                    *)
(***************************************************************************)
EXTENDS Startup, Recursion, FiniteSetTheorems, TLAPS

-------------------------------------------------------------------------------
(***************************************************************************)
(* The invariant.                                                          *)
(***************************************************************************)

\* The connections a validator may have made in phase p: each incarnation makes
\* one at most, and the present one has made it if it is in dialog.
Made(p) ==
    {c \in Conns :
        /\ c.by \in Validators
        /\ c.inc <= inc[c.by]
        /\ c.inc = inc[c.by] => p \in dialog[c.by]}

Queued(p) == {backlog[p][k] : k \in DOMAIN backlog[p]}

\* The connections of one validator are queued in the order of its incarnations.
QueueOrdered(q, M) ==
    /\ \A k \in DOMAIN q : q[k].by \in Validators => q[k] \in M
    /\ \A j, k \in DOMAIN q :
           j < k /\ q[j].by = q[k].by /\ q[j].by \in Validators => q[j].inc < q[k].inc

QueueInv == \A p \in Phases : QueueOrdered(backlog[p], Made(p))

\* What a validator has dialled, and how often it was started.
DialInv ==
    \A v \in Validators : dialog[v] \subseteq 1..(phase[v] - 1) /\ inc[v] <= restarts

\* The connection of the present incarnation is queued, or it is the registered one
\* and no older one is left to be registered over it.
Held(v, p) ==
    \/ Conn(v) \in Queued(p)
    \/ /\ v \in DOMAIN concierge[p]
       /\ concierge[p][v] = Conn(v)
       /\ \A k \in DOMAIN backlog[p] : backlog[p][k].by # v

CurrentInv ==
    ProposerUp => \A v \in Validators : \A p \in dialog[v] \ lost[v] : Held(v, p)

\* The incarnations after the first one, and the connections that may have been
\* counted in phase p.
Reborn == {c \in Conns : c.by \in Validators /\ c.inc \in 1..inc[c.by]}
Counted(p) == {c \in Made(p) \ Queued(p) : c.by \in DOMAIN concierge[p]}
Incomplete == {p \in Phases : connected[p] < NumOfConn - 1}

CountInv ==
    /\ Cardinality(Reborn) = restarts
    /\ \A p \in Phases : connected[p] <= Cardinality(Counted(p))

\* wg is the number of phases that miss a connection.
WaitInv ==
    /\ wg = Cardinality(Incomplete)
    /\ ppc # "waiting" => wg = 0

\* The booths are those of the flags, and the process goes on if both ids that are
\* used have one.
BoothInv ==
    /\ booMgr = IF ppc = "waiting" THEN <<>> ELSE PrepareBooths(NumOfConn, flags.boo)
    /\ ppc = "panicked" => ~(Usable(0) /\ Usable(flags.cmt))
    /\ ppc \in {"running", "exited"} => Usable(0) /\ Usable(flags.cmt)
-------------------------------------------------------------------------------
(***************************************************************************)
(* Smallest and largest numbers of a set.                                  *)
(***************************************************************************)

LEMMA MinOfNaturals ==
    ASSUME NEW S \in SUBSET Nat, S # {}
    PROVE  Min(S) \in S /\ \A y \in S : Min(S) <= y
    <1>1. PICK x \in S : \A y \in S : x <= y
        BY SmallestOf
    <1> QED
        BY <1>1 DEF Min

LEMMA MaxOfInterval ==
    ASSUME NEW n \in Nat, NEW S \in SUBSET (1..n), S # {}
    PROVE  Max(S) \in S /\ \A y \in S : y <= Max(S)
    <1> DEFINE T == {n - x : x \in S}
    <1>1. T \in SUBSET Nat /\ T # {}
        <2>1. \A x \in S : n - x \in Nat
            OBVIOUS
        <2> QED
            BY <2>1
    <1>2. Min(T) \in T /\ \A y \in T : Min(T) <= y
        BY <1>1, MinOfNaturals
    <1>3. PICK x \in S : Min(T) = n - x
        BY <1>2
    <1>4. \A y \in S : y <= x
        <2> TAKE y \in S
        <2>1. Min(T) <= n - y
            BY <1>2
        <2> QED
            BY <2>1, <1>3
    <1> QED
        BY <1>4 DEF Max
-------------------------------------------------------------------------------
(***************************************************************************)
(* A finite set in a total order.                                          *)
(***************************************************************************)

Precedes(S, R, s) == {t \in S : <<t, s>> \in R}
TotallyOrders(R, S) ==
    /\ \A s \in S : <<s, s>> \notin R
    /\ \A s, t, u \in S : <<s, t>> \in R /\ <<t, u>> \in R => <<s, u>> \in R
    /\ \A s, t \in S : s # t => <<s, t>> \in R \/ <<t, s>> \in R

Sorted(S, R) ==
    [i \in 1..Cardinality(S) |-> CHOOSE s \in S : Cardinality(Precedes(S, R, s)) = i - 1]

\* An element has as many predecessors as its place says.
LEMMA Ranks ==
    ASSUME NEW S, IsFiniteSet(S), NEW R, TotallyOrders(R, S)
    PROVE  /\ \A s \in S : Cardinality(Precedes(S, R, s)) \in 0..(Cardinality(S) - 1)
           /\ \A s, t \in S : <<s, t>> \in R =>
                  Cardinality(Precedes(S, R, s)) < Cardinality(Precedes(S, R, t))
    <1>0. /\ Cardinality(S) \in Nat
          /\ \A s \in S : /\ IsFiniteSet(Precedes(S, R, s))
                          /\ Cardinality(Precedes(S, R, s)) \in Nat
        BY FS_CardinalityType, FS_Subset DEF Precedes
    <1>1. ASSUME NEW s \in S, NEW T \in SUBSET S, Precedes(S, R, s) \subseteq T, s \in T
          PROVE  Cardinality(Precedes(S, R, s)) < Cardinality(T)
        <2>1. s \notin Precedes(S, R, s)
            BY DEF Precedes, TotallyOrders
        <2>2. IsFiniteSet(T) /\ Cardinality(T) \in Nat
            BY FS_Subset, FS_CardinalityType
        <2>3. Cardinality(Precedes(S, R, s)) <= Cardinality(T)
            BY <1>1, <2>2, FS_Subset
        <2>4. Cardinality(Precedes(S, R, s)) # Cardinality(T)
            BY <1>1, <2>1, <2>2, FS_Subset
        <2> QED
            BY <1>0, <2>2, <2>3, <2>4
    <1>2. ASSUME NEW s \in S
          PROVE  Cardinality(Precedes(S, R, s)) \in 0..(Cardinality(S) - 1)
        <2>1. Cardinality(Precedes(S, R, s)) < Cardinality(S)
            BY <1>1 DEF Precedes
        <2> QED
            BY <2>1, <1>0
    <1>3. ASSUME NEW s \in S, NEW t \in S, <<s, t>> \in R
          PROVE  Cardinality(Precedes(S, R, s)) < Cardinality(Precedes(S, R, t))
        <2>1. Precedes(S, R, s) \subseteq Precedes(S, R, t)
            BY <1>3 DEF Precedes, TotallyOrders
        <2>2. s \in Precedes(S, R, t) /\ Precedes(S, R, t) \in SUBSET S
            BY <1>3 DEF Precedes
        <2> QED
            BY <2>1, <2>2, <1>1
    <1> QED
        BY <1>2, <1>3

\* So sorting a set lists each of its elements once, in that order.
LEMMA SortedLists ==
    ASSUME NEW S, IsFiniteSet(S), NEW R, TotallyOrders(R, S)
    PROVE  /\ Sorted(S, R) \in [1..Cardinality(S) -> S]
           /\ \A s \in S : \E i \in 1..Cardinality(S) : Sorted(S, R)[i] = s
           /\ \A i, j \in 1..Cardinality(S) : i < j => <<Sorted(S, R)[i], Sorted(S, R)[j]>> \in R
    <1> DEFINE n == Cardinality(S)
               rank == [s \in S |-> Cardinality(Precedes(S, R, s))]
    <1>0. n \in Nat /\ IsFiniteSet(0..(n - 1)) /\ Cardinality(0..(n - 1)) = n
        <2>1. n \in Nat
            BY FS_CardinalityType
        <2> HIDE DEF n
        <2> QED
            BY <2>1, FS_Interval
    <1>1. rank \in [S -> 0..(n - 1)]
        BY Ranks
    <1>2. \A s, t \in S : <<s, t>> \in R => rank[s] < rank[t]
        BY Ranks
    <1> HIDE DEF rank
    <1>3. ASSUME NEW s \in S, NEW t \in S, rank[s] = rank[t]
          PROVE  s = t
        <2>1. rank[s] \in Int
            BY <1>1
        <2>2. <<s, t>> \notin R /\ <<t, s>> \notin R
            BY <1>2, <1>3, <2>1
        <2> QED
            BY <2>2 DEF TotallyOrders
    <1>4. \A k \in 0..(n - 1) : \E s \in S : rank[s] = k
        <2>1. rank \in Injection(S, 0..(n - 1))
            BY <1>1, <1>3 DEF Injection, IsInjective
        <2>2. rank \in Surjection(S, 0..(n - 1))
            BY <2>1, <1>0, FS_Injection
        <2> QED
            BY <2>2 DEF Surjection
    <1>5. \A i \in 1..n : Sorted(S, R)[i] \in S /\ rank[Sorted(S, R)[i]] = i - 1
        <2> TAKE i \in 1..n
        <2>1. PICK s \in S : rank[s] = i - 1
            BY <1>4, <1>0
        <2>2. Sorted(S, R)[i] = CHOOSE t \in S : rank[t] = i - 1
            BY DEF Sorted, rank
        <2> QED
            BY <2>1, <2>2
    <1>6. Sorted(S, R) \in [1..n -> S]
        BY <1>5 DEF Sorted
    <1>7. \A s \in S : \E i \in 1..n : Sorted(S, R)[i] = s
        <2> TAKE s \in S
        <2>1. rank[s] \in 0..(n - 1)
            BY <1>1
        <2>2. rank[s] + 1 \in 1..n /\ (rank[s] + 1) - 1 = rank[s]
            BY <2>1, <1>0
        <2> QED
            BY <2>2, <1>5, <1>3
    <1>8. \A i, j \in 1..n : i < j => <<Sorted(S, R)[i], Sorted(S, R)[j]>> \in R
        <2> SUFFICES ASSUME NEW i \in 1..n, NEW j \in 1..n, i < j
                     PROVE  <<Sorted(S, R)[i], Sorted(S, R)[j]>> \in R
            OBVIOUS
        <2> DEFINE s == Sorted(S, R)[i]
                   t == Sorted(S, R)[j]
        <2>1. s \in S /\ t \in S /\ rank[s] < rank[t]
            BY <1>5, <1>0
        <2>2. rank[s] \in Int /\ rank[t] \in Int
            BY <2>1, <1>1
        <2>3. s # t /\ <<t, s>> \notin R
            BY <2>1, <2>2, <1>2
        <2> QED
            BY <2>1, <2>3 DEF TotallyOrders
    <1> QED
        BY <1>6, <1>7, <1>8

\* The numbers from 1 on are in order.
LEMMA NumbersInOrder ==
    ASSUME NEW m \in Nat
    PROVE  InOrder(1..m, <) = [i \in 1..m |-> i]
    <1>1. Cardinality(1..m) = m
        BY FS_Interval
    <1>2. ASSUME NEW i \in 1..m
          PROVE  (CHOOSE s \in 1..m : Cardinality({t \in 1..m : t < s}) = i - 1) = i
        <2>1. ASSUME NEW s \in 1..m
              PROVE  Cardinality({t \in 1..m : t < s}) = s - 1
            <3>1. {t \in 1..m : t < s} = 1..(s - 1)
                OBVIOUS
            <3>2. Cardinality(1..(s - 1)) = s - 1
                BY FS_Interval
            <3> QED
                BY <3>1, <3>2
        <2>2. \A s \in 1..m : Cardinality({t \in 1..m : t < s}) = i - 1 <=> s = i
            BY <2>1
        <2> QED
            BY <2>2
    <1> QED
        BY <1>1, <1>2 DEF InOrder

\* The lexicographic order: the smallest number in one of the sets only decides.
LEMMA LexDecides ==
    ASSUME NEW s \in SUBSET Nat, NEW t \in SUBSET Nat
    PROVE  LexBefore(s, t) <=>
               \E a \in s \ t : \A c \in Nat : c < a => (c \in s <=> c \in t)
    <1> DEFINE D == (s \ t) \cup (t \ s)
    <1>1. CASE s = t
        BY <1>1 DEF LexBefore
    <1>2. CASE s # t
        <2>1. D \in SUBSET Nat /\ D # {}
            BY <1>2
        <2>2. Min(D) \in D /\ \A y \in D : Min(D) <= y
            BY <2>1, MinOfNaturals
        <2>3. \A c \in Nat : c < Min(D) => (c \in s <=> c \in t)
            <3>1. PICK d \in Nat : d = Min(D) /\ \A y \in D : d <= y
                BY <2>1, <2>2
            <3>2. \A c \in Nat : c < d => c \notin D
                BY <3>1
            <3> QED
                BY <3>1, <3>2
        <2>4. ASSUME NEW a \in s \ t, \A c \in Nat : c < a => (c \in s <=> c \in t)
              PROVE  Min(D) = a
            <3>1. a \in D /\ Min(D) <= a /\ a \in Nat /\ Min(D) \in Nat
                BY <2>1, <2>2
            <3>2. ~(Min(D) < a)
                BY <2>2, <2>4, <3>1
            <3> QED
                BY <3>1, <3>2
        <2>5. LexBefore(s, t) <=> Min(D) \in s
            BY <1>2 DEF LexBefore
        <2> QED
            BY <2>2, <2>3, <2>4, <2>5
    <1> QED
        BY <1>1, <1>2

Lex(K) == {r \in K \X K : LexBefore(r[1], r[2])}

LEMMA LexOrders ==
    ASSUME NEW K \in SUBSET SUBSET Nat
    PROVE  TotallyOrders(Lex(K), K)
    <1>1. \A s, t \in K : <<s, t>> \in Lex(K) <=> LexBefore(s, t)
        BY DEF Lex
    <1>2. \A s \in K : ~LexBefore(s, s)
        BY DEF LexBefore
    <1>3. ASSUME NEW s \in K, NEW t \in K, NEW u \in K, LexBefore(s, t), LexBefore(t, u)
          PROVE  LexBefore(s, u)
        <2>1. PICK a \in s \ t : \A c \in Nat : c < a => (c \in s <=> c \in t)
            BY <1>3, LexDecides
        <2>2. PICK b \in t \ u : \A c \in Nat : c < b => (c \in t <=> c \in u)
            BY <1>3, LexDecides
        <2>3. a \in Nat /\ b \in Nat /\ a # b
            BY <2>1, <2>2
        <2>4. CASE a < b
            <3>1. a \in s \ u
                BY <2>1, <2>2, <2>3, <2>4
            <3>2. \A c \in Nat : c < a => (c \in s <=> c \in u)
                BY <2>1, <2>2, <2>3, <2>4
            <3> QED
                BY <3>1, <3>2, LexDecides
        <2>5. CASE b < a
            <3>1. b \in s \ u
                BY <2>1, <2>2, <2>3, <2>5
            <3>2. \A c \in Nat : c < b => (c \in s <=> c \in u)
                BY <2>1, <2>2, <2>3, <2>5
            <3> QED
                BY <3>1, <3>2, LexDecides
        <2> QED
            BY <2>3, <2>4, <2>5
    <1>4. ASSUME NEW s \in K, NEW t \in K, s # t
          PROVE  LexBefore(s, t) \/ LexBefore(t, s)
        <2> DEFINE D == (s \ t) \cup (t \ s)
        <2>1. D \in SUBSET Nat /\ D # {}
            BY <1>4
        <2>2. Min(D) \in D
            BY <2>1, MinOfNaturals
        <2>3. (t \ s) \cup (s \ t) = D
            OBVIOUS
        <2>4. LexBefore(s, t) <=> Min(D) \in s
            BY <1>4 DEF LexBefore
        <2>5. LexBefore(t, s) <=> Min(D) \in t
            BY <1>4, <2>3 DEF LexBefore
        <2> QED
            BY <2>2, <2>4, <2>5
    <1> QED
        BY <1>1, <1>2, <1>3, <1>4 DEF TotallyOrders

\* The combinations, and that one with member 0 comes before one without it.
LEMMA CombinationsListed ==
    ASSUME NEW n \in Nat, NEW k \in Nat
    PROVE  LET K == kSubset(k, 0..(n - 1))
               C == Combinations(n, k)
           IN  /\ IsFiniteSet(K)
               /\ Cardinality(K) \in Nat
               /\ C \in [1..Cardinality(K) -> K]
               /\ \A s \in K : \E i \in 1..Cardinality(K) : C[i] = s
               /\ \A i, j \in 1..Cardinality(K) : i < j => LexBefore(C[i], C[j])
    <1> DEFINE K == kSubset(k, 0..(n - 1))
               C == Combinations(n, k)
    <1>1. K \in SUBSET SUBSET (0..(n - 1)) /\ K \in SUBSET SUBSET Nat
        BY DEF kSubset
    <1>2. IsFiniteSet(K) /\ Cardinality(K) \in Nat
        <2>1. IsFiniteSet(0..(n - 1))
            BY FS_Interval
        <2>2. IsFiniteSet(SUBSET (0..(n - 1)))
            BY <2>1, FS_SUBSET
        <2>3. IsFiniteSet(K)
            BY <1>1, <2>2, FS_Subset
        <2> HIDE DEF K
        <2> QED
            BY <2>3, FS_CardinalityType
    <1>3. C = Sorted(K, Lex(K))
        <2>1. \A s \in K : {t \in K : LexBefore(t, s)} = Precedes(K, Lex(K), s)
            BY DEF Precedes, Lex
        <2>2. C = [i \in 1..Cardinality(K) |->
                      CHOOSE s \in K : Cardinality({t \in K : LexBefore(t, s)}) = i - 1]
            BY DEF Combinations, InOrder
        <2> DEFINE place(i) == CHOOSE s \in K : Cardinality({t \in K : LexBefore(t, s)}) = i - 1
                   rank(i)  == CHOOSE s \in K : Cardinality(Precedes(K, Lex(K), s)) = i - 1
        <2> HIDE DEF K, C
        <2>3. \A i \in 1..Cardinality(K) : place(i) = rank(i)
            BY <2>1
        <2>4. /\ C = [i \in 1..Cardinality(K) |-> place(i)]
              /\ Sorted(K, Lex(K)) = [i \in 1..Cardinality(K) |-> rank(i)]
            BY <2>2 DEF Sorted
        <2> HIDE DEF place, rank
        <2> QED
            BY <2>3, <2>4
    <1> HIDE DEF K, C
    <1>4. TotallyOrders(Lex(K), K)
        BY <1>1, LexOrders
    <1>5. /\ C \in [1..Cardinality(K) -> K]
          /\ \A s \in K : \E i \in 1..Cardinality(K) : C[i] = s
          /\ \A i, j \in 1..Cardinality(K) : i < j => <<C[i], C[j]>> \in Lex(K)
        BY <1>2, <1>3, <1>4, SortedLists
    <1>6. \A i, j \in 1..Cardinality(K) : i < j => LexBefore(C[i], C[j])
        BY <1>5 DEF Lex
    <1> QED
        BY <1>2, <1>5, <1>6 DEF K, C
-------------------------------------------------------------------------------
(***************************************************************************)
(* The booths.                                                             *)
(***************************************************************************)

LEMMA InitialSegment ==
    ASSUME NEW n \in Nat, NEW P \in SUBSET (1..n),
           \A k \in P : \A j \in 1..n : j < k => j \in P
    PROVE  Cardinality(P) \in Nat /\ P = 1..Cardinality(P)
    <1>1. CASE P = {}
        <2>1. Cardinality(P) = 0
            BY <1>1, FS_EmptySet
        <2> QED
            BY <2>1, <1>1
    <1>2. CASE P # {}
        <2>1. PICK m \in P : \A y \in P : y <= m
            BY <1>2, MaxOfInterval
        <2>2. P = 1..m
            <3>1. m \in 1..n
                BY <2>1
            <3>2. \A k \in P : k \in 1..m
                BY <2>1
            <3>3. \A k \in 1..m : k \in P
                BY <2>1, <3>1
            <3> QED
                BY <3>2, <3>3
        <2>3. Cardinality(1..m) = m
            BY <2>1, FS_Interval
        <2> QED
            BY <2>1, <2>2, <2>3
    <1> QED
        BY <1>1, <1>2

\* Renumbering keeps the size of a set.
LEMMA Renumbered ==
    ASSUME NEW S \in SUBSET Int, IsFiniteSet(S), NEW d \in Int, NEW T \in SUBSET Int,
           \A m \in S : m + d \in T, \A t \in T : t - d \in S
    PROVE  IsFiniteSet(T) /\ Cardinality(T) = Cardinality(S)
    <1> DEFINE f == [m \in S |-> m + d]
    <1>1. f \in [S -> T]
        OBVIOUS
    <1>2. \A x, y \in S : f[x] = f[y] => x = y
        OBVIOUS
    <1>3. ASSUME NEW t \in T PROVE \E m \in S : f[m] = t
        <2>1. t - d \in S /\ (t - d) + d = t
            OBVIOUS
        <2> QED
            BY <2>1
    <1> HIDE DEF f
    <1>4. f \in Bijection(S, T)
        BY <1>1, <1>2, <1>3 DEF Bijection, Injection, IsInjective, Surjection
    <1>5. ExistsBijection(S, T)
        BY <1>4 DEF ExistsBijection
    <1> QED
        BY <1>5, FS_Bijection

\* The members of the booth that a combination stands for.
Shifted(s) == {m + 1 : m \in s} \cup {0}

LEMMA ShiftedIsBooth ==
    ASSUME NEW total \in Nat, NEW size \in Nat, NEW s \in kSubset(size, 0..(total - 1)), 0 \in s
    PROVE  Shifted(s) \in kSubset(size + 1, 0..total) /\ {0, 1} \subseteq Shifted(s)
    <1>1. s \in SUBSET (0..(total - 1)) /\ Cardinality(s) = size
        BY DEF kSubset
    <1>2. IsFiniteSet(s)
        <2>1. IsFiniteSet(0..(total - 1))
            BY FS_Interval
        <2> QED
            BY <1>1, <2>1, FS_Subset
    <1> DEFINE T == {m + 1 : m \in s}
    <1>3. IsFiniteSet(T) /\ Cardinality(T) = size
        <2>0. PICK d \in Int : d = 1
            OBVIOUS
        <2>1. s \in SUBSET Int /\ T \in SUBSET Int /\ \A m \in s : m + d \in T
            BY <1>1, <2>0
        <2>2. \A t \in T : t - d \in s
            BY <1>1, <2>0
        <2> HIDE DEF T
        <2> QED
            BY <1>1, <1>2, <2>1, <2>2, Renumbered
    <1>4. 0 \notin T /\ T \in SUBSET (0..total) /\ 1 \in T
        BY <1>1
    <1> HIDE DEF T
    <1>5. Cardinality(T \cup {0}) = size + 1
        BY <1>3, <1>4, FS_AddElement
    <1>6. Shifted(s) = T \cup {0}
        BY DEF Shifted, T
    <1> QED
        BY <1>4, <1>5, <1>6 DEF kSubset

LEMMA BoothIsShifted ==
    ASSUME NEW total \in Nat, NEW size \in Nat,
           NEW t \in kSubset(size + 1, 0..total), {0, 1} \subseteq t
    PROVE  \E s \in kSubset(size, 0..(total - 1)) : 0 \in s /\ Shifted(s) = t
    <1>1. t \in SUBSET (0..total) /\ Cardinality(t) = size + 1
        BY DEF kSubset
    <1>2. IsFiniteSet(t)
        <2>1. IsFiniteSet(0..total)
            BY FS_Interval
        <2> QED
            BY <1>1, <2>1, FS_Subset
    <1> DEFINE r == t \ {0}
               s == {m + -1 : m \in r}
    <1>3. IsFiniteSet(r) /\ Cardinality(r) = size
        BY <1>1, <1>2, FS_RemoveElement
    <1>4. r \in SUBSET (1..total) /\ 1 \in r
        BY <1>1
    <1> HIDE DEF r
    <1>5. Cardinality(s) = size
        <2>1. s \in SUBSET Int /\ \A m \in r : m + -1 \in s
            BY <1>4
        <2>2. \A x \in s : x - (-1) \in r
            BY <1>4
        <2> HIDE DEF s
        <2> QED
            BY <1>3, <1>4, <2>1, <2>2, Renumbered
    <1>6. s \in SUBSET (0..(total - 1)) /\ 0 \in s
        <2>1. \A m \in r : m + -1 \in 0..(total - 1)
            BY <1>4
        <2>2. 1 + -1 = 0
            OBVIOUS
        <2> QED
            BY <2>1, <2>2, <1>4
    <1>7. {k + 1 : k \in s} = r
        <2>1. \A m \in r : (m + -1) + 1 = m
            BY <1>4
        <2> QED
            BY <2>1
    <1>8. Shifted(s) = t
        BY <1>7 DEF Shifted, r
    <1> QED
        BY <1>5, <1>6, <1>8 DEF kSubset

LEMMA ShiftedDiffer ==
    ASSUME NEW s \in SUBSET Nat, NEW u \in SUBSET Nat, Shifted(s) = Shifted(u)
    PROVE  s = u
    <1>1. ASSUME NEW m \in Nat, NEW w \in SUBSET Nat
          PROVE  m \in w <=> m + 1 \in Shifted(w)
        BY DEF Shifted
    <1> QED
        BY <1>1

\* The sets that can be booths when servers are missing for a booth of this size, too.
BoothSets(n, b) == {s \in kSubset(b, 0..Max({n - 1, b - 1})) : {0, 1} \subseteq s}

LEMMA LargerOfTwo ==
    ASSUME NEW x \in Nat, NEW y \in Nat
    PROVE  Max({x, y}) = IF x >= y THEN x ELSE y
    <1>1. CASE x >= y
        BY <1>1 DEF Max
    <1>2. CASE ~(x >= y)
        BY <1>2 DEF Max
    <1> QED
        BY <1>1, <1>2

\* prepareBooths lists all of these sets, each once, and numbers them from 0 on:
\* the combinations it discards come after those it keeps (mmu.go:39-77).
THEOREM PreparedBooths ==
    ASSUME NEW n \in Nat \ {0}, NEW b \in Nat \ {0}
    PROVE  LET booths == PrepareBooths(n, b)
               m      == Cardinality(BoothSets(n, b))
           IN  /\ m \in Nat
               /\ booths \in [1..m -> [id : Nat, members : SUBSET Nat]]
               /\ \A i \in 1..m : booths[i].id = i - 1
               /\ {booths[i].members : i \in 1..m} = BoothSets(n, b)
    <1> DEFINE size  == b - 1
               total == Max({n - 1, size})
               K     == kSubset(size, 0..(total - 1))
               N     == Cardinality(K)
               C     == Combinations(total, size)
               P     == {k \in DOMAIN C : HasPivot(C[k])}
               m     == Cardinality(P)
               B     == BoothSets(n, b)
               shift == [i \in 1..m |-> Shifted(C[i])]
    <1>1. size \in Nat /\ total \in Nat /\ size + 1 = b
        <2>1. n - 1 \in Nat /\ b - 1 \in Nat
            OBVIOUS
        <2> QED
            BY <2>1, LargerOfTwo
    <1>2. /\ N \in Nat
          /\ C \in [1..N -> K]
          /\ \A s \in K : \E i \in 1..N : C[i] = s
          /\ \A i, j \in 1..N : i < j => LexBefore(C[i], C[j])
        <2> HIDE DEF size, total
        <2> QED
            BY <1>1, CombinationsListed
    <1>3. \A s \in K : s \in SUBSET Nat
        BY DEF kSubset
    <1>4. B = {s \in kSubset(size + 1, 0..total) : {0, 1} \subseteq s}
        BY <1>1 DEF BoothSets
    <1>5. P \in SUBSET (1..N) /\ \A k \in 1..N : k \in P <=> 0 \in C[k]
        BY <1>2 DEF HasPivot
    <1> HIDE DEF size, total, K, C, P, B
    <1>6. ASSUME NEW k \in P, NEW j \in 1..N, j < k
          PROVE  j \in P
        <2>1. C[j] \in SUBSET Nat /\ C[k] \in SUBSET Nat /\ 0 \in C[k]
            BY <1>2, <1>3, <1>5
        <2>2. LexBefore(C[j], C[k])
            BY <1>2, <1>5, <1>6
        <2>3. PICK a \in C[j] \ C[k] : \A c \in Nat : c < a => (c \in C[j] <=> c \in C[k])
            BY <2>1, <2>2, LexDecides
        <2>4. a \in Nat /\ a # 0
            BY <2>1, <2>3
        <2> QED
            BY <1>5, <2>1, <2>3, <2>4
    <1>7. m \in Nat /\ P = 1..m
        BY <1>2, <1>5, <1>6, InitialSegment
    <1>8. PrepareBooths(n, b) = [i \in 1..m |-> [id |-> i - 1, members |-> Shifted(C[i])]]
        <2> DEFINE kept == InOrder(P, <)
        <2>1. PrepareBooths(n, b) =
                  [i \in DOMAIN kept |-> [id |-> kept[i] - 1, members |-> Shifted(C[kept[i]])]]
            BY DEF PrepareBooths, size, total, C, P, Shifted
        <2>2. kept = [i \in 1..m |-> i]
            <3> HIDE DEF m
            <3> QED
                BY <1>7, NumbersInOrder
        <2> HIDE DEF kept
        <2> QED
            BY <2>1, <2>2
    <1>9. shift \in [1..m -> B] /\ \A i \in 1..m : C[i] \in K /\ 0 \in C[i] /\ i \in 1..N
        <2>1. \A i \in 1..m : C[i] \in K /\ 0 \in C[i] /\ i \in 1..N
            BY <1>2, <1>5, <1>7
        <2>2. \A s \in K : 0 \in s => Shifted(s) \in B
            BY <1>1, <1>4, ShiftedIsBooth DEF K
        <2> QED
            BY <2>1, <2>2
    <1>10. \A t \in B : \E i \in 1..m : shift[i] = t
        <2> TAKE t \in B
        <2>1. PICK s \in K : 0 \in s /\ Shifted(s) = t
            BY <1>1, <1>4, BoothIsShifted DEF K
        <2>2. PICK i \in 1..N : C[i] = s
            BY <1>2
        <2> QED
            BY <2>1, <2>2, <1>5, <1>7
    <1>11. \A i, j \in 1..m : shift[i] = shift[j] => i = j
        <2> SUFFICES ASSUME NEW i \in 1..m, NEW j \in 1..m, shift[i] = shift[j], i < j
                     PROVE  FALSE
            BY <1>7
        <2>1. C[i] = C[j]
            BY <1>3, <1>9, ShiftedDiffer
        <2>2. LexBefore(C[i], C[j])
            BY <1>2, <1>9
        <2> QED
            BY <2>1, <2>2 DEF LexBefore
    <1>12. IsFiniteSet(B) /\ Cardinality(B) = m
        <2> HIDE DEF shift, m
        <2>1. shift \in Bijection(1..m, B)
            BY <1>9, <1>10, <1>11 DEF Bijection, Injection, IsInjective, Surjection
        <2>2. IsFiniteSet(1..m) /\ Cardinality(1..m) = m
            BY <1>7, FS_Interval
        <2> QED
            BY <2>1, <2>2, FS_Bijection DEF ExistsBijection
    <1>13. \A i \in 1..m : Shifted(C[i]) \in SUBSET Nat
        BY <1>9, <1>3 DEF Shifted
    <1>14. {PrepareBooths(n, b)[i].members : i \in 1..m} = B
        BY <1>8, <1>9, <1>10
    <1> HIDE DEF shift, m
    <1>15. PrepareBooths(n, b) \in [1..m -> [id : Nat, members : SUBSET Nat]]
        BY <1>7, <1>8, <1>13
    <1>16. \A i \in 1..m : PrepareBooths(n, b)[i].id = i - 1
        BY <1>8
    <1> QED
        BY <1>7, <1>12, <1>14, <1>15, <1>16 DEF B
-------------------------------------------------------------------------------
(***************************************************************************)
(* The configuration.                                                      *)
(***************************************************************************)

\* A validator's row is the one its address is found in.
LEMMA RowOfServer ==
    ASSUME NEW v \in Validators, NEW p \in Phases
    PROVE  /\ v \in Nat /\ v + 1 \in 1..NumOfConn
           /\ AddressOf(v, p) \in DialAddresses(ServerList[v + 1])
    BY StartupAssumption DEF Validators, Servers, AddressOf, DialAddresses

\* Every validator of the file is recognised, as some server.
LEMMA LookUpIsServer ==
    ASSUME NEW v \in Validators, NEW p \in Phases
    PROVE  Known(v, p) /\ LookUp(AddressOf(v, p)) \in Servers
    <1> DEFINE S == ServersWith(AddressOf(v, p))
    <1>1. v + 1 \in S /\ S \in SUBSET (1..NumOfConn)
        BY RowOfServer DEF ServersWith
    <1>2. Max(S) \in S
        BY <1>1, MaxOfInterval, StartupAssumption
    <1>3. ServerList[Max(S)].index = Max(S) - 1
        BY <1>1, <1>2, StartupAssumption DEF ServerList, ServerInfo
    <1> QED
        BY <1>1, <1>2, <1>3, StartupAssumption DEF Known, Recognised, LookUp, Servers

\* If addresses are distinct, it is recognised as itself.
LEMMA LookUpIsSelf ==
    ASSUME DistinctAddresses, NEW v \in Validators, NEW p \in Phases
    PROVE  LookUp(AddressOf(v, p)) = v
    <1> DEFINE S == ServersWith(AddressOf(v, p))
    <1>1. S = {v + 1}
        BY RowOfServer DEF ServersWith, DistinctAddresses
    <1>2. Max(S) = v + 1
        <2>1. v + 1 \in Nat
            BY RowOfServer
        <2> QED
            BY <1>1, <2>1 DEF Max
    <1>3. ServerList[v + 1].index = v
        <2>1. v \in Nat /\ v + 1 \in 1..NumOfConn
            BY RowOfServer
        <2>2. ServerList[v + 1].index = Conf[v + 1][1]
            BY <2>1 DEF ServerList, ServerInfo
        <2>3. Conf[v + 1][1] = (v + 1) - 1
            BY <2>1, StartupAssumption
        <2> QED
            BY <2>1, <2>2, <2>3
    <1> QED
        BY <1>2, <1>3 DEF LookUp
-------------------------------------------------------------------------------
(***************************************************************************)
(* Types.                                                                  *)
(***************************************************************************)

LEMMA RegisterKeepsMap ==
    ASSUME NEW m, NEW K, NEW V, IsMap(m, K, V), NEW k \in K, NEW c \in V
    PROVE  IsMap(Register(m, k, c), K, V)
    BY DEF Register, Put, IsMap

LEMMA BoothTypes ==
    ASSUME NEW f \in Flags
    PROVE  \A k \in DOMAIN PrepareBooths(NumOfConn, f.boo) :
               /\ PrepareBooths(NumOfConn, f.boo)[k].id \in Nat
               /\ PrepareBooths(NumOfConn, f.boo)[k].members \subseteq Nat
    <1>1. NumOfConn \in Nat \ {0} /\ f.boo \in Nat \ {0}
        BY StartupAssumption
    <1>2. PICK m \in Nat :
              PrepareBooths(NumOfConn, f.boo) \in [1..m -> [id : Nat, members : SUBSET Nat]]
        BY <1>1, PreparedBooths
    <1> QED
        BY <1>2

\* The parts of the type invariant.
AcceptTypes ==
    /\ listener \in [Phases -> {"down", "up", "closed"}]
    /\ backlog \in [Phases -> Seq(Conns)]
    /\ concierge = [p \in Phases |-> concierge[p]]
    /\ \A p \in Phases : IsMap(concierge[p], Servers, Conns)
    /\ connected \in [Phases -> Nat]

ProposerTypes ==
    /\ ppc \in {"waiting", "prepared", "running", "panicked", "exited"}
    /\ flags \in Flags
    /\ \A k \in DOMAIN booMgr : booMgr[k].id \in Nat /\ booMgr[k].members \subseteq Nat

ValidatorTypes ==
    /\ vpc \in [Validators -> {"dial", "ready", "dead"}]
    /\ phase \in [Validators -> 1..(NOP + 1)]
    /\ tries \in [Validators -> 0..(MaxTry - 1)]
    /\ dialog \in [Validators -> SUBSET Phases]
    /\ lost \in [Validators -> SUBSET Phases]
    /\ inc \in [Validators -> 0..MaxRestarts]
    /\ strangers \in 0..MaxStrangers
    /\ restarts \in 0..MaxRestarts

Types == AcceptTypes /\ ProposerTypes /\ ValidatorTypes /\ DialInv

LEMMA ConnTypes ==
    ASSUME ValidatorTypes, NEW v \in Validators
    PROVE  Conn(v) \in Conns /\ Conn(v).by = v /\ Conn(v).inc = inc[v]
    BY DEF ValidatorTypes, Conn, Conns

LEMMA AcceptTypesKept ==
    Types /\ [Next]_vars => AcceptTypes'
    <1> SUFFICES ASSUME Types, [Next]_vars PROVE AcceptTypes'
        OBVIOUS
    <1> USE DEF Types
    <1>1. ASSUME NEW p \in Phases, Listen(p) \/ ListenFails(p) PROVE AcceptTypes'
        BY <1>1 DEF AcceptTypes, Listen, ListenFails
    <1>2. ASSUME NEW p \in Phases, AcceptRegistered(p) PROVE AcceptTypes'
        <2> DEFINE c   == Head(backlog[p])
                   sid == LookUp(AddressOf(c.by, p))
        <2>1. backlog[p] \in Seq(Conns) /\ backlog[p] # <<>>
            BY <1>2 DEF AcceptRegistered, AcceptTypes
        <2>2. c \in Conns /\ Tail(backlog[p]) \in Seq(Conns)
            BY <2>1
        <2>3. sid \in Servers
            BY <1>2, LookUpIsServer DEF AcceptRegistered, Known
        <2>4. IsMap(Register(concierge[p], sid, c), Servers, Conns)
            BY <2>2, <2>3, RegisterKeepsMap DEF AcceptTypes
        <2>5. /\ listener' = listener
              /\ backlog' = [backlog EXCEPT ![p] = Tail(@)]
              /\ concierge' = [concierge EXCEPT ![p] = Register(@, sid, c)]
              /\ connected' = [connected EXCEPT ![p] = @ + 1]
            BY <1>2 DEF AcceptRegistered
        <2> HIDE DEF c, sid
        <2>6. listener' \in [Phases -> {"down", "up", "closed"}] /\ backlog' \in [Phases -> Seq(Conns)]
              /\ connected' \in [Phases -> Nat]
            BY <2>2, <2>5 DEF AcceptTypes
        <2>7. concierge' = [q \in Phases |-> concierge'[q]]
            BY <2>5 DEF AcceptTypes
        <2>8. ASSUME NEW q \in Phases PROVE IsMap(concierge'[q], Servers, Conns)
            <3>1. CASE q = p
                BY <3>1, <2>4, <2>5 DEF AcceptTypes
            <3>2. CASE q # p
                <4>1. concierge'[q] = concierge[q]
                    BY <3>2, <2>5 DEF AcceptTypes
                <4> QED
                    BY <4>1 DEF AcceptTypes
            <3> QED
                BY <3>1, <3>2
        <2> QED
            BY <2>6, <2>7, <2>8 DEF AcceptTypes
    <1>3. ASSUME NEW p \in Phases, AcceptStranger(p) PROVE AcceptTypes'
        BY <1>3 DEF AcceptTypes, AcceptStranger
    <1>4. CASE StartPhases
        BY <1>4 DEF AcceptTypes, StartPhases, acceptVars
    <1>5. CASE FirstBroadcasts \/ ProposerExits
        <2>1. CASE UNCHANGED <<listener, backlog, concierge, connected>>
            BY <2>1 DEF AcceptTypes
        <2>2. CASE /\ listener' = [p \in Phases |-> "closed"]
                   /\ backlog' = [p \in Phases |-> <<>>]
                   /\ UNCHANGED <<concierge, connected>>
            <3>1. <<>> \in Seq(Conns)
                OBVIOUS
            <3> QED
                BY <3>1, <2>2 DEF AcceptTypes
        <2> QED
            BY <1>5, <2>1, <2>2 DEF FirstBroadcasts, ProposerExits
    <1>7. ASSUME NEW p \in Phases, StrangerConnects(p) PROVE AcceptTypes'
        <2>1. [by |-> NotAServer, inc |-> 0] \in Conns
            BY StartupAssumption DEF Conns
        <2> QED
            BY <1>7, <2>1 DEF AcceptTypes, StrangerConnects
    <1>8. ASSUME NEW v \in Validators, Dial(v) PROVE AcceptTypes'
        <2>1. phase[v] \in Phases
            BY <1>8, StartupAssumption DEF Dial, ValidatorTypes, Phases
        <2>2. Conn(v) \in Conns
            BY ConnTypes
        <2> QED
            BY <1>8, <2>1, <2>2 DEF AcceptTypes, Dial
    <1>9. ASSUME NEW v \in Validators,
                 DialFails(v) \/ StartReceiving(v) \/ QuitOnEOF(v) \/ Kill(v) \/ Restart(v)
          PROVE  AcceptTypes'
        BY <1>9 DEF AcceptTypes, DialFails, StartReceiving, QuitOnEOF, Kill, Restart,
                    proposerVars, acceptVars
    <1>10. CASE UNCHANGED vars
        BY <1>10 DEF AcceptTypes, vars, proposerVars, acceptVars
    <1> QED
        BY <1>1, <1>2, <1>3, <1>4, <1>5, <1>7, <1>8, <1>9, <1>10
           DEF Next, AcceptConns, RunAsValidator, RunAsProposer

LEMMA ProposerTypesKept ==
    Types /\ [Next]_vars => ProposerTypes'
    <1> SUFFICES ASSUME Types, [Next]_vars PROVE ProposerTypes'
        OBVIOUS
    <1> USE DEF Types
    <1>1. CASE StartPhases
        <2>1. flags' \in Flags /\ booMgr' = PrepareBooths(NumOfConn, flags'.boo) /\ ppc' = "prepared"
            BY <1>1 DEF StartPhases
        <2>2. \A k \in DOMAIN booMgr' : booMgr'[k].id \in Nat /\ booMgr'[k].members \subseteq Nat
            BY <2>1, BoothTypes
        <2> QED
            BY <2>1, <2>2 DEF ProposerTypes
    <1>2. CASE FirstBroadcasts \/ ProposerExits
        BY <1>2 DEF ProposerTypes, FirstBroadcasts, ProposerExits
    <1>3. CASE UNCHANGED <<ppc, flags, booMgr>>
        BY <1>3 DEF ProposerTypes
    <1> QED
        BY <1>1, <1>2, <1>3 DEF Next, AcceptConns, RunAsValidator, RunAsProposer, vars,
           Listen, ListenFails, AcceptRegistered, AcceptStranger, StrangerConnects, Dial, DialFails,
           StartReceiving, QuitOnEOF, Kill, Restart, proposerVars

LEMMA ValidatorTypesKept ==
    Types /\ [Next]_vars => ValidatorTypes' /\ DialInv'
    <1> SUFFICES ASSUME Types, [Next]_vars PROVE ValidatorTypes' /\ DialInv'
        OBVIOUS
    <1> USE DEF Types
    <1>0. NOP \in Nat /\ MaxTry \in Nat \ {0} /\ MaxStrangers \in Nat /\ MaxRestarts \in Nat
          /\ Phases = 1..NOP
        BY StartupAssumption DEF Phases
    <1>1. ASSUME NEW p \in Phases, ListenFails(p) \/ StrangerConnects(p)
          PROVE  ValidatorTypes' /\ DialInv'
        BY <1>0, <1>1 DEF ValidatorTypes, DialInv, ListenFails, StrangerConnects, validatorVars, dialVars
    <1>2. ASSUME NEW p \in Phases, AcceptStranger(p) PROVE ValidatorTypes' /\ DialInv'
        <2>1. lost' \in [Validators -> SUBSET Phases]
            BY <1>2 DEF AcceptStranger, ValidatorTypes
        <2> QED
            BY <1>2, <2>1 DEF ValidatorTypes, DialInv, AcceptStranger, dialVars
    <1>3. ASSUME NEW v \in Validators, Dial(v) PROVE ValidatorTypes' /\ DialInv'
        <2>1. phase[v] \in Phases /\ phase[v] + 1 \in 1..(NOP + 1)
            BY <1>0, <1>3 DEF Dial, ValidatorTypes
        <2>2. /\ dialog' = [dialog EXCEPT ![v] = @ \cup {phase[v]}]
              /\ phase' = [phase EXCEPT ![v] = phase[v] + 1]
              /\ tries' = [tries EXCEPT ![v] = 0]
              /\ UNCHANGED <<vpc, lost, inc, strangers, restarts>>
            BY <1>3 DEF Dial
        <2>3. ValidatorTypes'
            BY <1>0, <2>1, <2>2 DEF ValidatorTypes
        <2>4. DialInv'
            <3> SUFFICES ASSUME NEW w \in Validators
                         PROVE  dialog'[w] \subseteq 1..(phase'[w] - 1) /\ inc[w] <= restarts
                BY <2>2 DEF DialInv
            <3>1. CASE w = v
                BY <3>1, <1>0, <2>1, <2>2 DEF ValidatorTypes, DialInv
            <3>2. CASE w # v
                BY <3>2, <2>2 DEF ValidatorTypes, DialInv
            <3> QED
                BY <3>1, <3>2
        <2> QED
            BY <2>3, <2>4
    <1>4. ASSUME NEW v \in Validators, DialFails(v) PROVE ValidatorTypes' /\ DialInv'
        <2>1. /\ phase[v] \in 1..NOP /\ phase[v] + 1 \in 1..(NOP + 1)
              /\ tries[v] + 1 < MaxTry => tries[v] + 1 \in 0..(MaxTry - 1)
            BY <1>0, <1>4 DEF DialFails, ValidatorTypes
        <2>2. UNCHANGED <<vpc, dialog, lost, inc, strangers, restarts>>
            BY <1>4 DEF DialFails
        <2>5. PICK q \in 1..(NOP + 1) : phase[v] <= q /\ phase' = [phase EXCEPT ![v] = q]
            <3>1. phase \in [Validators -> 1..(NOP + 1)]
                BY DEF ValidatorTypes
            <3>2. CASE phase' = phase
                BY <3>1, <3>2, <2>1
            <3>3. CASE phase' = [phase EXCEPT ![v] = phase[v] + 1]
                <4>1. phase[v] + 1 \in 1..(NOP + 1) /\ phase[v] <= phase[v] + 1
                    BY <2>1
                <4> QED
                    BY <3>3, <4>1, Zenon
            <3> QED
                BY <3>2, <3>3, <1>4 DEF DialFails
        <2>6. PICK k \in 0..(MaxTry - 1) : tries' = [tries EXCEPT ![v] = k]
            BY <1>0, <1>4, <2>1 DEF DialFails
        <2>3. ValidatorTypes'
            BY <2>2, <2>5, <2>6 DEF ValidatorTypes
        <2>4. DialInv'
            <3> SUFFICES ASSUME NEW w \in Validators
                         PROVE  dialog[w] \subseteq 1..(phase'[w] - 1) /\ inc[w] <= restarts
                BY <2>2 DEF DialInv
            <3>1. phase'[w] \in Nat /\ phase[w] \in Nat /\ phase[w] <= phase'[w]
                BY <1>0, <2>5 DEF ValidatorTypes
            <3> QED
                BY <3>1 DEF ValidatorTypes, DialInv
        <2> QED
            BY <2>3, <2>4
    <1>5. ASSUME NEW v \in Validators, StartReceiving(v) \/ QuitOnEOF(v) \/ Kill(v)
          PROVE  ValidatorTypes' /\ DialInv'
        BY <1>5 DEF ValidatorTypes, DialInv, StartReceiving, QuitOnEOF, Kill, dialVars
    <1>6. ASSUME NEW v \in Validators, Restart(v) PROVE ValidatorTypes' /\ DialInv'
        <2>1. /\ inc[v] \in Nat /\ restarts \in Nat /\ restarts + 1 \in 0..MaxRestarts
              /\ inc[v] + 1 \in 0..MaxRestarts /\ inc[v] + 1 <= restarts + 1 /\ OPA \in 1..(NOP + 1)
            BY <1>0, <1>6 DEF Restart, ValidatorTypes, DialInv, OPA
        <2>2. /\ vpc' = [vpc EXCEPT ![v] = "dial"]
              /\ phase' = [phase EXCEPT ![v] = OPA]
              /\ tries' = [tries EXCEPT ![v] = 0]
              /\ dialog' = [dialog EXCEPT ![v] = {}]
              /\ lost' = [lost EXCEPT ![v] = {}]
              /\ inc' = [inc EXCEPT ![v] = inc[v] + 1]
              /\ restarts' = restarts + 1
              /\ strangers' = strangers
            BY <1>6 DEF Restart
        <2>3. ValidatorTypes'
            BY <1>0, <2>1, <2>2 DEF ValidatorTypes
        <2>4. DialInv'
            BY <2>1, <2>2 DEF ValidatorTypes, DialInv
        <2> QED
            BY <2>3, <2>4
    <1>7. CASE UNCHANGED <<validatorVars, strangers, restarts>>
        BY <1>7 DEF ValidatorTypes, DialInv, validatorVars, dialVars
    <1> QED
        BY <1>1, <1>2, <1>3, <1>4, <1>5, <1>6, <1>7
           DEF Next, AcceptConns, RunAsValidator, RunAsProposer, vars, Listen, AcceptRegistered,
               StartPhases, FirstBroadcasts, ProposerExits
-------------------------------------------------------------------------------
(***************************************************************************)
(* What the proposer waits for, and its booths.                            *)
(***************************************************************************)

LEMMA PhasesFinite ==
    /\ IsFiniteSet(Incomplete) /\ Cardinality(Incomplete) \in 0..NOP
    /\ Incomplete = {} <=> Cardinality(Incomplete) = 0
    <1>1. IsFiniteSet(Phases) /\ Cardinality(Phases) = NOP
        <2>1. NOP \in Int /\ ~(1 > NOP) /\ (NOP - 1) + 1 = NOP
            BY StartupAssumption
        <2> QED
            BY <2>1, FS_Interval DEF Phases
    <1>2. Incomplete \in SUBSET Phases
        BY DEF Incomplete
    <1>3. IsFiniteSet(Incomplete) /\ Cardinality(Incomplete) <= NOP
        BY <1>1, <1>2, FS_Subset
    <1> QED
        BY <1>3, FS_CardinalityType, FS_EmptySet, StartupAssumption

\* Counting a connection completes the phase exactly when wg is told.
LEMMA WaitCounts ==
    ASSUME Types, WaitInv, NEW p \in Phases, AcceptRegistered(p)
    PROVE  WaitInv'
    <1>1. /\ connected \in [Phases -> Nat]
          /\ connected' = [connected EXCEPT ![p] = connected[p] + 1]
          /\ wg' = IF connected'[p] = NumOfConn - 1 THEN wg - 1 ELSE wg
          /\ ppc' = ppc
        BY DEF Types, AcceptTypes, AcceptRegistered, AllConnected
    <1>2. NumOfConn - 1 \in Nat
        BY StartupAssumption
    <1>3. CASE connected'[p] = NumOfConn - 1
        <2>1. p \in Incomplete /\ Incomplete' = Incomplete \ {p}
            BY <1>1, <1>2, <1>3 DEF Incomplete
        <2>2. Cardinality(Incomplete') = Cardinality(Incomplete) - 1
            BY <2>1, PhasesFinite, FS_RemoveElement
        <2>3. wg # 0
            BY <2>1, PhasesFinite DEF WaitInv
        <2> QED
            BY <1>1, <1>3, <2>2, <2>3 DEF WaitInv
    <1>4. CASE connected'[p] # NumOfConn - 1
        <2>1. Incomplete' = Incomplete
            BY <1>1, <1>2, <1>4 DEF Incomplete
        <2> QED
            BY <1>1, <1>4, <2>1 DEF WaitInv
    <1> QED
        BY <1>3, <1>4

LEMMA WaitStep ==
    Types /\ WaitInv /\ [Next]_vars => WaitInv'
    <1> SUFFICES ASSUME Types, WaitInv, [Next]_vars PROVE WaitInv'
        OBVIOUS
    <1>1. ASSUME NEW p \in Phases, AcceptRegistered(p) PROVE WaitInv'
        BY <1>1, WaitCounts
    <1>2. CASE StartPhases
        BY <1>2 DEF WaitInv, Incomplete, StartPhases, acceptVars
    <1>3. CASE (FirstBroadcasts \/ ProposerExits) /\ UNCHANGED <<connected, wg>>
        BY <1>3 DEF WaitInv, Incomplete, FirstBroadcasts, ProposerExits
    <1>4. CASE UNCHANGED <<connected, wg, ppc>>
        BY <1>4 DEF WaitInv, Incomplete
    <1> QED
        BY <1>1, <1>2, <1>3, <1>4 DEF Next, AcceptConns, RunAsValidator, RunAsProposer, vars,
           Listen, ListenFails, AcceptStranger, StrangerConnects, Dial, DialFails, StartReceiving,
           QuitOnEOF, Kill, Restart, FirstBroadcasts, ProposerExits, proposerVars, acceptVars

LEMMA BoothStep ==
    BoothInv /\ [Next]_vars => BoothInv'
    <1> SUFFICES ASSUME BoothInv, [Next]_vars PROVE BoothInv'
        OBVIOUS
    <1>1. CASE StartPhases
        BY <1>1 DEF BoothInv, StartPhases
    <1>2. CASE FirstBroadcasts \/ ProposerExits
        BY <1>2 DEF BoothInv, FirstBroadcasts, ProposerExits, Usable, InRange, BoothAt
    <1>3. CASE UNCHANGED <<ppc, flags, booMgr>>
        BY <1>3 DEF BoothInv, Usable, InRange, BoothAt
    <1> QED
        BY <1>1, <1>2, <1>3 DEF Next, AcceptConns, RunAsValidator, RunAsProposer, vars,
           Listen, ListenFails, AcceptRegistered, AcceptStranger, StrangerConnects, Dial, DialFails,
           StartReceiving, QuitOnEOF, Kill, Restart, proposerVars
-------------------------------------------------------------------------------
(***************************************************************************)
(* Queues.                                                                 *)
(***************************************************************************)

LEMMA QueueTail ==
    ASSUME NEW s \in Seq(Conns), s # <<>>
    PROVE  /\ 1 \in DOMAIN s /\ Head(s) = s[1]
           /\ \A k \in DOMAIN Tail(s) : k + 1 \in DOMAIN s /\ Tail(s)[k] = s[k + 1]
           /\ \A k \in DOMAIN s : k = 1 \/ (k - 1 \in DOMAIN Tail(s) /\ Tail(s)[k - 1] = s[k])
    OBVIOUS

LEMMA QueueAppend ==
    ASSUME NEW s \in Seq(Conns), NEW c \in Conns
    PROVE  /\ DOMAIN Append(s, c) = DOMAIN s \cup {Len(s) + 1}
           /\ \A k \in DOMAIN s : k < Len(s) + 1 /\ Append(s, c)[k] = s[k]
           /\ Append(s, c)[Len(s) + 1] = c
    OBVIOUS

\* The connections of a validator that is not in dialog have been made before.
LEMMA MadeGrows ==
    ASSUME Types, [Next]_vars, NEW p \in Phases
    PROVE  Made(p) \subseteq Made(p)'
    <1>1. /\ inc \in [Validators -> 0..MaxRestarts] /\ MaxRestarts \in Nat
          /\ dialog \in [Validators -> SUBSET Phases]
        BY StartupAssumption DEF Types, ValidatorTypes
    <1>2. ASSUME NEW v \in Validators, Dial(v) PROVE Made(p) \subseteq Made(p)'
        <2>1. inc' = inc /\ \A w \in Validators : dialog[w] \subseteq dialog'[w]
            BY <1>1, <1>2 DEF Dial
        <2> QED
            BY <2>1 DEF Made
    <1>3. ASSUME NEW v \in Validators, Restart(v) PROVE Made(p) \subseteq Made(p)'
        <2>1. \A w \in Validators : /\ inc[w] \in Nat
                                    /\ w # v => inc'[w] = inc[w] /\ dialog'[w] = dialog[w]
                                    /\ w = v => inc'[w] = inc[w] + 1
            BY <1>1, <1>3 DEF Restart
        <2>2. \A c \in Conns : c.inc \in Nat
            BY <1>1 DEF Conns
        <2> QED
            BY <2>1, <2>2 DEF Made
    <1>4. CASE UNCHANGED <<inc, dialog>>
        BY <1>4 DEF Made
    <1> QED
        BY <1>2, <1>3, <1>4 DEF Next, AcceptConns, RunAsValidator, RunAsProposer, vars,
           Listen, ListenFails, AcceptRegistered, AcceptStranger, StrangerConnects, StartPhases,
           FirstBroadcasts, ProposerExits, DialFails, StartReceiving, QuitOnEOF, Kill,
           validatorVars, dialVars

\* A validator dials a phase once in each of its lives.
LEMMA DialsOnce ==
    ASSUME Types, NEW v \in Validators, Dial(v), NEW p, p = phase[v]
    PROVE  /\ p \in Phases /\ p \notin dialog[v]
           /\ Conn(v) \in Conns /\ Conn(v) \notin Made(p)
           /\ Conn(v) \in Made(p)'
    <1>1. p \in Phases /\ p \notin dialog[v]
        BY StartupAssumption DEF Dial, Types, ValidatorTypes, DialInv, Phases
    <1>2. Conn(v) \in Conns /\ Conn(v).by = v /\ Conn(v).inc = inc[v] /\ inc[v] \in Nat
        BY ConnTypes, StartupAssumption DEF Types, ValidatorTypes
    <1>3. inc' = inc /\ p \in dialog'[v]
        BY <1>1 DEF Dial, Types, ValidatorTypes
    <1> QED
        BY <1>1, <1>2, <1>3 DEF Made

LEMMA QueueTailOrdered ==
    ASSUME NEW s \in Seq(Conns), s # <<>>, NEW M, QueueOrdered(s, M)
    PROVE  /\ QueueOrdered(Tail(s), M)
           /\ Head(s).by \in Validators =>
                  /\ Head(s) \in M
                  /\ \A k \in DOMAIN Tail(s) :
                         Tail(s)[k].by = Head(s).by => Head(s).inc < Tail(s)[k].inc
    <1> DEFINE t == Tail(s)
    <1>1. /\ 1 \in DOMAIN s /\ Head(s) = s[1] /\ DOMAIN s \subseteq Nat /\ DOMAIN t \subseteq Nat \ {0}
          /\ \A k \in DOMAIN t : k + 1 \in DOMAIN s /\ t[k] = s[k + 1]
        BY QueueTail
    <1> HIDE DEF t
    <1>2. \A k \in DOMAIN t : 1 < k + 1
        BY <1>1
    <1>3. \A j, k \in DOMAIN t : j < k => j + 1 < k + 1
        BY <1>1
    <1>4. \A k \in DOMAIN t : t[k].by \in Validators => t[k] \in M
        BY <1>1 DEF QueueOrdered
    <1>5. ASSUME NEW j \in DOMAIN t, NEW k \in DOMAIN t, j < k, t[j].by = t[k].by,
                 t[j].by \in Validators
          PROVE  t[j].inc < t[k].inc
        <2>1. /\ j + 1 \in DOMAIN s /\ k + 1 \in DOMAIN s /\ j + 1 < k + 1
              /\ t[j] = s[j + 1] /\ t[k] = s[k + 1]
            BY <1>1, <1>3, <1>5
        <2> QED
            BY <2>1, <1>5 DEF QueueOrdered
    <1>6. ASSUME Head(s).by \in Validators
          PROVE  /\ Head(s) \in M
                 /\ \A k \in DOMAIN t : t[k].by = Head(s).by => Head(s).inc < t[k].inc
        BY <1>1, <1>2, <1>6 DEF QueueOrdered
    <1> QED
        BY <1>4, <1>5, <1>6 DEF QueueOrdered, t

LEMMA QueueAppendOrdered ==
    ASSUME NEW s \in Seq(Conns), NEW c \in Conns, NEW M, QueueOrdered(s, M),
           c.by \in Validators =>
               c \in M /\ \A k \in DOMAIN s : s[k].by = c.by => s[k].inc < c.inc
    PROVE  QueueOrdered(Append(s, c), M)
    <1> DEFINE t == Append(s, c)
               n == Len(s) + 1
    <1>1. /\ n \in Nat /\ DOMAIN s \subseteq Nat
          /\ DOMAIN t = DOMAIN s \cup {n} /\ t[n] = c
          /\ \A k \in DOMAIN s : k < n /\ t[k] = s[k]
        BY QueueAppend
    <1> HIDE DEF t, n
    <1>2. \A k \in DOMAIN t : t[k].by \in Validators => t[k] \in M
        BY <1>1 DEF QueueOrdered
    <1>3. ASSUME NEW j \in DOMAIN t, NEW k \in DOMAIN t, j < k, t[j].by = t[k].by,
                 t[j].by \in Validators
          PROVE  t[j].inc < t[k].inc
        <2>1. j \in DOMAIN s
            BY <1>1, <1>3
        <2>2. CASE k = n
            BY <1>1, <1>3, <2>1, <2>2
        <2>3. CASE k \in DOMAIN s
            BY <1>1, <1>3, <2>1, <2>3 DEF QueueOrdered
        <2> QED
            BY <1>1, <2>2, <2>3
    <1> QED
        BY <1>2, <1>3 DEF QueueOrdered, t

LEMMA QueueStep ==
    ASSUME Types, QueueInv, [Next]_vars
    PROVE  QueueInv'
    <1>1. ASSUME NEW p \in Phases, NEW s, QueueOrdered(s, Made(p)), backlog'[p] = s
          PROVE  QueueOrdered(backlog'[p], Made(p)')
        BY <1>1, MadeGrows DEF QueueOrdered
    <1>2. ASSUME NEW p \in Phases, backlog'[p] = <<>>
          PROVE  QueueOrdered(backlog'[p], Made(p)')
        BY <1>2 DEF QueueOrdered
    <1>3. SUFFICES ASSUME NEW q \in Phases, backlog'[q] # backlog[q], backlog'[q] # <<>>
                   PROVE  QueueOrdered(backlog'[q], Made(q)')
        BY <1>1, <1>2 DEF QueueInv
    <1>4. backlog \in [Phases -> Seq(Conns)] /\ backlog[q] \in Seq(Conns)
        BY DEF Types, AcceptTypes
    <1>5. QueueOrdered(backlog[q], Made(q))
        BY DEF QueueInv
    <1>6. ASSUME NEW p \in Phases, AcceptRegistered(p)
          PROVE  QueueOrdered(backlog'[q], Made(q)')
        <2>1. q = p /\ backlog'[q] = Tail(backlog[q]) /\ backlog[q] # <<>>
            BY <1>3, <1>4, <1>6 DEF AcceptRegistered
        <2>2. QueueOrdered(Tail(backlog[q]), Made(q))
            BY <1>4, <1>5, <2>1, QueueTailOrdered
        <2> QED
            BY <1>1, <2>1, <2>2
    <1>7. ASSUME NEW p \in Phases, StrangerConnects(p)
          PROVE  QueueOrdered(backlog'[q], Made(q)')
        <2>1. PICK c : c = [by |-> NotAServer, inc |-> 0]
            OBVIOUS
        <2>2. backlog'[q] = Append(backlog[q], c)
            BY <1>3, <1>4, <1>7, <2>1 DEF StrangerConnects
        <2>3. c \in Conns /\ c.by \notin Validators
            BY <2>1, StartupAssumption DEF Conns, Validators
        <2>4. QueueOrdered(Append(backlog[q], c), Made(q))
            BY <1>4, <1>5, <2>3, QueueAppendOrdered
        <2> QED
            BY <1>1, <2>2, <2>4
    <1>8. ASSUME NEW v \in Validators, Dial(v)
          PROVE  QueueOrdered(backlog'[q], Made(q)')
        <2>1. PICK c : c = Conn(v)
            OBVIOUS
        <2>2. backlog'[q] = Append(backlog[q], c) /\ q = phase[v]
            BY <1>3, <1>4, <1>8, <2>1 DEF Dial
        <2>3. /\ q \notin dialog[v] /\ c \in Conns /\ c \in Made(q)'
              /\ c.by = v /\ c.inc = inc[v]
            BY <1>8, <2>1, <2>2, DialsOnce DEF Conn, Made
        <2>4. ASSUME NEW k \in DOMAIN backlog[q], backlog[q][k].by = c.by
              PROVE  backlog[q][k].inc < c.inc
            <3>1. backlog[q][k] \in Made(q)
                BY <1>5, <2>3, <2>4 DEF QueueOrdered
            <3>2. backlog[q][k].inc \in Int /\ inc[v] \in Int
                BY <3>1, StartupAssumption DEF Made, Conns, Types, ValidatorTypes
            <3> QED
                BY <2>3, <2>4, <3>1, <3>2 DEF Made
        <2>5. QueueOrdered(backlog[q], Made(q)')
            BY <1>5, MadeGrows DEF QueueOrdered
        <2>6. PICK M : M = Made(q)'
            OBVIOUS
        <2>7. QueueOrdered(Append(backlog[q], c), M)
            BY <1>4, <2>3, <2>4, <2>5, <2>6, QueueAppendOrdered
        <2> QED
            BY <2>2, <2>6, <2>7
    <1>9. CASE StartPhases \/ FirstBroadcasts \/ ProposerExits
        BY <1>3, <1>9 DEF StartPhases, FirstBroadcasts, ProposerExits, acceptVars
    <1>10. ASSUME NEW p \in Phases, AcceptStranger(p)
           PROVE  QueueOrdered(backlog'[q], Made(q)')
        BY <1>3, <1>4, <1>10 DEF AcceptStranger
    <1>11. ASSUME NEW p \in Phases, Listen(p) \/ ListenFails(p)
           PROVE  QueueOrdered(backlog'[q], Made(q)')
        BY <1>3, <1>11 DEF Listen, ListenFails
    <1>12. ASSUME NEW v \in Validators,
                  DialFails(v) \/ StartReceiving(v) \/ QuitOnEOF(v) \/ Kill(v) \/ Restart(v)
           PROVE  QueueOrdered(backlog'[q], Made(q)')
        BY <1>3, <1>12 DEF DialFails, StartReceiving, QuitOnEOF, Kill, Restart, proposerVars, acceptVars
    <1>13. CASE UNCHANGED vars
        BY <1>3, <1>13 DEF vars, proposerVars, acceptVars
    <1> QED
        BY <1>6, <1>7, <1>8, <1>9, <1>10, <1>11, <1>12, <1>13
           DEF Next, AcceptConns, RunAsValidator, RunAsProposer
-------------------------------------------------------------------------------
(***************************************************************************)
(* The connection that is used.                                            *)
(***************************************************************************)

LEMMA AcceptKeepsHeld ==
    ASSUME DistinctAddresses, Types, QueueInv, NEW v \in Validators, NEW p \in Phases,
           AcceptRegistered(p), p \in dialog[v], Held(v, p)
    PROVE  Held(v, p)'
    <1> DEFINE s == backlog[p]
               c == Head(s)
    <1>1. /\ s \in Seq(Conns) /\ s # <<>>
          /\ c.by \in Validators
          /\ backlog'[p] = Tail(s)
          /\ concierge'[p] = Put(concierge[p], LookUp(AddressOf(c.by, p)), c)
          /\ inc' = inc
        BY DEF Types, AcceptTypes, AcceptRegistered, Known, Register, validatorVars
    <1>2. concierge'[p] = Put(concierge[p], c.by, c)
        BY <1>1, LookUpIsSelf
    <1>3. Conn(v)' = Conn(v) /\ Conn(v).by = v /\ Conn(v).inc = inc[v] /\ inc[v] \in Int
        BY <1>1, ConnTypes, StartupAssumption DEF Conn, Types, ValidatorTypes
    <1>4. /\ c \in Made(p)
          /\ \A k \in DOMAIN Tail(s) : Tail(s)[k].by = c.by => c.inc < Tail(s)[k].inc
          /\ \A k \in DOMAIN Tail(s) : Tail(s)[k].by \in Validators => Tail(s)[k] \in Made(p)
        BY <1>1, QueueTailOrdered DEF QueueInv, QueueOrdered
    <1>5. /\ 1 \in DOMAIN s /\ c = s[1]
          /\ \A k \in DOMAIN Tail(s) : k + 1 \in DOMAIN s /\ Tail(s)[k] = s[k + 1]
          /\ \A k \in DOMAIN s : k = 1 \/ (k - 1 \in DOMAIN Tail(s) /\ Tail(s)[k - 1] = s[k])
        BY <1>1, QueueTail
    <1>6. \A k \in DOMAIN backlog'[p] : backlog'[p][k] = Conn(v) => Held(v, p)'
        BY <1>3 DEF Held, Queued
    <1> HIDE DEF s, c
    <1>7. CASE c = Conn(v)
        <2>1. \A k \in DOMAIN Tail(s) : Tail(s)[k].by # v
            <3> SUFFICES ASSUME NEW k \in DOMAIN Tail(s), Tail(s)[k].by = v
                         PROVE  FALSE
                OBVIOUS
            <3>1. inc[v] < Tail(s)[k].inc
                BY <1>3, <1>4, <1>7
            <3>2. Tail(s)[k].inc <= inc[v] /\ Tail(s)[k].inc \in Int
                BY <1>4, StartupAssumption DEF Made, Conns
            <3> QED
                BY <1>3, <3>1, <3>2
        <2>2. v \in DOMAIN concierge'[p] /\ concierge'[p][v] = Conn(v)
            BY <1>2, <1>3, <1>7 DEF Put
        <2> QED
            BY <1>1, <1>3, <2>1, <2>2 DEF Held
    <1>8. CASE c # Conn(v) /\ Conn(v) \in Queued(p)
        <2>1. PICK k \in DOMAIN s : s[k] = Conn(v)
            BY <1>8 DEF Queued, s
        <2>2. k - 1 \in DOMAIN Tail(s) /\ Tail(s)[k - 1] = Conn(v)
            BY <1>5, <1>8, <2>1
        <2> QED
            BY <1>1, <1>6, <2>2
    <1>9. CASE Conn(v) \notin Queued(p)
        <2>1. /\ v \in DOMAIN concierge[p] /\ concierge[p][v] = Conn(v)
              /\ \A k \in DOMAIN s : s[k].by # v
            BY <1>9 DEF Held, s
        <2>2. c.by # v /\ \A k \in DOMAIN Tail(s) : Tail(s)[k].by # v
            BY <1>5, <2>1
        <2>3. v \in DOMAIN concierge'[p] /\ concierge'[p][v] = Conn(v)
            BY <1>2, <2>1, <2>2 DEF Put
        <2> QED
            BY <1>1, <1>3, <2>2, <2>3 DEF Held
    <1> QED
        BY <1>7, <1>8, <1>9

\* Another connection at the end of the queue changes nothing.
LEMMA AppendKeepsHeld ==
    ASSUME Types, NEW v \in Validators, NEW p \in Phases, Held(v, p),
           NEW c \in Conns, c.by # v, backlog'[p] = Append(backlog[p], c),
           concierge' = concierge, inc' = inc
    PROVE  Held(v, p)'
    <1>1. backlog[p] \in Seq(Conns)
        BY DEF Types, AcceptTypes
    <1>2. /\ DOMAIN backlog'[p] = DOMAIN backlog[p] \cup {Len(backlog[p]) + 1}
          /\ \A k \in DOMAIN backlog[p] : backlog'[p][k] = backlog[p][k]
          /\ backlog'[p][Len(backlog[p]) + 1] = c
        BY <1>1, QueueAppend
    <1>3. Conn(v)' = Conn(v)
        BY DEF Conn
    <1>4. Conn(v) \in Queued(p) => Conn(v) \in Queued(p)'
        BY <1>2 DEF Queued
    <1>5. (\A k \in DOMAIN backlog[p] : backlog[p][k].by # v) =>
              \A k \in DOMAIN backlog'[p] : backlog'[p][k].by # v
        BY <1>2
    <1> QED
        BY <1>3, <1>4, <1>5 DEF Held

LEMMA CurrentStep ==
    ASSUME DistinctAddresses, Types, QueueInv, CurrentInv, [Next]_vars
    PROVE  CurrentInv'
    <1> SUFFICES ASSUME ProposerUp', NEW v \in Validators, NEW p \in dialog'[v] \ lost'[v]
                 PROVE  Held(v, p)'
        BY DEF CurrentInv
    <1>0. /\ dialog \in [Validators -> SUBSET Phases] /\ lost \in [Validators -> SUBSET Phases]
          /\ inc \in [Validators -> 0..MaxRestarts]
          /\ backlog \in [Phases -> Seq(Conns)] /\ concierge = [q \in Phases |-> concierge[q]]
          /\ dialog' \in [Validators -> SUBSET Phases] /\ p \in Phases
        BY ValidatorTypesKept DEF Types, ValidatorTypes, AcceptTypes
    <1>1. ProposerUp /\ p \in dialog[v] \ lost[v] => Held(v, p)
        BY DEF CurrentInv
    <1>2. ASSUME NEW q \in Phases, AcceptRegistered(q) PROVE Held(v, p)'
        <2>1. ProposerUp /\ p \in dialog[v] \ lost[v]
            BY <1>2 DEF AcceptRegistered, ProposerUp, validatorVars, dialVars
        <2>2. CASE q = p
            BY <1>0, <1>1, <1>2, <2>1, <2>2, AcceptKeepsHeld
        <2>3. CASE q # p
            <3>1. backlog'[p] = backlog[p] /\ concierge'[p] = concierge[p] /\ inc' = inc
                BY <1>0, <1>2, <2>3 DEF AcceptRegistered, validatorVars
            <3> QED
                BY <1>1, <2>1, <3>1 DEF Held, Queued, Conn
        <2> QED
            BY <2>2, <2>3
    <1>3. ASSUME NEW q \in Phases, AcceptStranger(q) PROVE Held(v, p)'
        <2>1. ProposerUp /\ p \in dialog[v] /\ concierge' = concierge /\ inc' = inc
            BY <1>3 DEF AcceptStranger, ProposerUp, dialVars
        <2>2. p \notin lost[v]
            BY <1>3 DEF AcceptStranger
        <2>3. CASE q = p
            <3>1. backlog'[p] = <<>> /\ Conn(v) \notin Queued(p)
                BY <1>0, <1>3, <2>3 DEF AcceptStranger, Queued
            <3> QED
                BY <1>1, <2>1, <2>2, <3>1 DEF Held, Conn
        <2>4. CASE q # p
            <3>1. backlog'[p] = backlog[p]
                BY <1>0, <1>3, <2>4 DEF AcceptStranger
            <3> QED
                BY <1>1, <2>1, <2>2, <3>1 DEF Held, Queued, Conn
        <2> QED
            BY <2>3, <2>4
    <1>4. ASSUME NEW q \in Phases, StrangerConnects(q) PROVE Held(v, p)'
        <2>1. /\ ProposerUp /\ p \in dialog[v] \ lost[v]
              /\ concierge' = concierge /\ inc' = inc
            BY <1>4 DEF StrangerConnects, ProposerUp, validatorVars, dialVars
        <2>2. CASE q = p
            <3>1. PICK c : c = [by |-> NotAServer, inc |-> 0]
                OBVIOUS
            <3>2. c \in Conns /\ c.by # v
                BY <3>1, StartupAssumption DEF Conns, Validators
            <3>3. backlog'[p] = Append(backlog[p], c)
                BY <1>0, <1>4, <2>2, <3>1 DEF StrangerConnects
            <3> QED
                BY <1>0, <1>1, <2>1, <3>2, <3>3, AppendKeepsHeld
        <2>3. CASE q # p
            <3>1. backlog'[p] = backlog[p]
                BY <1>0, <1>4, <2>3 DEF StrangerConnects
            <3> QED
                BY <1>1, <2>1, <3>1 DEF Held, Queued, Conn
        <2> QED
            BY <2>2, <2>3
    <1>5. ASSUME NEW w \in Validators, Dial(w) PROVE Held(v, p)'
        <2>1. /\ ProposerUp /\ lost' = lost
              /\ concierge' = concierge /\ inc' = inc
            BY <1>5 DEF Dial, ProposerUp
        <2>2. PICK c : c = Conn(w)
            OBVIOUS
        <2>3. c \in Conns /\ c.by = w
            BY <2>2, ConnTypes DEF Types
        <2>4. CASE p = phase[w]
            <3>1. backlog'[p] = Append(backlog[p], c) /\ backlog[p] \in Seq(Conns)
                BY <1>0, <1>5, <2>2, <2>4 DEF Dial
            <3>2. CASE w = v
                <4>1. /\ Len(backlog[p]) + 1 \in DOMAIN backlog'[p]
                      /\ backlog'[p][Len(backlog[p]) + 1] = c
                    BY <2>3, <3>1, QueueAppend
                <4>2. c \in Queued(p)' /\ c = Conn(v)'
                    BY <2>1, <2>2, <3>2, <4>1 DEF Queued, Conn
                <4> QED
                    BY <4>2 DEF Held
            <3>3. CASE w # v
                <4>1. p \in dialog[v] \ lost[v]
                    BY <1>0, <1>5, <2>1, <3>3 DEF Dial
                <4> QED
                    BY <1>0, <1>1, <2>1, <2>3, <3>1, <3>3, <4>1, AppendKeepsHeld
            <3> QED
                BY <3>2, <3>3
        <2>5. CASE p # phase[w]
            <3>1. p \in dialog[v] \ lost[v]
                BY <1>0, <1>5, <2>1, <2>5 DEF Dial
            <3>2. backlog'[p] = backlog[p]
                BY <1>0, <1>5, <2>5 DEF Dial
            <3> QED
                BY <1>1, <2>1, <3>1, <3>2 DEF Held, Queued, Conn
        <2> QED
            BY <2>4, <2>5
    <1>6. ASSUME NEW w \in Validators, Restart(w) PROVE Held(v, p)'
        <2>1. UNCHANGED <<backlog, concierge>> /\ ProposerUp
            BY <1>6 DEF Restart, proposerVars, acceptVars, ProposerUp
        <2>2. w # v
            BY <1>0, <1>6 DEF Restart
        <2>3. p \in dialog[v] \ lost[v] /\ inc'[v] = inc[v]
            BY <1>0, <1>6, <2>2 DEF Restart
        <2> QED
            BY <1>1, <2>1, <2>3 DEF Held, Queued, Conn
    <1>7. CASE UNCHANGED <<backlog, concierge, dialog, lost, inc>> /\ ProposerUp
        BY <1>1, <1>7 DEF Held, Queued, Conn
    <1>8. CASE StartPhases \/ FirstBroadcasts \/ ProposerExits
        <2>1. UNCHANGED <<concierge, dialog, lost, inc>> /\ ProposerUp
            BY <1>8 DEF StartPhases, FirstBroadcasts, ProposerExits, ProposerUp, acceptVars,
                        validatorVars, dialVars
        <2>2. backlog' = backlog
            BY <1>8 DEF StartPhases, FirstBroadcasts, ProposerExits, ProposerUp, acceptVars
        <2> QED
            BY <1>1, <2>1, <2>2 DEF Held, Queued, Conn
    <1>9. ASSUME NEW q \in Phases, Listen(q) \/ ListenFails(q) PROVE Held(v, p)'
        BY <1>7, <1>9 DEF Listen, ListenFails, ProposerUp, validatorVars, dialVars
    <1>10. ASSUME NEW w \in Validators, DialFails(w) \/ StartReceiving(w) \/ QuitOnEOF(w) \/ Kill(w)
           PROVE  Held(v, p)'
        BY <1>7, <1>10 DEF DialFails, StartReceiving, QuitOnEOF, Kill, ProposerUp, proposerVars,
           acceptVars, dialVars
    <1>11. CASE UNCHANGED vars
        BY <1>7, <1>11 DEF vars, proposerVars, acceptVars, validatorVars, dialVars, ProposerUp
    <1> QED
        BY <1>2, <1>3, <1>4, <1>5, <1>6, <1>8, <1>9, <1>10, <1>11
           DEF Next, AcceptConns, RunAsValidator, RunAsProposer
-------------------------------------------------------------------------------
(***************************************************************************)
(* The connections that are counted.                                       *)
(***************************************************************************)

LEMMA ConnsFinite ==
    /\ IsFiniteSet(Conns)
    /\ \A S \in SUBSET Conns : IsFiniteSet(S) /\ Cardinality(S) \in Nat
    <1> DEFINE A == Validators \cup {NotAServer}
               B == 0..MaxRestarts
               f == [c \in Conns |-> <<c.by, c.inc>>]
    <1>1. IsFiniteSet(Validators)
        <2>1. NumOfConn - 1 \in Int
            BY StartupAssumption
        <2>2. IsFiniteSet(Servers)
            BY <2>1, FS_Interval DEF Servers
        <2> QED
            BY <2>2, FS_Subset DEF Validators
    <1>2. IsFiniteSet(A)
        BY <1>1, FS_AddElement
    <1>3. IsFiniteSet(B)
        BY StartupAssumption, FS_Interval
    <1>4. IsFiniteSet(A \X B)
        BY <1>2, <1>3, FS_Product
    <1>5. f \in [Conns -> A \X B] /\ \A c, d \in Conns : f[c] = f[d] => c = d
        BY DEF Conns
    <1> HIDE DEF f, A, B
    <1>6. f \in Injection(Conns, A \X B)
        BY <1>5 DEF Injection, IsInjective
    <1>7. IsFiniteSet(Conns)
        BY <1>4, <1>6, FS_Injection
    <1> QED
        BY <1>7, FS_Subset, FS_CardinalityType

LEMMA MoreCounted ==
    ASSUME NEW S \in SUBSET Conns, NEW T \in SUBSET Conns, S \subseteq T
    PROVE  /\ Cardinality(S) <= Cardinality(T)
           /\ \A c \in T \ S : Cardinality(S) + 1 <= Cardinality(T)
    <1>1. /\ IsFiniteSet(S) /\ IsFiniteSet(T)
          /\ Cardinality(S) \in Nat /\ Cardinality(T) \in Nat
        BY ConnsFinite
    <1>2. Cardinality(S) <= Cardinality(T) /\ (Cardinality(S) = Cardinality(T) => S = T)
        BY <1>1, FS_Subset
    <1> QED
        BY <1>1, <1>2

\* Starting a validator again adds one incarnation.
LEMMA RebornStep ==
    ASSUME Types, Cardinality(Reborn) = restarts, [Next]_vars
    PROVE  Cardinality(Reborn') = restarts'
    <1>0. /\ inc \in [Validators -> 0..MaxRestarts] /\ MaxRestarts \in Nat
          /\ inc' \in [Validators -> 0..MaxRestarts]
        BY ValidatorTypesKept, StartupAssumption DEF Types, ValidatorTypes
    <1>1. ASSUME NEW v \in Validators, Restart(v) PROVE Cardinality(Reborn') = restarts'
        <2>1. /\ inc' = [inc EXCEPT ![v] = inc[v] + 1]
              /\ restarts' = restarts + 1
            BY <1>1 DEF Restart
        <2>2. inc[v] + 1 \in 0..MaxRestarts /\ inc[v] + 1 >= 1 /\ inc'[v] = inc[v] + 1
            BY <1>0, <2>1
        <2> DEFINE c == [by |-> v, inc |-> inc[v] + 1]
        <2>3. c \in Conns /\ c.by = v /\ c.inc = inc[v] + 1
            BY <2>2 DEF Conns
        <2> HIDE DEF c
        <2>4. c \notin Reborn
            BY <1>0, <2>3 DEF Reborn
        <2>5. \A d \in Conns : d.by = v /\ d.inc = inc[v] + 1 => d = c
            BY <2>3 DEF Conns
        <2>6. Reborn' = Reborn \cup {c}
            <3>1. ASSUME NEW d \in Conns
                  PROVE  d \in Reborn' <=> d \in Reborn \/ d = c
                <4>1. CASE d.by = v
                    <5>1. d.inc \in Int /\ inc[v] \in Nat
                        BY <1>0 DEF Conns
                    <5>2. d.inc \in 1..(inc[v] + 1) <=> d.inc \in 1..inc[v] \/ d.inc = inc[v] + 1
                        BY <5>1
                    <5> QED
                        BY <2>2, <2>3, <2>5, <4>1, <5>2 DEF Reborn
                <4>2. CASE d.by # v
                    BY <1>0, <2>1, <2>3, <4>2 DEF Reborn
                <4> QED
                    BY <4>1, <4>2
            <3>2. Reborn' \subseteq Conns /\ Reborn \subseteq Conns
                BY DEF Reborn
            <3> QED
                BY <2>3, <3>1, <3>2
        <2>7. IsFiniteSet(Reborn)
            BY ConnsFinite DEF Reborn
        <2>8. Cardinality(Reborn') = Cardinality(Reborn) + 1
            BY <2>4, <2>6, <2>7, FS_AddElement
        <2> QED
            BY <2>1, <2>8
    <1>2. CASE UNCHANGED <<inc, restarts>>
        BY <1>2 DEF Reborn
    <1> QED
        BY <1>1, <1>2 DEF Next, AcceptConns, RunAsValidator, RunAsProposer, vars,
           Listen, ListenFails, AcceptRegistered, AcceptStranger, StrangerConnects, StartPhases,
           FirstBroadcasts, ProposerExits, Dial, DialFails, StartReceiving, QuitOnEOF, Kill,
           validatorVars

\* Counting one of several queued connections.
LEMMA AcceptCounts ==
    ASSUME DistinctAddresses, Types, QueueInv, CountInv, NEW p \in Phases, AcceptRegistered(p)
    PROVE  connected'[p] <= Cardinality(Counted(p)')
    <1> DEFINE s == backlog[p]
               c == Head(s)
    <1>1. /\ s \in Seq(Conns) /\ s # <<>>
          /\ c.by \in Validators
          /\ backlog'[p] = Tail(s)
          /\ concierge'[p] = Put(concierge[p], LookUp(AddressOf(c.by, p)), c)
          /\ connected'[p] = connected[p] + 1 /\ connected[p] \in Nat
          /\ UNCHANGED <<inc, dialog>>
        BY DEF Types, AcceptTypes, AcceptRegistered, Known, Register, validatorVars, dialVars
    <1>2. DOMAIN concierge'[p] = DOMAIN concierge[p] \cup {c.by}
        BY <1>1, LookUpIsSelf DEF Put
    <1>3. /\ c \in Made(p)
          /\ \A k \in DOMAIN Tail(s) : Tail(s)[k].by = c.by => c.inc < Tail(s)[k].inc
        BY <1>1, QueueTailOrdered DEF QueueInv, QueueOrdered
    <1>4. /\ 1 \in DOMAIN s /\ c = s[1]
          /\ \A k \in DOMAIN Tail(s) : k + 1 \in DOMAIN s /\ Tail(s)[k] = s[k + 1]
        BY <1>1, QueueTail
    <1> HIDE DEF c
    <1>5. Made(p)' = Made(p)
        BY <1>1 DEF Made
    <1>6. Queued(p)' \subseteq Queued(p) /\ c \in Queued(p)
        BY <1>1, <1>4 DEF Queued
    <1>7. c \notin Queued(p)'
        <2>1. c.inc \in Int
            BY <1>3, StartupAssumption DEF Made, Conns
        <2>2. \A k \in DOMAIN Tail(s) : Tail(s)[k] # c
            BY <1>3, <2>1
        <2> QED
            BY <1>1, <2>2 DEF Queued
    <1>8. Counted(p) \subseteq Counted(p)' /\ c \in Counted(p)' \ Counted(p)
        BY <1>2, <1>3, <1>5, <1>6, <1>7 DEF Counted
    <1>9. Counted(p) \in SUBSET Conns /\ Counted(p)' \in SUBSET Conns
        BY DEF Counted, Made
    <1>10. Cardinality(Counted(p)) + 1 <= Cardinality(Counted(p)')
        BY <1>8, <1>9, MoreCounted
    <1>11. Cardinality(Counted(p)) \in Nat /\ Cardinality(Counted(p)') \in Nat
        BY <1>9, ConnsFinite
    <1> QED
        BY <1>1, <1>10, <1>11 DEF CountInv

\* No other step takes a connection from those that may have been counted.
LEMMA CountStep ==
    ASSUME DistinctAddresses, Types, QueueInv, CountInv, [Next]_vars
    PROVE  CountInv'
    <1>1. Cardinality(Reborn') = restarts'
        BY RebornStep DEF CountInv
    <1>2. SUFFICES ASSUME NEW p \in Phases
                   PROVE  connected'[p] <= Cardinality(Counted(p)')
        BY <1>1 DEF CountInv
    <1>3. /\ backlog \in [Phases -> Seq(Conns)] /\ concierge = [q \in Phases |-> concierge[q]]
          /\ connected \in [Phases -> Nat]
        BY DEF Types, AcceptTypes
    <1>4. ASSUME connected'[p] = connected[p], Counted(p) \subseteq Counted(p)'
          PROVE  connected'[p] <= Cardinality(Counted(p)')
        <2>1. Counted(p) \in SUBSET Conns /\ Counted(p)' \in SUBSET Conns
            BY DEF Counted, Made
        <2>2. Cardinality(Counted(p)) <= Cardinality(Counted(p)')
            BY <1>4, <2>1, MoreCounted
        <2>3. Cardinality(Counted(p)) \in Nat /\ Cardinality(Counted(p)') \in Nat
            BY <2>1, ConnsFinite
        <2> QED
            BY <1>3, <1>4, <2>2, <2>3 DEF CountInv
    <1>5. ASSUME concierge'[p] = concierge[p], Made(p) \cap Queued(p)' \subseteq Queued(p)
          PROVE  Counted(p) \subseteq Counted(p)'
        BY <1>5, MadeGrows DEF Counted
    <1>6. ASSUME backlog'[p] = backlog[p] \/ backlog'[p] = <<>>
          PROVE  Queued(p)' \subseteq Queued(p)
        BY <1>6 DEF Queued
    <1>7. ASSUME NEW c \in Conns, backlog'[p] = Append(backlog[p], c)
          PROVE  Queued(p)' \subseteq Queued(p) \cup {c}
        <2>1. backlog[p] \in Seq(Conns)
            BY <1>3
        <2> QED
            BY <1>7, <2>1, QueueAppend DEF Queued
    <1>8. ASSUME NEW q \in Phases, AcceptRegistered(q)
          PROVE  connected'[p] <= Cardinality(Counted(p)')
        <2>1. CASE q = p
            BY <1>8, <2>1, AcceptCounts
        <2>2. CASE q # p
            <3>1. /\ backlog'[p] = backlog[p] /\ concierge'[p] = concierge[p]
                  /\ connected'[p] = connected[p]
                BY <1>3, <1>8, <2>2 DEF AcceptRegistered
            <3> QED
                BY <1>4, <1>5, <1>6, <3>1
        <2> QED
            BY <2>1, <2>2
    <1>9. ASSUME NEW q \in Phases, StrangerConnects(q)
          PROVE  connected'[p] <= Cardinality(Counted(p)')
        <2>1. UNCHANGED <<concierge, connected>>
            BY <1>9 DEF StrangerConnects
        <2>2. PICK c : c = [by |-> NotAServer, inc |-> 0]
            OBVIOUS
        <2>3. c \in Conns /\ c \notin Made(p)
            BY <2>2, StartupAssumption DEF Conns, Validators, Made
        <2>4. backlog'[p] = backlog[p] \/ backlog'[p] = Append(backlog[p], c)
            BY <1>3, <1>9, <2>2 DEF StrangerConnects
        <2>5. Made(p) \cap Queued(p)' \subseteq Queued(p)
            BY <1>6, <1>7, <2>3, <2>4
        <2> QED
            BY <1>4, <1>5, <2>1, <2>5
    <1>10. ASSUME NEW v \in Validators, Dial(v)
           PROVE  connected'[p] <= Cardinality(Counted(p)')
        <2>1. UNCHANGED <<concierge, connected>>
            BY <1>10 DEF Dial
        <2>2. CASE p = phase[v]
            <3>1. Conn(v) \in Conns /\ Conn(v) \notin Made(p)
                BY <1>10, <2>2, DialsOnce
            <3>2. backlog'[p] = Append(backlog[p], Conn(v))
                BY <1>3, <1>10, <2>2 DEF Dial
            <3> QED
                BY <1>4, <1>5, <1>7, <2>1, <3>1, <3>2
        <2>3. CASE p # phase[v]
            <3>1. backlog'[p] = backlog[p]
                BY <1>3, <1>10, <2>3 DEF Dial
            <3> QED
                BY <1>4, <1>5, <1>6, <2>1, <3>1
        <2> QED
            BY <2>2, <2>3
    <1>11. ASSUME UNCHANGED <<concierge, connected>>,
                  backlog'[p] = backlog[p] \/ backlog'[p] = <<>>
           PROVE  connected'[p] <= Cardinality(Counted(p)')
        BY <1>4, <1>5, <1>6, <1>11
    <1>12. ASSUME NEW q \in Phases, AcceptStranger(q) \/ Listen(q) \/ ListenFails(q)
           PROVE  connected'[p] <= Cardinality(Counted(p)')
        BY <1>3, <1>11, <1>12 DEF AcceptStranger, Listen, ListenFails
    <1>13. CASE StartPhases \/ FirstBroadcasts \/ ProposerExits
        BY <1>11, <1>13 DEF StartPhases, FirstBroadcasts, ProposerExits, acceptVars
    <1>14. ASSUME NEW v \in Validators,
                  DialFails(v) \/ StartReceiving(v) \/ QuitOnEOF(v) \/ Kill(v) \/ Restart(v)
           PROVE  connected'[p] <= Cardinality(Counted(p)')
        BY <1>11, <1>14 DEF DialFails, StartReceiving, QuitOnEOF, Kill, Restart, proposerVars,
           acceptVars
    <1>15. CASE UNCHANGED vars
        BY <1>11, <1>15 DEF vars, proposerVars, acceptVars
    <1> QED
        BY <1>8, <1>9, <1>10, <1>12, <1>13, <1>14, <1>15
           DEF Next, AcceptConns, RunAsValidator, RunAsProposer

\* A phase has counted no more connections than it has servers, one for each
\* incarnation after the first aside.
LEMMA CountedAreServers ==
    ASSUME Types, CountInv, NEW p \in Phases
    PROVE  /\ Cardinality(DOMAIN concierge[p]) \in Nat
           /\ connected[p] <= Cardinality(DOMAIN concierge[p]) + restarts
    <1> DEFINE D     == DOMAIN concierge[p]
               first == {c \in Counted(p) : c.inc = 0}
               again == {c \in Counted(p) : c.inc # 0}
               f     == [c \in first |-> c.by]
    <1>1. IsFiniteSet(D) /\ Cardinality(D) \in Nat
        <2>1. IsFiniteSet(Servers)
            <3>1. NumOfConn - 1 \in Int
                BY StartupAssumption
            <3> QED
                BY <3>1, FS_Interval DEF Servers
        <2>2. D \in SUBSET Servers
            BY DEF Types, AcceptTypes, IsMap
        <2> QED
            BY <2>1, <2>2, FS_Subset, FS_CardinalityType
    <1>2. Counted(p) \in SUBSET Conns /\ Reborn \in SUBSET Conns
        BY DEF Counted, Made, Reborn
    <1>3. Counted(p) = first \cup again /\ first \in SUBSET Conns /\ again \in SUBSET Conns
        BY <1>2
    <1>4. again \subseteq Reborn
        <2>1. MaxRestarts \in Nat /\ inc \in [Validators -> 0..MaxRestarts]
            BY StartupAssumption DEF Types, ValidatorTypes
        <2> QED
            BY <2>1 DEF Counted, Made, Reborn, Conns
    <1>5. f \in [first -> D] /\ \A c, d \in first : f[c] = f[d] => c = d
        BY DEF Counted, Made, Conns
    <1>6. connected[p] <= Cardinality(Counted(p)) /\ connected[p] \in Nat
        BY DEF CountInv, Types, AcceptTypes
    <1>7. Cardinality(Reborn) = restarts /\ restarts \in Nat
        BY ConnsFinite, <1>2 DEF CountInv
    <1> HIDE DEF D, first, again, f
    <1>8. Cardinality(first) <= Cardinality(D)
        <2>1. f \in Injection(first, D)
            BY <1>5 DEF Injection, IsInjective
        <2> QED
            BY <1>1, <2>1, FS_Injection
    <1>9. Cardinality(again) <= restarts
        BY <1>2, <1>3, <1>4, <1>7, MoreCounted
    <1>10. /\ IsFiniteSet(first) /\ IsFiniteSet(again)
           /\ Cardinality(first) \in Nat /\ Cardinality(again) \in Nat
           /\ Cardinality(first \cap again) \in Nat
        <2>1. first \cap again \in SUBSET Conns
            BY <1>3
        <2> QED
            BY <1>3, <2>1, ConnsFinite
    <1>11. Cardinality(Counted(p)) <= Cardinality(first) + Cardinality(again)
        <2>1. Cardinality(Counted(p)) =
                  Cardinality(first) + Cardinality(again) - Cardinality(first \cap again)
            BY <1>3, <1>10, FS_Union
        <2> QED
            BY <1>10, <2>1
    <1>12. Cardinality(Counted(p)) \in Nat
        BY <1>2, ConnsFinite
    <1>13. connected[p] <= Cardinality(D) + restarts
        BY <1>1, <1>6, <1>7, <1>8, <1>9, <1>10, <1>11, <1>12
    <1> QED
        BY <1>1, <1>13 DEF D
-------------------------------------------------------------------------------
(***************************************************************************)
(* The theorems.                                                           *)
(***************************************************************************)

LEMMA StartupInit ==
    Init => Types /\ WaitInv /\ BoothInv /\ QueueInv /\ CurrentInv /\ CountInv
    <1> SUFFICES ASSUME Init
                 PROVE  Types /\ WaitInv /\ BoothInv /\ QueueInv /\ CurrentInv /\ CountInv
        OBVIOUS
    <1>1. /\ NOP \in Nat /\ MaxTry - 1 \in Nat /\ MaxStrangers \in Nat /\ MaxRestarts \in Nat
          /\ NumOfConn - 1 \in Nat /\ NumOfConn - 1 > 0
          /\ OPA \in 1..(NOP + 1)
        BY StartupAssumption DEF OPA
    <1>2. IsMap(EmptyMap, Servers, Conns)
        BY DEF IsMap, EmptyMap
    <1>3. AcceptTypes
        <2>1. <<>> \in Seq(Conns)
            OBVIOUS
        <2> QED
            BY <1>2, <2>1 DEF Init, AcceptTypes
    <1>4. ProposerTypes
        BY StartupAssumption DEF Init, ProposerTypes
    <1>5. ValidatorTypes /\ DialInv
        BY <1>1 DEF Init, ValidatorTypes, DialInv
    <1>6. WaitInv
        <2>1. Incomplete = Phases
            BY <1>1 DEF Init, Incomplete
        <2>2. Cardinality(Phases) = NOP
            <3>1. NOP \in Int /\ ~(1 > NOP) /\ (NOP - 1) + 1 = NOP
                BY StartupAssumption
            <3> QED
                BY <3>1, FS_Interval DEF Phases
        <2> QED
            BY <2>1, <2>2 DEF Init, WaitInv
    <1>7. BoothInv
        BY DEF Init, BoothInv
    <1>8. QueueInv
        BY DEF Init, QueueInv, QueueOrdered
    <1>9. CurrentInv
        BY DEF Init, CurrentInv
    <1>10. CountInv
        <2>1. Reborn = {}
            BY DEF Init, Reborn
        <2>2. \A p \in Phases : Cardinality(Counted(p)) \in Nat
            <3>1. \A p \in Phases : Counted(p) \in SUBSET Conns
                BY DEF Counted, Made
            <3> QED
                BY <3>1, ConnsFinite
        <2> QED
            BY <2>1, <2>2, FS_EmptySet DEF Init, CountInv
    <1> QED
        BY <1>3, <1>4, <1>5, <1>6, <1>7, <1>8, <1>9, <1>10 DEF Types

\* What holds whatever the addresses are.
LEMMA TypesInvariance ==
    Spec => [](Types /\ WaitInv /\ BoothInv)
    <1>1. Init => Types /\ WaitInv /\ BoothInv
        BY StartupInit
    <1>2. Types /\ WaitInv /\ BoothInv /\ [Next]_vars => Types' /\ WaitInv' /\ BoothInv'
        BY AcceptTypesKept, ProposerTypesKept, ValidatorTypesKept, WaitStep, BoothStep DEF Types
    <1> QED
        BY <1>1, <1>2, PTL DEF Spec

\* The whole invariant, if no address is in two rows.
LEMMA StartupInvariance ==
    DistinctAddresses => (Spec => [](QueueInv /\ CurrentInv /\ CountInv))
    <1> SUFFICES ASSUME DistinctAddresses
                 PROVE  Spec => [](QueueInv /\ CurrentInv /\ CountInv)
        OBVIOUS
    <1>1. Init => QueueInv /\ CurrentInv /\ CountInv
        BY StartupInit
    <1>2. Types /\ QueueInv /\ CurrentInv /\ CountInv /\ [Next]_vars =>
              QueueInv' /\ CurrentInv' /\ CountInv'
        BY QueueStep, CurrentStep, CountStep
    <1> QED
        BY <1>1, <1>2, TypesInvariance, PTL DEF Spec

\* The types of the proposer's and the validators' state: every phase has its queue
\* and its map, wg is never negative, and no counter of attempts runs over
\* (connsprop.go:36-97, connsvldr.go:16-88).
THEOREM StartupTypeCorrect ==
    Spec => []TypeOK
    <1>1. Types /\ WaitInv => TypeOK
        BY PhasesFinite DEF Types, AcceptTypes, ProposerTypes, ValidatorTypes, WaitInv, TypeOK
    <1> QED
        BY <1>1, TypesInvariance, PTL

\* A server that has no connection in some phase when the phases start was replaced in
\* the count by another one that was started again (connsprop.go:82-85).
THEOREM MissingAreReplaced ==
    DistinctAddresses => (Spec => []MissingNeedsRestart)
    <1> SUFFICES ASSUME DistinctAddresses PROVE Spec => []MissingNeedsRestart
        OBVIOUS
    <1>1. Types /\ WaitInv /\ CountInv => MissingNeedsRestart
        <2> SUFFICES ASSUME Types, WaitInv, CountInv, ppc # "waiting", NEW p \in Phases
                     PROVE  Cardinality(DOMAIN concierge[p]) + restarts >= NumOfConn - 1
            BY DEF MissingNeedsRestart
        <2>1. Incomplete = {}
            BY PhasesFinite DEF WaitInv
        <2>2. connected[p] >= NumOfConn - 1
            BY <2>1, StartupAssumption DEF Incomplete, Types, AcceptTypes
        <2>3. /\ connected[p] \in Nat /\ restarts \in Nat /\ NumOfConn \in Nat
              /\ Cardinality(DOMAIN concierge[p]) \in Nat
              /\ connected[p] <= Cardinality(DOMAIN concierge[p]) + restarts
            BY CountedAreServers, StartupAssumption DEF Types, AcceptTypes, ValidatorTypes
        <2> QED
            BY <2>2, <2>3
    <1> QED
        BY <1>1, TypesInvariance, StartupInvariance, PTL

\* The proposer uses the connection of a validator's present life once it has accepted
\* it: none of an earlier life comes after it (handlers.go:43-68).
THEOREM PresentConnectionUsed ==
    DistinctAddresses => (Spec => []CurrentConnectionUsed)
    <1> SUFFICES ASSUME DistinctAddresses PROVE Spec => []CurrentConnectionUsed
        OBVIOUS
    <1>1. CurrentInv => CurrentConnectionUsed
        BY DEF CurrentInv, CurrentConnectionUsed, Held, Queued
    <1> QED
        BY <1>1, StartupInvariance, PTL

\* The booths of the reference definition are those made when none has more servers
\* than there are.
LEMMA FittingBooths ==
    ASSUME NEW n \in Nat \ {0}, NEW b \in Nat \ {0}, b <= n
    PROVE  BoothSets(n, b) = AllBooths(n, b)
    <1>1. n - 1 \in Nat /\ b - 1 \in Nat /\ n - 1 >= b - 1
        OBVIOUS
    <1>2. Max({n - 1, b - 1}) = n - 1
        BY <1>1, LargerOfTwo
    <1> QED
        BY <1>2 DEF BoothSets, AllBooths

LEMMA FlagsOfBooths ==
    ASSUME Types, BoothInv, ppc # "waiting"
    PROVE  LET m == Cardinality(BoothSets(NumOfConn, flags.boo))
           IN  /\ NumOfConn \in Nat \ {0} /\ flags.boo \in Nat \ {0} /\ flags.cmt \in Nat
               /\ m \in Nat
               /\ DOMAIN booMgr = 1..m
               /\ \A i \in 1..m : booMgr[i].id = i - 1
               /\ {booMgr[i].members : i \in 1..m} = BoothSets(NumOfConn, flags.boo)
    <1>1. /\ NumOfConn \in Nat \ {0} /\ flags.boo \in Nat \ {0} /\ flags.cmt \in Nat
          /\ booMgr = PrepareBooths(NumOfConn, flags.boo)
        BY StartupAssumption DEF Types, ProposerTypes, BoothInv
    <1> DEFINE m == Cardinality(BoothSets(NumOfConn, flags.boo))
    <1>2. /\ m \in Nat
          /\ booMgr \in [1..m -> [id : Nat, members : SUBSET Nat]]
          /\ \A i \in 1..m : booMgr[i].id = i - 1
          /\ {booMgr[i].members : i \in 1..m} = BoothSets(NumOfConn, flags.boo)
        <2>1. PICK n \in Nat \ {0}, b \in Nat \ {0} : n = NumOfConn /\ b = flags.boo
            BY <1>1
        <2>2. LET k == Cardinality(BoothSets(n, b))
              IN  /\ k \in Nat
                  /\ PrepareBooths(n, b) \in [1..k -> [id : Nat, members : SUBSET Nat]]
                  /\ \A i \in 1..k : PrepareBooths(n, b)[i].id = i - 1
                  /\ {PrepareBooths(n, b)[i].members : i \in 1..k} = BoothSets(n, b)
            BY PreparedBooths
        <2> QED
            BY <1>1, <2>1, <2>2
    <1> QED
        BY <1>1, <1>2

\* For any number of servers and any size of the booths: the ids the booths carry are
\* their places in the list, and the list is complete (mmu.go:39-77).
THEOREM BoothIdsCorrect ==
    Spec => []BoothIdsAreIndices
    <1>1. Types /\ BoothInv => BoothIdsAreIndices
        <2> SUFFICES ASSUME Types, BoothInv, booMgr # <<>> PROVE BoothIdsAreIndices
            BY DEF BoothIdsAreIndices
        <2>1. ppc # "waiting"
            BY DEF BoothInv
        <2> QED
            BY <2>1, FlagsOfBooths, FittingBooths DEF BoothIdsAreIndices
    <1> QED
        BY <1>1, TypesInvariance, PTL

\* The ids in use have booths of existing servers exactly for flags that fit.
LEMMA UsableFits ==
    ASSUME Types, BoothInv, ppc # "waiting"
    PROVE  Usable(0) /\ Usable(flags.cmt) <=> Fits(flags)
    <1> DEFINE b == flags.boo
               m == Cardinality(BoothSets(NumOfConn, b))
    <1>1. /\ NumOfConn \in Nat \ {0} /\ b \in Nat \ {0} /\ flags.cmt \in Nat
          /\ m \in Nat
          /\ DOMAIN booMgr = 1..m
          /\ {booMgr[i].members : i \in 1..m} = BoothSets(NumOfConn, b)
        BY FlagsOfBooths
    <1>2. \A i \in 1..m : booMgr[i].members \in BoothSets(NumOfConn, b)
        BY <1>1
    <1> HIDE DEF b, m
    <1>3. CASE b <= NumOfConn
        <2>1. BoothSets(NumOfConn, b) = AllBooths(NumOfConn, b)
            BY <1>1, <1>3, FittingBooths
        <2>2. \A i \in 1..m : booMgr[i].members \subseteq Servers
            BY <1>2, <2>1 DEF AllBooths, kSubset, Servers
        <2>3. \A id \in Nat : Usable(id) <=> id < m
            <3> TAKE id \in Nat
            <3>1. id + 1 \in 1..m <=> id < m
                BY <1>1
            <3> QED
                BY <1>1, <2>2, <3>1 DEF Usable, InRange, BoothAt
        <2>4. Fits(flags) <=> flags.cmt < m
            BY <1>3, <2>1 DEF Fits, m, b
        <2>5. flags.cmt < m => 0 < m
            BY <1>1
        <2> QED
            BY <1>1, <2>3, <2>4, <2>5
    <1>4. CASE ~(b <= NumOfConn)
        <2>1. ~Fits(flags)
            BY <1>4 DEF Fits, b
        <2>2. ASSUME Usable(0) PROVE FALSE
            <3>1. 1 \in 1..m /\ booMgr[1].members \subseteq Servers
                BY <1>1, <2>2 DEF Usable, InRange, BoothAt
            <3> DEFINE s == booMgr[1].members
            <3>2. Cardinality(s) = b
                BY <1>2, <3>1 DEF BoothSets, kSubset
            <3>3. IsFiniteSet(Servers) /\ Cardinality(Servers) = NumOfConn
                <4>1. /\ 0 \in Int /\ NumOfConn - 1 \in Int /\ ~(0 > NumOfConn - 1)
                      /\ (NumOfConn - 1) - 0 + 1 = NumOfConn
                    BY <1>1
                <4> QED
                    BY <4>1, FS_Interval DEF Servers
            <3>4. s \in SUBSET Servers
                BY <3>1
            <3> HIDE DEF s
            <3>5. Cardinality(s) <= NumOfConn
                BY <3>3, <3>4, FS_Subset
            <3> QED
                BY <1>4, <3>2, <3>5
        <2> QED
            BY <2>1, <2>2
    <1> QED
        BY <1>3, <1>4

\* The proposer panics at the first broadcasts exactly for flags that do not fit, for
\* any number of servers and any flags (mmu.go:93-100, vconsensus.go:14-23).
THEOREM PanicsAreBadFlags ==
    Spec => []PanicsOnlyOnBadFlags
    <1>1. Types /\ BoothInv => PanicsOnlyOnBadFlags
        BY UsableFits DEF BoothInv, PanicsOnlyOnBadFlags
    <1> QED
        BY <1>1, TypesInvariance, PTL
===============================================================================
