------------------------------ MODULE Recursion ------------------------------
(***************************************************************************)
(* Induction over the natural numbers, and functions defined by recursion  *)
(* over 0..n, stated with sets and functions in place of the operators of  *)
(* NaturalsInduction, so that a definition can be put in their place.      *)
(***************************************************************************)
EXTENDS Integers, TLAPS, WellFoundedInduction

\* A set of natural numbers that is not empty has a smallest one.
LEMMA SmallestOf ==
    ASSUME NEW S \in SUBSET Nat, S # {}
    PROVE  \E x \in S : \A y \in S : x <= y
    <1> DEFINE R == {r \in Nat \X Nat : r[1] < r[2]}
    <1>1. IsWellFoundedOn(R, Nat)
        BY NatLessThanWellFounded DEF OpToRel
    <1>2. PICK x \in S : \A y \in S : ~(<<y, x>> \in R)
        <2> HIDE DEF R
        <2> QED
            BY <1>1, WFMin
    <1>3. ASSUME NEW y \in S PROVE x <= y
        <2>1. x \in Nat /\ y \in Nat /\ <<y, x>> \notin R
            BY <1>2
        <2>2. ~(y < x)
            BY <2>1
        <2> QED
            BY <2>1, <2>2
    <1> QED
        BY <1>3

\* Induction up to n.
LEMMA InductionTo ==
    ASSUME NEW n \in Nat, NEW G, 0 \in G, \A k \in 0..(n - 1) : k \in G => k + 1 \in G
    PROVE  0..n \subseteq G
    <1> DEFINE B == {k \in 0..n : k \notin G}
    <1>1. SUFFICES ASSUME B # {} PROVE FALSE
        OBVIOUS
    <1>2. PICK x \in B : \A y \in B : x <= y
        <2>1. B \in SUBSET Nat
            OBVIOUS
        <2> HIDE DEF B
        <2> QED
            BY <1>1, <2>1, SmallestOf
    <1>3. x \in 0..n /\ x \notin G /\ x # 0
        BY <1>2
    <1>4. x - 1 \in 0..(n - 1) /\ (x - 1) + 1 = x /\ ~(x <= x - 1) /\ x - 1 \in 0..n
        BY <1>3
    <1>5. x - 1 \notin G
        BY <1>3, <1>4
    <1> QED
        BY <1>2, <1>4, <1>5

\* The values of g up to n are v0 and then each made from the one before it by F,
\* which makes values in V out of values in V.
StaysIn(n, V, F) == \A k \in 0..(n - 1), v \in V : F[<<k, v>>] \in V
FollowsTo(n, v0, F, g) == g[0] = v0 /\ \A k \in 0..(n - 1) : g[k + 1] = F[<<k, g[k]>>]

\* There is a function with values so made.
LEMMA RecursionTo ==
    ASSUME NEW n \in Nat, NEW V, NEW v0 \in V, NEW F, StaysIn(n, V, F)
    PROVE  \E g \in [0..n -> V] : FollowsTo(n, v0, F, g)
    <1> DEFINE Follows(m, g) == FollowsTo(m, v0, F, g)
               G == {m \in 0..n : \E g \in [0..m -> V] : Follows(m, g)}
    <1>1. 0 \in G
        <2> DEFINE g == [k \in 0..0 |-> v0]
        <2>1. g \in [0..0 -> V] /\ g[0] = v0
            OBVIOUS
        <2> HIDE DEF g
        <2>2. Follows(0, g) /\ 0 \in 0..n
            BY <2>1 DEF FollowsTo
        <2> HIDE DEF Follows
        <2> QED
            BY <2>1, <2>2
    <1>2. ASSUME NEW m \in 0..(n - 1), m \in G PROVE m + 1 \in G
        <2>1. PICK g \in [0..m -> V] : Follows(m, g)
            BY <1>2
        <2> DEFINE h == [k \in 0..(m + 1) |-> IF k <= m THEN g[k] ELSE F[<<m, g[m]>>]]
        <2>2. m \in Nat /\ m \in 0..m /\ g[m] \in V /\ F[<<m, g[m]>>] \in V
            BY DEF StaysIn
        <2>3. h \in [0..(m + 1) -> V]
            BY <2>2
        <2>4. \A k \in 0..m : h[k] = g[k]
            BY <2>2
        <2>5. h[m + 1] = F[<<m, g[m]>>]
            BY <2>2
        <2> HIDE DEF h
        <2>6. ASSUME NEW k \in 0..m PROVE h[k + 1] = F[<<k, h[k]>>]
            <3>1. CASE k = m
                BY <3>1, <2>4, <2>5
            <3>2. CASE k # m
                <4>1. k \in 0..(m - 1) /\ k + 1 \in 0..m
                    BY <2>2, <3>2
                <4> QED
                    BY <4>1, <2>1, <2>4 DEF FollowsTo
            <3> QED
                BY <3>1, <3>2
        <2>7. h[0] = v0 /\ (m + 1) - 1 = m /\ m + 1 \in 0..n
            BY <2>1, <2>2, <2>4 DEF FollowsTo
        <2>8. Follows(m + 1, h)
            BY <2>6, <2>7 DEF FollowsTo
        <2> HIDE DEF Follows
        <2> QED
            BY <2>3, <2>7, <2>8
    <1>3. 0..n \subseteq G
        <2> HIDE DEF G
        <2> QED
            BY <1>1, <1>2, InductionTo
    <1> QED
        BY <1>3
===============================================================================
