-------------------------------- MODULE GoMaps --------------------------------
(***************************************************************************)
(* Maps as functions whose domain grows: V-Guard's caches are Go maps that *)
(* are only ever extended or overwritten, and the cargo table is a map     *)
(* from ids to rows.                                                       *)
(***************************************************************************)

\* The map made by make(map[K]V).
EmptyMap == [k \in {} |-> {}]

\* m with m[k] = v assigned, whether or not k was present.
Put(m, k, v) == [x \in DOMAIN m \cup {k} |-> IF x = k THEN v ELSE m[x]]

\* m is a map from some of the keys in K to values in V.
IsMap(m, K, V) ==
    /\ m = [k \in DOMAIN m |-> m[k]]
    /\ DOMAIN m \subseteq K
    /\ \A k \in DOMAIN m : m[k] \in V
===============================================================================
