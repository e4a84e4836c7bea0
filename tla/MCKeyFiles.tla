------------------------------ MODULE MCKeyFiles ------------------------------
(***************************************************************************)
(* A small cluster for the key files: Threshold 2 of three servers,        *)
(* scalars modulo 7, and three polynomials.  The first two agree at the    *)
(* point of server 2, so that keys of two generations sometimes sign       *)
(* together; the third is made for a larger Threshold.                     *)
(***************************************************************************)
EXTENDS KeyFiles

MCInstances == 0..2
MCPolys == {<<3, 2>>, <<6, 1>>, <<1, 4, 2>>}

\* Evaluation and interpolation are inverse, for every polynomial and any indices.
ASSUME SharesInterpolate == \A t \in 1..3 : InterpolatesShares(t, 0..3)
===============================================================================
