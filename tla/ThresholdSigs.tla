---------------------------- MODULE ThresholdSigs ----------------------------
(***************************************************************************)
(* Quorum arithmetic of parameters.go and the threshold signatures of      *)
(* tsigs.go.  The digests and signatures themselves come from crypto/sha256 *)
(* and go.dedis.ch/kyber; they are modelled by what the V-Guard code relies *)
(* on: a digest names its content, a signature names what it signs, and a  *)
(* combined signature needs Threshold valid shares of distinct servers.    *)
(***************************************************************************)
EXTENDS Integers, FiniteSets

\* Number of servers that must agree in a booth of n, the proposer included.
Quorum(n) == (n \div 3) * 2 + 1

\* Number of validators whose shares make a quorum: the proposer adds no share.
ThresholdShort(n) == Quorum(n) - 2
Threshold(n) == Quorum(n) - 1

\* getDigest: the digest of some content; different contents never collide.
Digest(content) == <<"sha256", content>>

\* PenSign: the partial signature of server v on a digest.
PenSign(v, hash) == [by |-> v, on |-> hash]

\* The signature that PenRecovery combines, and the nil signature.
CombSig(hash) == <<"tbls", hash>>
NoSig == <<>>

\* PenRecovery succeeds when every share it is given is valid for the digest
\* and the shares come from at least t different servers.
PenRecovers(shares, hash, t) ==
    /\ \A s \in shares : s.on = hash
    /\ Cardinality({s.by : s \in shares}) >= t

\* PenVerify accepts exactly the combined signature of the digest.
PenVerify(hash, sig) == sig = CombSig(hash)
=============================================================================
