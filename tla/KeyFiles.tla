------------------------------- MODULE KeyFiles -------------------------------
(***************************************************************************)
(* The key files: keyGen/generator.go draws a polynomial and writes its    *)
(* coefficients and one share per server, file by file; every V-Guard      *)
(* process reads the coefficients and its own share when it starts, in two *)
(* steps (fetchKeys of tsigs.go).  The generator may run again, or die,    *)
(* while processes read or run.                                            *)
(*                                                                         *)
(* Scalars are numbers modulo a small prime P, and a point is the scalar   *)
(* its base is multiplied with: what kyber computes "in the exponent" is   *)
(* computed here as it is.                                                 *)
(***************************************************************************)
EXTENDS Integers, Sequences, FiniteSets, FiniteSetsExt, GoMaps

CONSTANTS
    P,            \* the order of the group
    Polys,        \* polynomials the generator may draw, by their coefficients
    MaxRuns,      \* bound: times the generator is run
    MaxServers,   \* bound: flag -n of the generator
    Instances,    \* ids of the processes of one cluster
    Thresh,       \* their Threshold, from flag -boo
    PubFile       \* the name of the file vguard_pub.dupe

ASSUME KeyFilesAssumption ==
    /\ P \in Nat
    /\ Polys \subseteq Seq(0..(P - 1)) \ {<<>>} /\ Polys # {}
    /\ MaxRuns \in Nat
    /\ MaxServers \in 1..(P - 1)
    /\ Instances \subseteq Nat
    /\ Thresh \in Nat \ {0}
    /\ PubFile \notin Nat
-------------------------------------------------------------------------------
(***************************************************************************)
(* Arithmetic of the shares.                                               *)
(***************************************************************************)

\* PriPoly.Eval and PubPoly.Eval: share I is the value at I + 1, by Horner's rule.
Eval(poly, I) ==
    LET acc[k \in 0..Len(poly)] ==
            IF k = 0 THEN 0 ELSE (acc[k - 1] * (I + 1) + poly[Len(poly) - k + 1]) % P
    IN  acc[Len(poly)]

InverseOf(a) == CHOOSE b \in 1..(P - 1) : (a * b) % P = 1

\* share.RecoverCommit: the value at 0 of the polynomial through the shares,
\* given as a function from indices to values.
Product(f, S) == FoldSet(LAMBDA i, acc : (f[i] * acc) % P, 1, S)
Interpolate(shares) ==
    LET xs == DOMAIN shares
        num(i) == Product([j \in xs |-> j + 1], xs \ {i})
        den(i) == Product([j \in xs |-> (j - i + P) % P], xs \ {i})
    IN  MapThenSumSet(LAMBDA i : shares[i] * num(i) * InverseOf(den(i)), xs) % P

\* What the library promises of the two: any t shares of a polynomial of t
\* coefficients give its value at 0.
InterpolatesShares(t, ids) ==
    \A p \in [1..t -> 0..(P - 1)] : \A S \in kSubset(t, ids) :
        Interpolate([I \in S |-> Eval(p, I)]) = p[1]
-------------------------------------------------------------------------------
VARIABLES
    dir,    \* ./keys: file -> its lines
    gpc,    \* the generator: "off", "remove", "open" or "flush"
    poly,   \* its polynomial
    n,      \* its flag -n
    file,   \* the file it is about to open, or has open
    drawn,  \* polynomials of this and of earlier runs
    ipc,    \* ipc[i]: "off", "pub", "pri", "up" or "failed"
    pub,    \* pub[i]: PublicPoly of process i
    pri,    \* pri[i]: PrivateShare of process i
    calm    \* calm[i]: no generator has run since process i started

genVars == <<dir, gpc, poly, n, file, drawn>>
instVars == <<ipc, pub, pri, calm>>
vars == <<genVars, instVars>>

Files == {PubFile} \cup 0..(MaxServers - 1)
Scalars == 0..(P - 1)
NoShare == [I |-> 0, V |-> 0]

TypeOK ==
    /\ IsMap(dir, Files, Seq(Scalars))
    /\ gpc \in {"off", "remove", "open", "flush"}
    /\ poly \in Polys
    /\ n \in 1..MaxServers
    /\ file \in Files
    /\ drawn \subseteq Polys
    /\ ipc \in [Instances -> {"off", "pub", "pri", "up", "failed"}]
    /\ pub \in [Instances -> Seq(Scalars)]
    /\ pri \in [Instances -> [I : Nat, V : Scalars]]
    /\ calm \in [Instances -> BOOLEAN]

Init ==
    /\ dir = EmptyMap
    /\ gpc = "off"
    /\ poly = CHOOSE p \in Polys : TRUE
    /\ n = MaxServers
    /\ file = PubFile
    /\ drawn = {}
    /\ ipc = [i \in Instances |-> "off"]
    /\ pub = [i \in Instances |-> <<>>]
    /\ pri = [i \in Instances |-> NoShare]
    /\ calm = [i \in Instances |-> FALSE]
-------------------------------------------------------------------------------
(***************************************************************************)
(* The generator.                                                          *)
(***************************************************************************)

\* main draws a new polynomial.
StartGenerator ==
    /\ gpc = "off"
    /\ Cardinality(drawn) < MaxRuns
    /\ gpc' = "remove"
    /\ poly' \in Polys \ drawn
    /\ drawn' = drawn \cup {poly'}
    /\ n' \in 1..MaxServers
    /\ calm' = [i \in Instances |-> FALSE]
    /\ UNCHANGED <<dir, file, ipc, pub, pri>>

\* RemoveAll removes the files one by one.
RemoveFile(f) ==
    /\ gpc = "remove"
    /\ f \in DOMAIN dir
    /\ dir' = [g \in DOMAIN dir \ {f} |-> dir[g]]
    /\ UNCHANGED <<gpc, poly, n, file, drawn, instVars>>

\* The old directory is gone: Mkdir.
PublicFileGone(d) == PubFile \notin DOMAIN d
Removed(d) == DOMAIN d = {}

MakeDir ==
    /\ gpc = "remove"
    /\ Removed(dir)
    /\ gpc' = "open"
    /\ file' = PubFile
    /\ UNCHANGED <<dir, poly, n, drawn, instVars>>

\* OpenFile appends to a file that is there and creates one that is not.
OpenFile ==
    /\ gpc = "open"
    /\ dir' = IF file \in DOMAIN dir THEN dir ELSE Put(dir, file, <<>>)
    /\ gpc' = "flush"
    /\ UNCHANGED <<poly, n, file, drawn, instVars>>

\* createPubPoly writes the coefficients, createPrivateShare one share.
Lines(p, f) == IF f = PubFile THEN p ELSE <<Eval(p, f)>>

NextFile(f) == IF f = PubFile THEN 0 ELSE f + 1
OneShareMore(f) == f # PubFile /\ f = n
LastFile(f) == f # PubFile /\ f = n - 1

\* Flush: the lines fit the writer's buffer and reach the file in one write.
FlushFile ==
    /\ gpc = "flush"
    /\ dir' = Put(dir, file, dir[file] \o Lines(poly, file))
    /\ IF LastFile(file)
       THEN gpc' = "off" /\ UNCHANGED file
       ELSE gpc' = "open" /\ file' = NextFile(file)
    /\ UNCHANGED <<poly, n, drawn, instVars>>

\* It is killed, or panics at an error of the file system.
GeneratorDies ==
    /\ gpc # "off"
    /\ gpc' = "off"
    /\ UNCHANGED <<dir, poly, n, file, drawn, instVars>>
-------------------------------------------------------------------------------
(***************************************************************************)
(* A process: init calls fetchKeys, which panics at any error.             *)
(***************************************************************************)
LinesOf(f) == IF f \in DOMAIN dir THEN dir[f] ELSE <<>>

Start(i) ==
    /\ ipc[i] = "off"
    /\ ipc' = [ipc EXCEPT ![i] = "pub"]
    /\ calm' = [calm EXCEPT ![i] = gpc = "off"]
    /\ UNCHANGED <<genVars, pub, pri>>

\* fetchPubPoly: the number of lines must be Threshold.
EnoughLines(lines) == Len(lines) >= Thresh
LinesFit(lines) == Len(lines) = Thresh

FetchPubPoly(i) ==
    /\ ipc[i] = "pub"
    /\ IF LinesFit(LinesOf(PubFile))
       THEN /\ pub' = [pub EXCEPT ![i] = LinesOf(PubFile)]
            /\ ipc' = [ipc EXCEPT ![i] = "pri"]
       ELSE /\ ipc' = [ipc EXCEPT ![i] = "failed"]
            /\ UNCHANGED pub
    /\ UNCHANGED <<genVars, pri, calm>>

\* fetchPriShare: the file must have one line; the index is not in the file.
ShareWithoutIndex(id, line) == [I |-> 0, V |-> line]
ShareOf(id, line) == [I |-> id, V |-> line]

FetchPriShare(i) ==
    /\ ipc[i] = "pri"
    /\ IF Len(LinesOf(i)) = 1
       THEN /\ pri' = [pri EXCEPT ![i] = ShareOf(i, LinesOf(i)[1])]
            /\ ipc' = [ipc EXCEPT ![i] = "up"]
       ELSE /\ ipc' = [ipc EXCEPT ![i] = "failed"]
            /\ UNCHANGED pri
    /\ UNCHANGED <<genVars, pub, calm>>

\* It ends, or has panicked, and may be started again.
Stop(i) ==
    /\ ipc[i] \in {"up", "failed"}
    /\ ipc' = [ipc EXCEPT ![i] = "off"]
    /\ pub' = [pub EXCEPT ![i] = <<>>]
    /\ pri' = [pri EXCEPT ![i] = NoShare]
    /\ calm' = [calm EXCEPT ![i] = FALSE]
    /\ UNCHANGED genVars
-------------------------------------------------------------------------------
Generator ==
    \/ \E f \in Files : RemoveFile(f)
    \/ MakeDir
    \/ OpenFile
    \/ FlushFile

FetchKeys(i) == FetchPubPoly(i) \/ FetchPriShare(i)

Next ==
    \/ StartGenerator
    \/ Generator
    \/ GeneratorDies
    \/ \E i \in Instances : Start(i) \/ FetchKeys(i) \/ Stop(i)

Spec == Init /\ [][Next]_vars
-------------------------------------------------------------------------------
(***************************************************************************)
(* The signatures made with the keys.                                      *)
(***************************************************************************)
Up == {i \in Instances : ipc[i] = "up"}

\* PenSign: the share of process i of a signature, whose message is left out.
PenSign(i) == [i |-> pri[i].I, v |-> pri[i].V]

\* PenVerifyPartially, PenVerify: against the polynomial of process i.
PenVerifyPartially(i, share) == share.v = Eval(pub[i], share.i)
PenVerify(i, sig) == sig = pub[i][1]

\* PenRecovery at process i: every share must verify, and Threshold different
\* indices are needed; the first Threshold of them are combined.
PenRecovers(i, shares) ==
    /\ \A s \in shares : PenVerifyPartially(i, s)
    /\ Cardinality({s.i : s \in shares}) >= Thresh
PenRecovery(shares) ==
    Interpolate([k \in {s.i : s \in shares} |-> (CHOOSE s \in shares : s.i = k).v])
-------------------------------------------------------------------------------
(***************************************************************************)
(* Properties.                                                             *)
(***************************************************************************)

\* Whenever the generator stopped, and however often it ran, the files that have
\* any content have that of one and the same polynomial (generator.go:69-87).
OneGeneration ==
    \E p \in Polys : \A f \in DOMAIN dir : dir[f] \in {<<>>, Lines(p, f)}

\* A process that started while no generator ran has a share of the polynomial
\* it verifies with, of the degree its Threshold needs (tsigs.go:23-41,65-151).
LoadedKeysMatch ==
    \A i \in Up : calm[i] =>
        /\ pri[i] = [I |-> i, V |-> Eval(pub[i], i)]
        /\ Len(pub[i]) = Thresh

\* Any Threshold processes that read the same polynomial can sign for each other,
\* if they read a share of it: the contract the phases rely on (tsigs.go:164-183).
QuorumsSign ==
    \A i \in Up : \A S \in kSubset(Thresh, {j \in Up : calm[j] /\ pub[j] = pub[i]}) :
        /\ PenRecovers(i, {PenSign(j) : j \in S})
        /\ PenVerify(i, PenRecovery({PenSign(j) : j \in S}))

\* What one process recovers it also verifies, even if the processes of a cluster
\* have keys of different generations (tsigs.go:176-183).
RecoveredVerifies ==
    \A i \in Up : \A S \in kSubset(Thresh, Up) :
        PenRecovers(i, {PenSign(j) : j \in S})
            => PenVerify(i, PenRecovery({PenSign(j) : j \in S}))
===============================================================================
