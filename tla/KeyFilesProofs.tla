---------------------------- MODULE KeyFilesProofs ----------------------------
(***************************************************************************)
(* The key files for every set of polynomials, every number of servers and *)
(* of runs of the generator, which may die at any step: what is in the     *)
(* directory is of one polynomial (OneGeneration), and so a process that   *)
(* starts while no generator runs has keys that fit (LoadedKeysMatch).     *)
(* For that it does not matter how a share is computed.  If, besides, any  *)
(* Threshold shares determine a polynomial, which is the library's part,   *)
(* the processes can sign for each other (QuorumsSign), and what one of    *)
(* them recovers it verifies, even with keys of different generations      *)
(* (RecoveredVerifies).                                                    *)
(***************************************************************************)
EXTENDS KeyFiles, Recursion, TLAPS

\* The files a run of the generator has written before it opens f.
Before(f) == IF f = PubFile THEN {} ELSE {PubFile} \cup 0..(f - 1)

\* What the generator's step says of the files: it writes to empty ones only.
DirInv ==
    /\ poly \in Polys
    /\ file \in {PubFile} \cup Nat
    /\ dir = [f \in DOMAIN dir |-> dir[f]]
    /\ DOMAIN dir \subseteq {PubFile} \cup Nat
    /\ gpc \in {"off", "remove", "open", "flush"}
    /\ OneGeneration
    /\ gpc \in {"open", "flush"} =>
           \A f \in DOMAIN dir : dir[f] \in {<<>>, Lines(poly, f)}
    /\ gpc = "open" => DOMAIN dir \subseteq Before(file)
    /\ gpc = "flush" =>
           /\ DOMAIN dir \subseteq Before(file) \cup {file}
           /\ file \in DOMAIN dir
           /\ dir[file] = <<>>

\* What a process has read so far is what the directory holds, as long as no
\* generator has run since it started.
InstInv ==
    /\ ipc \in [Instances -> {"off", "pub", "pri", "up", "failed"}]
    /\ pub = [i \in Instances |-> pub[i]]
    /\ pri = [i \in Instances |-> pri[i]]
    /\ calm \in [Instances -> BOOLEAN]
    /\ \A i \in Instances : calm[i] =>
           /\ ipc[i] \in {"pub", "pri"} => gpc = "off"
           /\ ipc[i] = "pri" => pub[i] = LinesOf(PubFile) /\ LinesFit(pub[i])
    /\ LoadedKeysMatch

KInv == DirInv /\ InstInv

USE KeyFilesAssumption

\* The lines of a file are a sequence, so appending them to an empty file gives
\* just them.
LEMMA AppendToEmpty ==
    ASSUME NEW p \in Polys, NEW f
    PROVE  <<>> \o Lines(p, f) = Lines(p, f)
<1>1. CASE f = PubFile
    <2>1. p \in Seq(0..(P - 1))
        OBVIOUS
    <2> QED  BY <1>1, <2>1 DEF Lines
<1>2. CASE f # PubFile
    <2>1. <<Eval(p, f)>> \in Seq({Eval(p, f)})
        OBVIOUS
    <2> QED  BY <1>2, <2>1 DEF Lines
<1> QED  BY <1>1, <1>2

LEMMA KInit == Init => KInv
<1> SUFFICES ASSUME Init PROVE KInv
    OBVIOUS
<1>1. poly \in Polys
    BY DEF Init
<1>2. DOMAIN dir = {} /\ dir = [f \in DOMAIN dir |-> dir[f]]
    BY DEF Init, EmptyMap
<1>3. OneGeneration
    BY <1>1, <1>2 DEF OneGeneration
<1>4. DirInv
    BY <1>1, <1>2, <1>3 DEF DirInv, Init
<1>5. Up = {}
    BY DEF Up, Init
<1>6. InstInv
    BY <1>5 DEF InstInv, Init, LoadedKeysMatch
<1> QED  BY <1>4, <1>6 DEF KInv

-------------------------------------------------------------------------------
(***************************************************************************)
(* The directory.                                                          *)
(***************************************************************************)
LEMMA StartGeneratorDir == ASSUME DirInv, StartGenerator PROVE DirInv'
BY DEF DirInv, StartGenerator, OneGeneration, Lines

LEMMA RemoveFileDir ==
    ASSUME DirInv, NEW g \in Files, RemoveFile(g)
    PROVE  DirInv'
<1>1. gpc = "remove" /\ gpc' = "remove" /\ poly' = poly /\ file' = file
    BY DEF RemoveFile
<1>2. DOMAIN dir' = DOMAIN dir \ {g} /\ \A f \in DOMAIN dir' : dir'[f] = dir[f]
    BY DEF RemoveFile
<1>3. dir' = [f \in DOMAIN dir' |-> dir'[f]]
    BY <1>2 DEF RemoveFile
<1>4. OneGeneration'
    BY <1>2 DEF DirInv, OneGeneration, Lines
<1> QED  BY <1>1, <1>2, <1>3, <1>4 DEF DirInv

LEMMA MakeDirDir == ASSUME DirInv, MakeDir PROVE DirInv'
BY DEF DirInv, MakeDir, Removed, OneGeneration, Before, Lines

LEMMA OpenFileDir == ASSUME DirInv, OpenFile PROVE DirInv'
<1>1. gpc = "open" /\ gpc' = "flush" /\ poly' = poly /\ file' = file
    BY DEF OpenFile
<1>2. file \notin DOMAIN dir
    BY <1>1 DEF DirInv, Before
<1>3. dir' = [f \in DOMAIN dir \cup {file} |-> IF f = file THEN <<>> ELSE dir[f]]
    BY <1>2 DEF OpenFile, Put
<1>4. \A f \in DOMAIN dir' : dir'[f] \in {<<>>, Lines(poly, f)}
    BY <1>1, <1>3 DEF DirInv
<1>5. OneGeneration'
    BY <1>1, <1>4 DEF DirInv, OneGeneration, Lines
<1> QED  BY <1>1, <1>3, <1>4, <1>5 DEF DirInv, Before, Lines

LEMMA FlushFileDir == ASSUME DirInv, FlushFile PROVE DirInv'
<1>1. gpc = "flush" /\ poly' = poly
    BY DEF FlushFile
<1>2. dir' = [f \in DOMAIN dir |-> IF f = file THEN Lines(poly, file) ELSE dir[f]]
    <2>1. file \in DOMAIN dir /\ dir[file] = <<>> /\ poly \in Polys
        BY <1>1 DEF DirInv
    <2>2. dir[file] \o Lines(poly, file) = Lines(poly, file)
        BY <2>1, AppendToEmpty
    <2>3. dir' = Put(dir, file, Lines(poly, file))
        BY <2>2 DEF FlushFile
    <2>4. DOMAIN dir \cup {file} = DOMAIN dir
        BY <2>1
    <2> QED  BY <2>3, <2>4 DEF Put
<1>3. \A f \in DOMAIN dir' : dir'[f] \in {<<>>, Lines(poly, f)}
    BY <1>1, <1>2 DEF DirInv
<1>4. OneGeneration'
    BY <1>1, <1>3 DEF DirInv, OneGeneration, Lines
<1>5. gpc' \in {"off", "open"} /\ file' \in {PubFile} \cup Nat
    BY DEF FlushFile, NextFile, DirInv
<1>6. gpc' = "open" => DOMAIN dir' \subseteq Before(file')
    BY <1>1, <1>2 DEF FlushFile, NextFile, DirInv, Before
<1> QED  BY <1>1, <1>2, <1>3, <1>4, <1>5, <1>6 DEF DirInv, Lines

-------------------------------------------------------------------------------
(***************************************************************************)
(* The processes.                                                          *)
(***************************************************************************)

\* A step of the generator touches no process that is still calm and loading.
LEMMA GeneratorInst ==
    ASSUME InstInv, gpc # "off", UNCHANGED instVars
    PROVE  InstInv'
<1>1. \A i \in Instances : calm[i] => ipc[i] \notin {"pub", "pri"}
    BY DEF InstInv
<1> QED  BY <1>1 DEF InstInv, instVars, LoadedKeysMatch, Up

LEMMA StartGeneratorInst == ASSUME InstInv, StartGenerator PROVE InstInv'
BY DEF InstInv, StartGenerator, LoadedKeysMatch, Up

LEMMA StartInst ==
    ASSUME InstInv, NEW j \in Instances, Start(j)
    PROVE  InstInv'
BY DEF InstInv, Start, genVars, LoadedKeysMatch, Up, LinesOf, LinesFit

LEMMA FetchPubInst ==
    ASSUME InstInv, NEW j \in Instances, FetchPubPoly(j)
    PROVE  InstInv'
<1>1. CASE LinesFit(LinesOf(PubFile))
    BY <1>1 DEF InstInv, FetchPubPoly, genVars, LoadedKeysMatch, Up, LinesOf, LinesFit
<1>2. CASE ~LinesFit(LinesOf(PubFile))
    BY <1>2 DEF InstInv, FetchPubPoly, genVars, LoadedKeysMatch, Up, LinesOf, LinesFit
<1> QED  BY <1>1, <1>2

\* The share a calm process reads is one of the polynomial it has read.
LEMMA FetchedShareFits ==
    ASSUME KInv, NEW j \in Instances, calm[j], ipc[j] = "pri", Len(LinesOf(j)) = 1
    PROVE  LinesOf(j)[1] = Eval(pub[j], j) /\ Len(pub[j]) = Thresh
<1>1. pub[j] = LinesOf(PubFile) /\ Len(pub[j]) = Thresh /\ Thresh # 0
    BY DEF KInv, InstInv, LinesFit
<1>2. PICK p \in Polys : \A f \in DOMAIN dir : dir[f] \in {<<>>, Lines(p, f)}
    BY DEF KInv, DirInv, OneGeneration
<1>3. Len(<<>>) = 0
    OBVIOUS
<1>4. LinesOf(PubFile) = p
    BY <1>1, <1>2, <1>3 DEF LinesOf, Lines
<1>5. LinesOf(j) = <<Eval(p, j)>>
    <2>1. j # PubFile
        OBVIOUS
    <2>2. ASSUME LinesOf(j) = <<>> PROVE FALSE
        <3>1. Len(LinesOf(j)) = Len(<<>>)
            BY <2>2
        <3> QED  BY <3>1, <1>3
    <2>3. j \in DOMAIN dir /\ LinesOf(j) = dir[j]
        BY <2>2 DEF LinesOf
    <2> QED  BY <1>2, <2>1, <2>2, <2>3 DEF Lines
<1> QED  BY <1>1, <1>4, <1>5

LEMMA FetchPriInst ==
    ASSUME KInv, NEW j \in Instances, FetchPriShare(j)
    PROVE  InstInv'
<1>1. CASE Len(LinesOf(j)) = 1
    <2>1. /\ pri' = [pri EXCEPT ![j] = [I |-> j, V |-> LinesOf(j)[1]]]
          /\ ipc' = [ipc EXCEPT ![j] = "up"]
          /\ UNCHANGED <<dir, gpc, pub, calm>>
          /\ ipc[j] = "pri"
        BY <1>1 DEF FetchPriShare, ShareOf, genVars
    <2>2. calm[j] => LinesOf(j)[1] = Eval(pub[j], j) /\ Len(pub[j]) = Thresh
        BY <1>1, <2>1, FetchedShareFits
    <2>3. LoadedKeysMatch'
        BY <2>1, <2>2 DEF KInv, InstInv, LoadedKeysMatch, Up
    <2> QED  BY <2>1, <2>3 DEF KInv, InstInv, LinesOf, LinesFit
<1>2. CASE Len(LinesOf(j)) # 1
    BY <1>2 DEF KInv, InstInv, FetchPriShare, genVars, LoadedKeysMatch, Up, LinesOf, LinesFit
<1> QED  BY <1>1, <1>2

LEMMA StopInst ==
    ASSUME InstInv, NEW j \in Instances, Stop(j)
    PROVE  InstInv'
BY DEF InstInv, Stop, genVars, LoadedKeysMatch, Up, LinesOf, LinesFit

-------------------------------------------------------------------------------
LEMMA UnchangedDir == ASSUME DirInv, UNCHANGED genVars PROVE DirInv'
BY DEF DirInv, genVars, OneGeneration, Lines, Before

LEMMA KStep == KInv /\ [Next]_vars => KInv'
<1> SUFFICES ASSUME KInv, [Next]_vars PROVE KInv'
    OBVIOUS
<1> USE DEF KInv
<1>1. CASE StartGenerator
    BY <1>1, StartGeneratorDir, StartGeneratorInst
<1>2. CASE Generator
    <2>1. gpc # "off" /\ UNCHANGED instVars
        BY <1>2 DEF Generator, RemoveFile, MakeDir, OpenFile, FlushFile
    <2>2. DirInv'
        BY <1>2, RemoveFileDir, MakeDirDir, OpenFileDir, FlushFileDir DEF Generator
    <2> QED  BY <2>1, <2>2, GeneratorInst
<1>3. CASE GeneratorDies
    <2>1. DirInv'
        BY <1>3 DEF GeneratorDies, DirInv, OneGeneration, Lines
    <2> QED  BY <1>3, <2>1, GeneratorInst DEF GeneratorDies
<1>4. CASE \E i \in Instances : Start(i) \/ FetchKeys(i) \/ Stop(i)
    <2>1. UNCHANGED genVars
        BY <1>4 DEF Start, FetchKeys, FetchPubPoly, FetchPriShare, Stop
    <2>2. InstInv'
        BY <1>4, StartInst, FetchPubInst, FetchPriInst, StopInst DEF FetchKeys
    <2> QED  BY <2>1, <2>2, UnchangedDir
<1>5. CASE UNCHANGED vars
    <2>1. UNCHANGED <<genVars, instVars>>
        BY <1>5 DEF vars
    <2>2. InstInv'
        BY <2>1 DEF InstInv, genVars, instVars, LoadedKeysMatch, Up, LinesOf, LinesFit
    <2> QED  BY <2>1, <2>2, UnchangedDir
<1> QED  BY <1>1, <1>2, <1>3, <1>4, <1>5 DEF Next

-------------------------------------------------------------------------------
(***************************************************************************)
(* Types.  A share is a scalar, and a process that has read its share has  *)
(* read a polynomial of the length its Threshold needs before.             *)
(***************************************************************************)
KeyTypes ==
    /\ IsMap(dir, Files, Seq(Scalars))
    /\ n \in 1..MaxServers
    /\ file \in Files
    /\ gpc \in {"open", "flush"} => file = PubFile \/ file \in 0..(n - 1)
    /\ drawn \subseteq Polys

LoadedTypes ==
    /\ pub \in [Instances -> Seq(Scalars)]
    /\ pri \in [Instances -> [I : Nat, V : Scalars]]
    /\ \A i \in Instances :
           /\ ipc[i] \in {"pri", "up"} => Len(pub[i]) = Thresh
           /\ ipc[i] = "up" => pri[i].I = i

\* A value of a polynomial is a scalar.
LEMMA EvalIsScalar ==
    ASSUME NEW p \in Seq(Scalars), NEW I \in Nat
    PROVE  Eval(p, I) \in Scalars
<1> DEFINE len == Len(p)
           F == [x \in (0..(len - 1)) \X Scalars |->
                    (x[2] * (I + 1) + p[len - (x[1] + 1) + 1]) % P]
           Horner(g) == [k \in 0..len |->
                            IF k = 0 THEN 0 ELSE (g[k - 1] * (I + 1) + p[len - k + 1]) % P]
           acc == CHOOSE g : g = Horner(g)
<1>1. P \in Nat /\ P > 0 /\ len \in Nat /\ 0 \in Scalars
    <2>1. P \in Nat /\ MaxServers \in 1..(P - 1)
        OBVIOUS
    <2> QED  BY <2>1 DEF Scalars
<1>2. \A x \in Int : x % P \in Scalars
    BY <1>1 DEF Scalars
<1>3. ASSUME NEW k \in 0..(len - 1), NEW v \in Scalars
      PROVE  F[<<k, v>>] = (v * (I + 1) + p[len - (k + 1) + 1]) % P /\ F[<<k, v>>] \in Scalars
    <2>1. len - (k + 1) + 1 \in 1..len
        BY <1>1
    <2>2. p[len - (k + 1) + 1] \in Int /\ v \in Int
        BY <2>1, <1>1 DEF Scalars
    <2>3. v * (I + 1) \in Int
        BY <2>2
    <2>4. v * (I + 1) + p[len - (k + 1) + 1] \in Int
        BY <2>2, <2>3
    <2>5. F[<<k, v>>] = (v * (I + 1) + p[len - (k + 1) + 1]) % P
        OBVIOUS
    <2> QED  BY <2>4, <2>5, <1>2
<1>4. PICK g \in [0..len -> Scalars] :
          FollowsTo(len, 0, F, g)
    <2>1. StaysIn(len, Scalars, F)
        BY <1>3 DEF StaysIn
    <2>2. len \in Nat /\ 0 \in Scalars
        BY <1>1
    <2> HIDE DEF F, len, Horner, acc
    <2> QED  BY <2>1, <2>2, RecursionTo
<1>5. ASSUME NEW k \in 0..len, k # 0
      PROVE  g[k] = (g[k - 1] * (I + 1) + p[len - k + 1]) % P
    <2>1. k - 1 \in 0..(len - 1) /\ (k - 1) + 1 = k /\ k - 1 \in 0..len
        BY <1>1, <1>5
    <2>2. g[k - 1] \in Scalars
        BY <2>1
    <2> HIDE DEF F
    <2> QED  BY <2>1, <2>2, <1>3, <1>4 DEF FollowsTo
<1>6. g = Horner(g)
    <2> HIDE DEF len, F
    <2> QED  BY <1>4, <1>5 DEF FollowsTo
<1>7. acc = Horner(acc)
    <2> HIDE DEF Horner
    <2> QED  BY <1>6
<1>8. 0..len \subseteq {k \in 0..len : acc[k] \in Scalars}
    <2> DEFINE G == {k \in 0..len : acc[k] \in Scalars}
    <2>1. acc[0] = 0 /\ \A k \in 0..len : k # 0 =>
              acc[k] = (acc[k - 1] * (I + 1) + p[len - k + 1]) % P
        <3> HIDE DEF acc, len
        <3>1. \A k \in 0..len :
                  acc[k] = IF k = 0 THEN 0 ELSE (acc[k - 1] * (I + 1) + p[len - k + 1]) % P
            BY <1>7, Zenon
        <3>2. 0 \in 0..len
            BY <1>1
        <3> QED  BY <3>1, <3>2
    <2> HIDE DEF acc
    <2>2. 0 \in G
        BY <1>1, <2>1
    <2>3. ASSUME NEW k \in 0..(len - 1), k \in G PROVE k + 1 \in G
        <3>1. k + 1 \in 0..len /\ k + 1 # 0 /\ (k + 1) - 1 = k
            BY <1>1
        <3>2. acc[k + 1] = F[<<k, acc[k]>>]
            BY <1>3, <2>1, <2>3, <3>1
        <3> HIDE DEF F
        <3> QED  BY <1>3, <2>3, <3>1, <3>2
    <2> HIDE DEF G
    <2>4. 0..len \subseteq G
        BY <1>1, <2>2, <2>3, InductionTo
    <2> QED  BY <2>4 DEF G
<1>9. Eval(p, I) = acc[len]
    BY DEF Eval
<1>10. len \in 0..len
    BY <1>1
<1> HIDE DEF acc, len
<1> QED  BY <1>8, <1>9, <1>10

LEMMA LinesType ==
    ASSUME NEW p \in Polys, NEW f \in Files
    PROVE  Lines(p, f) \in Seq(Scalars)
<1>1. p \in Seq(Scalars)
    BY DEF Scalars
<1>2. CASE f = PubFile
    BY <1>1, <1>2 DEF Lines
<1>3. CASE f # PubFile
    <2>1. f \in Nat
        BY <1>3 DEF Files
    <2>2. Eval(p, f) \in Scalars
        BY <1>1, <2>1, EvalIsScalar
    <2> QED  BY <1>3, <2>2 DEF Lines
<1> QED  BY <1>2, <1>3

LEMMA KeyTypesInit == Init => KeyTypes /\ LoadedTypes
<1> SUFFICES ASSUME Init PROVE KeyTypes /\ LoadedTypes
    OBVIOUS
<1>1. KeyTypes
    BY DEF Init, KeyTypes, EmptyMap, IsMap, Files
<1>2. NoShare \in [I : Nat, V : Scalars]
    <2>1. MaxServers \in 1..(P - 1) /\ P \in Nat
        OBVIOUS
    <2> QED  BY <2>1 DEF NoShare, Scalars
<1>3. <<>> \in Seq(Scalars)
    OBVIOUS
<1> QED  BY <1>1, <1>2, <1>3 DEF Init, LoadedTypes

LEMMA KeyTypesStep ==
    ASSUME KInv, KeyTypes, [Next]_vars
    PROVE  KeyTypes'
<1>1. CASE StartGenerator
    BY <1>1 DEF StartGenerator, KeyTypes
<1>2. ASSUME NEW f \in Files, RemoveFile(f) PROVE KeyTypes'
    <2>1. IsMap(dir', Files, Seq(Scalars))
        BY <1>2 DEF RemoveFile, KeyTypes, IsMap
    <2> QED  BY <1>2, <2>1 DEF RemoveFile, KeyTypes
<1>3. CASE MakeDir
    BY <1>3 DEF MakeDir, KeyTypes, Files
<1>4. CASE OpenFile
    <2>1. <<>> \in Seq(Scalars)
        OBVIOUS
    <2>2. IsMap(dir', Files, Seq(Scalars))
        BY <1>4, <2>1 DEF OpenFile, Put, KeyTypes, IsMap
    <2> QED  BY <1>4, <2>2 DEF OpenFile, KeyTypes
<1>5. CASE FlushFile
    <2>1. /\ gpc = "flush" /\ file \in DOMAIN dir /\ poly \in Polys /\ file \in Files
          /\ (file = PubFile \/ file \in 0..(n - 1)) /\ n \in 1..MaxServers
        BY <1>5 DEF FlushFile, KInv, DirInv, KeyTypes
    <2>2. PICK lines \in Seq(Scalars) : lines = dir[file] \o Lines(poly, file)
        <3>1. PICK old \in Seq(Scalars) : old = dir[file]
            BY <2>1 DEF KeyTypes, IsMap
        <3>2. PICK new \in Seq(Scalars) : new = Lines(poly, file)
            BY <2>1, LinesType
        <3>3. old \o new \in Seq(Scalars)
            OBVIOUS
        <3> QED  BY <3>1, <3>2, <3>3
    <2>3. IsMap(dir', Files, Seq(Scalars))
        BY <1>5, <2>1, <2>2 DEF FlushFile, Put, KeyTypes, IsMap
    <2>4. /\ file' \in Files
          /\ gpc' \in {"open", "flush"} => file' = PubFile \/ file' \in 0..(n - 1)
        BY <1>5, <2>1 DEF FlushFile, LastFile, NextFile, Files
    <2> QED  BY <1>5, <2>3, <2>4 DEF FlushFile, KeyTypes
<1>6. CASE GeneratorDies
    BY <1>6 DEF GeneratorDies, KeyTypes
<1>7. ASSUME NEW i \in Instances, Start(i) \/ FetchKeys(i) \/ Stop(i) PROVE KeyTypes'
    BY <1>7 DEF Start, FetchKeys, FetchPubPoly, FetchPriShare, Stop, genVars, KeyTypes
<1>8. CASE UNCHANGED vars
    BY <1>8 DEF vars, genVars, KeyTypes
<1> QED
    BY <1>1, <1>2, <1>3, <1>4, <1>5, <1>6, <1>7, <1>8 DEF Next, Generator

LEMMA LoadedTypesStep ==
    ASSUME KInv, KeyTypes, LoadedTypes, [Next]_vars
    PROVE  LoadedTypes'
<1>1. \A f : LinesOf(f) \in Seq(Scalars)
    <2>1. <<>> \in Seq(Scalars)
        OBVIOUS
    <2> QED  BY <2>1 DEF LinesOf, KeyTypes, IsMap
<1>2. ASSUME NEW i \in Instances, Start(i) PROVE LoadedTypes'
    BY <1>2 DEF Start, LoadedTypes, KInv, InstInv
<1>3. ASSUME NEW i \in Instances, FetchPubPoly(i) PROVE LoadedTypes'
    <2>1. CASE LinesFit(LinesOf(PubFile))
        <3>1. PICK lines \in Seq(Scalars) : lines = LinesOf(PubFile) /\ Len(lines) = Thresh
            BY <1>1, <2>1 DEF LinesFit
        <3>2. /\ pub' = [pub EXCEPT ![i] = lines] /\ ipc' = [ipc EXCEPT ![i] = "pri"]
              /\ UNCHANGED pri
            BY <1>3, <2>1, <3>1 DEF FetchPubPoly
        <3> QED  BY <3>1, <3>2 DEF LoadedTypes, KInv, InstInv
    <2>2. CASE ~LinesFit(LinesOf(PubFile))
        BY <1>3, <2>2 DEF FetchPubPoly, LoadedTypes, KInv, InstInv
    <2> QED  BY <2>1, <2>2
<1>4. ASSUME NEW i \in Instances, FetchPriShare(i) PROVE LoadedTypes'
    <2>1. CASE Len(LinesOf(i)) = 1
        <3>1. PICK line \in Scalars : line = LinesOf(i)[1]
            <4>1. PICK lines \in Seq(Scalars) : lines = LinesOf(i)
                BY <1>1
            <4>2. Len(lines) = 1
                BY <2>1, <4>1
            <4>3. lines[1] \in Scalars
                <5>1. lines \in [1..Len(lines) -> Scalars]
                    OBVIOUS
                <5> QED  BY <4>2, <5>1
            <4> QED  BY <4>1, <4>3
        <3>2. PICK share \in [I : Nat, V : Scalars] : share = [I |-> i, V |-> line]
            OBVIOUS
        <3>3. /\ pri' = [pri EXCEPT ![i] = share] /\ ipc' = [ipc EXCEPT ![i] = "up"]
              /\ UNCHANGED pub /\ ipc[i] = "pri"
            BY <1>4, <2>1, <3>1, <3>2 DEF FetchPriShare, ShareOf
        <3> QED  BY <3>2, <3>3 DEF LoadedTypes, KInv, InstInv
    <2>2. CASE Len(LinesOf(i)) # 1
        BY <1>4, <2>2 DEF FetchPriShare, LoadedTypes, KInv, InstInv
    <2> QED  BY <2>1, <2>2
<1>5. ASSUME NEW i \in Instances, Stop(i) PROVE LoadedTypes'
    <2>1. <<>> \in Seq(Scalars)
        OBVIOUS
    <2>2. NoShare \in [I : Nat, V : Scalars]
        <3>1. MaxServers \in 1..(P - 1) /\ P \in Nat
            OBVIOUS
        <3> QED  BY <3>1 DEF NoShare, Scalars
    <2> QED  BY <1>5, <2>1, <2>2 DEF Stop, LoadedTypes, KInv, InstInv
<1>6. CASE StartGenerator \/ Generator \/ GeneratorDies
    BY <1>6 DEF StartGenerator, Generator, RemoveFile, MakeDir, OpenFile, FlushFile,
                GeneratorDies, instVars, LoadedTypes
<1>7. CASE UNCHANGED vars
    BY <1>7 DEF vars, instVars, LoadedTypes
<1> QED
    BY <1>2, <1>3, <1>4, <1>5, <1>6, <1>7 DEF Next, FetchKeys

-------------------------------------------------------------------------------
(***************************************************************************)
(* The signatures.                                                         *)
(***************************************************************************)

\* Shares of Threshold processes that verify against one polynomial give its value
\* at 0, which is what a signature is verified with.
LEMMA Recovered ==
    ASSUME InterpolatesShares(Thresh, Instances),
           NEW S \in SUBSET Instances, Cardinality(S) = Thresh,
           NEW p \in Seq(Scalars), Len(p) = Thresh,
           \A j \in S : PenSign(j).i = j /\ PenSign(j).v = Eval(p, j)
    PROVE  /\ {s.i : s \in {PenSign(j) : j \in S}} = S
           /\ PenRecovery({PenSign(j) : j \in S}) = p[1]
<1> DEFINE shares == {PenSign(j) : j \in S}
<1>1. {s.i : s \in shares} = S
    <2>1. \A j \in S : PenSign(j) \in shares /\ PenSign(j).i = j
        OBVIOUS
    <2>2. \A s \in shares : s.i \in S
        OBVIOUS
    <2> HIDE DEF shares
    <2> QED  BY <2>1, <2>2
<1>2. \A j \in S : (CHOOSE s \in shares : s.i = j).v = Eval(p, j)
    <2> TAKE j \in S
    <2>1. PenSign(j) \in shares /\ PenSign(j).i = j
        OBVIOUS
    <2>2. \A s \in shares : s.i = j => s = PenSign(j)
        OBVIOUS
    <2>3. (CHOOSE s \in shares : s.i = j) = PenSign(j)
        <3> HIDE DEF shares
        <3> QED  BY <2>1, <2>2
    <2> QED  BY <2>3
<1>3. PenRecovery(shares) = Interpolate([I \in S |-> Eval(p, I)])
    <2>1. [k \in {s.i : s \in shares} |-> (CHOOSE s \in shares : s.i = k).v]
              = [I \in S |-> Eval(p, I)]
        <3> DEFINE values == [k \in {s.i : s \in shares} |-> (CHOOSE s \in shares : s.i = k).v]
        <3> HIDE DEF shares
        <3>1. values = [k \in DOMAIN values |-> values[k]] /\ DOMAIN values = S
            BY <1>1
        <3>2. \A k \in S : values[k] = Eval(p, k)
            BY <1>1, <1>2
        <3> HIDE DEF values
        <3>3. values = [I \in S |-> Eval(p, I)]
            BY <3>1, <3>2
        <3> QED  BY <3>3 DEF values
    <2> QED  BY <2>1 DEF PenRecovery
<1>4. p \in [1..Thresh -> 0..(P - 1)] /\ S \in kSubset(Thresh, Instances)
    BY DEF Scalars, kSubset
<1> QED  BY <1>1, <1>3, <1>4 DEF InterpolatesShares

LEMMA KInvSigns ==
    ASSUME InterpolatesShares(Thresh, Instances), KInv, LoadedTypes
    PROVE  QuorumsSign
<1> SUFFICES ASSUME NEW i \in Up,
                    NEW S \in kSubset(Thresh, {j \in Up : calm[j] /\ pub[j] = pub[i]})
             PROVE  /\ PenRecovers(i, {PenSign(j) : j \in S})
                    /\ PenVerify(i, PenRecovery({PenSign(j) : j \in S}))
    BY DEF QuorumsSign
<1>1. /\ S \in SUBSET Instances /\ Cardinality(S) = Thresh
      /\ \A j \in S : j \in Up /\ calm[j] /\ pub[j] = pub[i]
    BY DEF kSubset, Up
<1>2. pub[i] \in Seq(Scalars) /\ Len(pub[i]) = Thresh
    BY DEF Up, LoadedTypes
<1>3. \A j \in S : PenSign(j).i = j /\ PenSign(j).v = Eval(pub[i], j)
    <2> TAKE j \in S
    <2>1. pri[j] = [I |-> j, V |-> Eval(pub[j], j)] /\ pub[j] = pub[i]
        BY <1>1 DEF KInv, InstInv, LoadedKeysMatch
    <2>2. pri[j].I = j /\ pri[j].V = Eval(pub[i], j)
        BY <2>1
    <2> QED  BY <2>2 DEF PenSign
<1>4. /\ {s.i : s \in {PenSign(j) : j \in S}} = S
      /\ PenRecovery({PenSign(j) : j \in S}) = pub[i][1]
    BY <1>1, <1>2, <1>3, Recovered
<1>5. \A s \in {PenSign(j) : j \in S} : PenVerifyPartially(i, s)
    BY <1>3 DEF PenVerifyPartially
<1>6. Cardinality({s.i : s \in {PenSign(j) : j \in S}}) >= Thresh
    <2>1. Cardinality({s.i : s \in {PenSign(j) : j \in S}}) = Thresh
        BY <1>1, <1>4, Zenon
    <2>2. Thresh >= Thresh
        OBVIOUS
    <2> QED  BY <2>1, <2>2, Zenon
<1>7. PenVerify(i, PenRecovery({PenSign(j) : j \in S}))
    BY <1>4 DEF PenVerify
<1> QED  BY <1>5, <1>6, <1>7 DEF PenRecovers

LEMMA LoadedVerifies ==
    ASSUME InterpolatesShares(Thresh, Instances), LoadedTypes
    PROVE  RecoveredVerifies
<1> SUFFICES ASSUME NEW i \in Up, NEW S \in kSubset(Thresh, Up),
                    PenRecovers(i, {PenSign(j) : j \in S})
             PROVE  PenVerify(i, PenRecovery({PenSign(j) : j \in S}))
    BY DEF RecoveredVerifies
<1>1. S \in SUBSET Instances /\ Cardinality(S) = Thresh /\ \A j \in S : ipc[j] = "up"
    BY DEF kSubset, Up
<1>2. pub[i] \in Seq(Scalars) /\ Len(pub[i]) = Thresh
    BY DEF Up, LoadedTypes
<1>3. \A j \in S : PenSign(j).i = j
    BY <1>1 DEF PenSign, LoadedTypes
<1>4. \A j \in S : PenSign(j).v = Eval(pub[i], j)
    BY <1>3 DEF PenRecovers, PenVerifyPartially
<1> QED  BY <1>1, <1>2, <1>3, <1>4, Recovered DEF PenVerify

-------------------------------------------------------------------------------
(***************************************************************************)
(* The theorems.                                                           *)
(***************************************************************************)

\* The invariant holds of the generator and of the processes together.
THEOREM KeysInvariance == Spec => []KInv
BY KInit, KStep, PTL DEF Spec

\* However often the generator runs, and wherever it dies, the key directory holds
\* files of one polynomial only (generator.go:69-87).
THEOREM OneGenerationHolds == Spec => []OneGeneration
<1>1. KInv => OneGeneration
    BY DEF KInv, DirInv
<1> QED  BY <1>1, KeysInvariance, PTL

\* A process that starts while no generator runs has a share of the polynomial it
\* verifies with (tsigs.go:23-41).
THEOREM LoadedKeysHold == Spec => []LoadedKeysMatch
<1>1. KInv => LoadedKeysMatch
    BY DEF KInv, InstInv
<1> QED  BY <1>1, KeysInvariance, PTL

LEMMA KeyTypesInvariance == Spec => [](KeyTypes /\ LoadedTypes)
<1>1. KInv /\ KeyTypes /\ LoadedTypes /\ [Next]_vars => KeyTypes' /\ LoadedTypes'
    BY KeyTypesStep, LoadedTypesStep
<1> QED  BY KeyTypesInit, KeysInvariance, <1>1, PTL DEF Spec

\* The files hold scalars, the generator opens no file but those of flag -n, and a
\* process reads a share of its own index (generator.go:69-137, tsigs.go:65-151).
THEOREM KeyTypeCorrect == Spec => []TypeOK
<1>1. KInv /\ KeyTypes /\ LoadedTypes => TypeOK
    BY DEF KInv, DirInv, InstInv, KeyTypes, LoadedTypes, TypeOK
<1> QED  BY <1>1, KeysInvariance, KeyTypesInvariance, PTL

\* Any Threshold processes that read the same polynomial, and a share of it, can sign
\* for each other (tsigs.go:164-183).
THEOREM QuorumsCanSign ==
    InterpolatesShares(Thresh, Instances) => (Spec => []QuorumsSign)
<1> SUFFICES ASSUME InterpolatesShares(Thresh, Instances) PROVE Spec => []QuorumsSign
    OBVIOUS
<1>1. KInv /\ LoadedTypes => QuorumsSign
    BY KInvSigns
<1> QED  BY <1>1, KeysInvariance, KeyTypesInvariance, PTL

\* What a process recovers it also verifies, whatever generations the keys of the
\* others are of (tsigs.go:176-183).
THEOREM RecoveredIsVerified ==
    InterpolatesShares(Thresh, Instances) => (Spec => []RecoveredVerifies)
<1> SUFFICES ASSUME InterpolatesShares(Thresh, Instances) PROVE Spec => []RecoveredVerifies
    OBVIOUS
<1>1. LoadedTypes => RecoveredVerifies
    BY LoadedVerifies
<1> QED  BY <1>1, KeyTypesInvariance, PTL
===============================================================================
