-------------------------------- MODULE Startup --------------------------------
(***************************************************************************)
(* How V-Guard's processes find each other, from the configuration file to *)
(* the first broadcast, and how they end.  The proposer runs one accept    *)
(* loop per message kind (acceptConns) and starts both phases once every   *)
(* loop has counted NumOfConn - 1 connections (runAsProposer).  A          *)
(* validator dials the kinds one after the other (registerDialConn), then  *)
(* starts four receiving loops; the end of its first connection ends it.   *)
(*                                                                         *)
(* A TCP connection exists once the kernel has queued it at a listener,    *)
(* whether or not the accept loop has taken it yet.                        *)
(***************************************************************************)
EXTENDS Integers, Sequences, FiniteSets, GoMaps, Booths

CONSTANTS
    Conf,           \* the rows of the configuration file, row k + 1 for server k
    NOP,            \* message kinds, each with its own connections
    MaxTry,         \* attempts to dial one connection
    Flags,          \* choices of [boo, cmt]: flags -boo and the commit booth's id
    NotAServer,     \* a peer whose address is not in the file
    MaxStrangers,   \* bound: connections of such peers, and listeners that fail
    MaxRestarts     \* bound: validators started again

NumOfConn == Len(Conf)
Phases == 1..NOP
OPA == 1
Servers == 0..(NumOfConn - 1)
Validators == Servers \ {0}

ASSUME StartupAssumption ==
    /\ NumOfConn \in Nat \ {0, 1}
    /\ \A i \in 1..NumOfConn : Conf[i][1] = i - 1
    /\ NOP \in 1..4
    /\ MaxTry \in Nat \ {0}
    /\ MaxStrangers \in Nat
    /\ MaxRestarts \in Nat
    /\ NotAServer \notin Servers
    /\ Flags # {}
    /\ \A f \in Flags : f.boo \in Nat \ {0} /\ f.cmt \in Nat
-------------------------------------------------------------------------------
(***************************************************************************)
(* parseConf.  A row is split at single spaces, so its fields are counted  *)
(* from the left whatever they hold.                                       *)
(***************************************************************************)
ServerInfo(row) ==
    [index |-> row[1], ip |-> row[2], dial |-> [p \in Phases |-> row[7 + p]]]
ServerList == [i \in 1..NumOfConn |-> ServerInfo(Conf[i])]

DialAddresses(info) == {<<info.ip, info.dial[p]>> : p \in Phases}

\* serverIdLookup: a later row takes an address over from an earlier one.
ServersWith(addr) == {i \in 1..NumOfConn : addr \in DialAddresses(ServerList[i])}
Recognised(addr) == ServersWith(addr) # {}
LookUp(addr) == ServerList[Max(ServersWith(addr))].index

\* No address of a server is an address of another one as well: what a file must
\* fulfil for this lookup to find each server under all of its own addresses.
DistinctAddresses ==
    \A i, j \in 1..NumOfConn :
        i # j => DialAddresses(ServerList[i]) \cap DialAddresses(ServerList[j]) = {}

\* The address server v dials from in phase p: its row is found by position.
AddressOf(v, p) == <<ServerList[v + 1].ip, ServerList[v + 1].dial[p]>>
Known(peer, p) == peer \in Validators /\ Recognised(AddressOf(peer, p))
-------------------------------------------------------------------------------
VARIABLES
    \* proposer
    listener,   \* listener[p]: "down", "up", or "closed" once its loop has returned
    backlog,    \* backlog[p]: connections established and not accepted yet
    concierge,  \* concierge[p]: server id -> connection
    connected,  \* connected[p]: connections counted by the loop
    wg,         \* phases that have not counted all of them
    ppc,        \* the proposer's process
    flags,      \* the booth flags, looked at when the booths are made
    booMgr,     \* the booths
    \* validators
    vpc,        \* vpc[v]: "dial", "ready", or "dead"
    phase,      \* phase[v]: the connection being dialled
    tries,      \* tries[v]: failed attempts at it
    dialog,     \* dialog[v]: phases in which v has a connection
    lost,       \* lost[v]: those whose other end has been closed
    inc,        \* inc[v]: incarnation of v
    strangers,  \* unrecognised peers and failed listeners so far
    restarts    \* validators started again so far

acceptVars == <<listener, backlog, concierge, connected, wg>>
proposerVars == <<acceptVars, ppc, flags, booMgr>>
dialVars == <<phase, tries, dialog>>
validatorVars == <<vpc, dialVars, lost, inc>>
vars == <<proposerVars, validatorVars, strangers, restarts>>

Conns == [by : Validators \cup {NotAServer}, inc : 0..MaxRestarts]
Conn(v) == [by |-> v, inc |-> inc[v]]

TypeOK ==
    /\ listener \in [Phases -> {"down", "up", "closed"}]
    /\ backlog \in [Phases -> Seq(Conns)]
    /\ \A p \in Phases : IsMap(concierge[p], Servers, Conns)
    /\ connected \in [Phases -> Nat]
    /\ wg \in 0..NOP
    /\ ppc \in {"waiting", "prepared", "running", "panicked", "exited"}
    /\ flags \in Flags
    /\ \A k \in DOMAIN booMgr : booMgr[k].id \in Nat /\ booMgr[k].members \subseteq Nat
    /\ vpc \in [Validators -> {"dial", "ready", "dead"}]
    /\ phase \in [Validators -> 1..(NOP + 1)]
    /\ tries \in [Validators -> 0..(MaxTry - 1)]
    /\ dialog \in [Validators -> SUBSET Phases]
    /\ lost \in [Validators -> SUBSET Phases]
    /\ inc \in [Validators -> 0..MaxRestarts]
    /\ strangers \in 0..MaxStrangers
    /\ restarts \in 0..MaxRestarts

\* Before and after the booths are made the flags have no influence, so one
\* value stands for all of them until then.
Init ==
    /\ listener = [p \in Phases |-> "down"]
    /\ backlog = [p \in Phases |-> <<>>]
    /\ concierge = [p \in Phases |-> EmptyMap]
    /\ connected = [p \in Phases |-> 0]
    /\ wg = NOP
    /\ ppc = "waiting"
    /\ flags = CHOOSE f \in Flags : TRUE
    /\ booMgr = <<>>
    /\ vpc = [v \in Validators |-> "dial"]
    /\ phase = [v \in Validators |-> OPA]
    /\ tries = [v \in Validators |-> 0]
    /\ dialog = [v \in Validators |-> {}]
    /\ lost = [v \in Validators |-> {}]
    /\ inc = [v \in Validators |-> 0]
    /\ strangers = 0
    /\ restarts = 0
-------------------------------------------------------------------------------
(***************************************************************************)
(* The proposer.                                                           *)
(***************************************************************************)
ProposerUp == ppc \notin {"panicked", "exited"}

\* ListenTCP, which may fail.
Listen(p) ==
    /\ ProposerUp
    /\ listener[p] = "down"
    /\ listener' = [listener EXCEPT ![p] = "up"]
    /\ UNCHANGED <<backlog, concierge, connected, wg, ppc, flags, booMgr, validatorVars,
                   strangers, restarts>>

ListenFails(p) ==
    /\ ProposerUp
    /\ listener[p] = "down"
    /\ strangers < MaxStrangers
    /\ listener' = [listener EXCEPT ![p] = "closed"]
    /\ strangers' = strangers + 1
    /\ UNCHANGED <<backlog, concierge, connected, wg, ppc, flags, booMgr, validatorVars,
                   restarts>>

\* connRegistration stores the connection over an earlier one of the server.
RegisterFirst(conns, sid, c) == IF sid \in DOMAIN conns THEN conns ELSE Put(conns, sid, c)
Register(conns, sid, c) == Put(conns, sid, c)

\* The phase is complete when the count is exactly NumOfConn - 1.
CountsItself(count) == count = NumOfConn
EveryTimeFromThen(count) == count >= NumOfConn - 1
AllConnected(count) == count = NumOfConn - 1

\* Accept and register one connection, and count it; the loop goes on for ever.
AcceptRegistered(p) ==
    LET c == Head(backlog[p])
    IN  /\ listener[p] = "up"
        /\ backlog[p] # <<>>
        /\ Known(c.by, p)
        /\ backlog' = [backlog EXCEPT ![p] = Tail(@)]
        /\ concierge' = [concierge EXCEPT ![p] = Register(@, LookUp(AddressOf(c.by, p)), c)]
        /\ connected' = [connected EXCEPT ![p] = @ + 1]
        /\ wg' = IF AllConnected(connected'[p]) THEN wg - 1 ELSE wg
        /\ UNCHANGED <<listener, ppc, flags, booMgr, validatorVars, strangers, restarts>>

\* An unrecognised connection ends the loop and closes the listener: what it had
\* queued is reset.
AcceptStranger(p) ==
    LET c == Head(backlog[p])
    IN  /\ listener[p] = "up"
        /\ backlog[p] # <<>>
        /\ ~Known(c.by, p)
        /\ listener' = [listener EXCEPT ![p] = "closed"]
        /\ backlog' = [backlog EXCEPT ![p] = <<>>]
        /\ lost' = [v \in Validators |->
               IF \E k \in DOMAIN backlog[p] : backlog[p][k] = Conn(v)
               THEN lost[v] \cup {p} ELSE lost[v]]
        /\ UNCHANGED <<concierge, connected, wg, ppc, flags, booMgr, vpc, dialVars, inc,
                       strangers, restarts>>

\* wg.Wait returns: make the booths and load the request queues.
StartPhases ==
    /\ ppc = "waiting"
    /\ wg = 0
    /\ flags' \in Flags
    /\ booMgr' = PrepareBooths(NumOfConn, flags'.boo)
    /\ ppc' = "prepared"
    /\ UNCHANGED <<acceptVars, validatorVars, strangers, restarts>>

\* The booth with this id exists, and so do the connection slots of its members.
FirstMemberExists(id) ==
    InRange(booMgr, id) /\ BoothAt(booMgr, id).members \cap Servers # {}
Usable(id) == InRange(booMgr, id) /\ BoothAt(booMgr, id).members \subseteq Servers

\* The goroutines of the two phases take the ordering booth, whose id is never
\* changed from 0, and the commit booth; an index out of range ends the process.
FirstBroadcasts ==
    /\ ppc = "prepared"
    /\ IF Usable(0) /\ Usable(flags.cmt)
       THEN ppc' = "running" /\ UNCHANGED <<listener, backlog>>
       ELSE /\ ppc' = "panicked"
            /\ listener' = [p \in Phases |-> "closed"]
            /\ backlog' = [p \in Phases |-> <<>>]
    /\ UNCHANGED <<concierge, connected, wg, flags, booMgr, validatorVars, strangers,
                   restarts>>

\* The consensus loop has waited long enough: main returns.
ProposerExits ==
    /\ ppc = "running"
    /\ ppc' = "exited"
    /\ listener' = [p \in Phases |-> "closed"]
    /\ backlog' = [p \in Phases |-> <<>>]
    /\ UNCHANGED <<concierge, connected, wg, flags, booMgr, validatorVars, strangers,
                   restarts>>

\* A peer connects that is not in the configuration file.
StrangerConnects(p) ==
    /\ listener[p] = "up"
    /\ strangers < MaxStrangers
    /\ backlog' = [backlog EXCEPT ![p] = Append(@, [by |-> NotAServer, inc |-> 0])]
    /\ strangers' = strangers + 1
    /\ UNCHANGED <<listener, concierge, connected, wg, ppc, flags, booMgr, validatorVars,
                   restarts>>
-------------------------------------------------------------------------------
(***************************************************************************)
(* The validators.                                                         *)
(***************************************************************************)
\* DialTCP succeeds: on to the next phase.
Dial(v) ==
    LET p == phase[v]
    IN  /\ vpc[v] = "dial"
        /\ p <= NOP
        /\ listener[p] = "up"
        /\ backlog' = [backlog EXCEPT ![p] = Append(@, Conn(v))]
        /\ dialog' = [dialog EXCEPT ![v] = @ \cup {p}]
        /\ phase' = [phase EXCEPT ![v] = p + 1]
        /\ tries' = [tries EXCEPT ![v] = 0]
        /\ UNCHANGED <<listener, concierge, connected, wg, ppc, flags, booMgr, vpc, lost,
                       inc, strangers, restarts>>

\* DialTCP fails, as there is no listener, or as the local port is still taken by
\* an earlier incarnation.  The last attempt gives the phase up and goes on.
DialFails(v) ==
    LET p == phase[v]
    IN  /\ vpc[v] = "dial"
        /\ p <= NOP
        /\ listener[p] # "up" \/ inc[v] > 0
        /\ IF tries[v] + 1 < MaxTry
           THEN tries' = [tries EXCEPT ![v] = @ + 1] /\ UNCHANGED phase
           ELSE /\ tries' = [tries EXCEPT ![v] = 0]
                /\ phase' = [phase EXCEPT ![v] = p + 1]
        /\ UNCHANGED <<proposerVars, vpc, dialog, lost, inc, strangers, restarts>>

\* Start the receiving loops.  One without a connection decodes from nil, which
\* ends the process.
StartReceiving(v) ==
    /\ vpc[v] = "dial"
    /\ phase[v] = NOP + 1
    /\ vpc' = [vpc EXCEPT ![v] = IF dialog[v] = Phases THEN "ready" ELSE "dead"]
    /\ UNCHANGED <<proposerVars, dialVars, lost, inc, strangers, restarts>>

\* The receiving loop of OPA reads the end of its connection: the process ends.
\* The loops of the other kinds just return.
LosesAnyOPA(v) == OPA \in lost[v]
LosesProposer(v) == OPA \in lost[v] \/ ~ProposerUp

QuitOnEOF(v) ==
    /\ vpc[v] = "ready"
    /\ LosesProposer(v)
    /\ vpc' = [vpc EXCEPT ![v] = "dead"]
    /\ UNCHANGED <<proposerVars, dialVars, lost, inc, strangers, restarts>>

\* A validator's process dies; its connections stay queued or registered.
Kill(v) ==
    /\ vpc[v] # "dead"
    /\ vpc' = [vpc EXCEPT ![v] = "dead"]
    /\ UNCHANGED <<proposerVars, dialVars, lost, inc, strangers, restarts>>

\* It is started again and knows nothing of its earlier life.
Restart(v) ==
    /\ vpc[v] = "dead"
    /\ restarts < MaxRestarts
    /\ vpc' = [vpc EXCEPT ![v] = "dial"]
    /\ phase' = [phase EXCEPT ![v] = OPA]
    /\ tries' = [tries EXCEPT ![v] = 0]
    /\ dialog' = [dialog EXCEPT ![v] = {}]
    /\ lost' = [lost EXCEPT ![v] = {}]
    /\ inc' = [inc EXCEPT ![v] = @ + 1]
    /\ restarts' = restarts + 1
    /\ UNCHANGED <<proposerVars, strangers>>
-------------------------------------------------------------------------------
AcceptConns(p) == Listen(p) \/ AcceptRegistered(p) \/ AcceptStranger(p)
RunAsValidator(v) == Dial(v) \/ DialFails(v) \/ StartReceiving(v) \/ QuitOnEOF(v)
RunAsProposer == StartPhases \/ FirstBroadcasts

Next ==
    \/ \E p \in Phases : AcceptConns(p) \/ ListenFails(p) \/ StrangerConnects(p)
    \/ \E v \in Validators : RunAsValidator(v) \/ Kill(v) \/ Restart(v)
    \/ RunAsProposer
    \/ ProposerExits

\* Goroutines run, queued connections are accepted.  Nobody has to be killed or
\* started again, and the proposer may run for ever.
Fairness ==
    /\ \A p \in Phases : WF_vars(AcceptConns(p))
    /\ \A v \in Validators : WF_vars(RunAsValidator(v))
    /\ WF_vars(RunAsProposer)

Spec == Init /\ [][Next]_vars
FairSpec == Spec /\ Fairness
-------------------------------------------------------------------------------
(***************************************************************************)
(* Properties.                                                             *)
(***************************************************************************)

\* The loops count connections and not servers.  Still, when the phases start, a
\* server can be missing from a phase only if another one was started again
\* before (connsprop.go:82-85, handlers.go:52-61).
MissingNeedsRestart ==
    ppc # "waiting" =>
        \A p \in Phases : Cardinality(DOMAIN concierge[p]) + restarts >= NumOfConn - 1

\* Of several connections of one server the proposer uses that of the process
\* that is alive: one left by an earlier incarnation is never registered over
\* it (handlers.go:43-68).
CurrentConnectionUsed ==
    \A v \in Validators, p \in Phases :
        /\ ProposerUp
        /\ vpc[v] # "dead"
        /\ p \in dialog[v] \ lost[v]
        /\ \A k \in DOMAIN backlog[p] : backlog[p][k] # Conn(v)
        => v \in DOMAIN concierge[p] /\ concierge[p][v] = Conn(v)

\* Broadcasts address a booth by the id it carries, which numbered all the
\* combinations, the discarded ones included; it is the booth's place in the
\* list all the same, and the list is complete (mmu.go:49-77, 93, vordering.go:224).
BoothIdsAreIndices ==
    booMgr # <<>> =>
        /\ \A k \in DOMAIN booMgr : booMgr[k].id = k - 1
        /\ flags.boo <= NumOfConn =>
               {booMgr[k].members : k \in DOMAIN booMgr} = AllBooths(NumOfConn, flags.boo)

\* The proposer panics exactly for booth flags that do not fit the number of
\* servers (mmu.go:42-45, 93-100, vconsensus.go:14-23).
Fits(f) == f.boo <= NumOfConn /\ f.cmt < Cardinality(AllBooths(NumOfConn, f.boo))
PanicsOnlyOnBadFlags ==
    /\ ppc = "panicked" => ~Fits(flags)
    /\ ppc \in {"running", "exited"} => Fits(flags)

\* If no validator ends and no accept loop returns, the phases do start
\* (connsprop.go:11-34).
PhasesStart ==
    <>(\/ ppc # "waiting"
       \/ \E v \in Validators : vpc[v] = "dead"
       \/ \E p \in Phases : listener[p] = "closed")

\* Once the proposer's process has ended, so has every validator's, wherever it
\* was in dialling (connsvldr.go:16-33, 117-122).
ValidatorsFollow ==
    ~ProposerUp ~> (\A v \in Validators : vpc[v] = "dead")
===============================================================================
