-------------------------------- MODULE CargoDB --------------------------------
(***************************************************************************)
(* The cargo table behind the dashboard.  Flask-SocketIO runs a handler of *)
(* dbapi.py in a thread of its own for each event; the handler calls the   *)
(* methods of CargoDB, each of which opens vguard.db, runs one statement   *)
(* and commits while it holds the one lock.  A method is therefore one     *)
(* step, but a handler is several, and those of other handlers come in     *)
(* between.  Any statement may fail, for instance at a text with a quote,  *)
(* which ends the SQL string it is pasted into, or while the file cannot   *)
(* be written; the methods differ in what they make of it.  Text columns   *)
(* are abstracted to one, addr.                                            *)
(***************************************************************************)
EXTENDS Integers, Sequences, FiniteSets, Functions, GoMaps

CONSTANTS
    Threads,     \* handler threads, each of which handles one event
    Ids,         \* values of column ID
    Amounts,     \* what int() accepts as CargoAmount
    Addrs,       \* values of the text columns
    NotANumber,  \* a CargoAmount that int() rejects
    None,        \* a field that a modify_cargo event leaves alone
    Defaults,    \* the rows that __init__ inserts, a map from ids to rows
    Inputs,      \* the events that clients send
    MaxRestarts  \* bound: restarts of the server

Rows == [amount : Amounts, addr : Addrs]
Events == [op : {"add", "modify", "delete", "query", "query_all"}, id : Ids,
           amount : Amounts \cup {None, NotANumber}, addr : Addrs \cup {None}]

ASSUME CargoAssumption ==
    /\ IsMap(Defaults, Ids, Rows)
    /\ Inputs \subseteq Events
    /\ \A e \in Inputs : e.op = "add" => e.addr # None
    /\ None \notin Amounts /\ None \notin Addrs
    /\ NotANumber \notin Amounts
    /\ MaxRestarts \in Nat

VARIABLES
    cargo,    \* the committed table: ID -> row
    stuck,    \* the lock is held by a thread that has left its method
    event,    \* event[t]: what t was started for
    todo,     \* todo[t]: the methods t has still to call
    row,      \* row[t]: the columns t is going to save
    list,     \* list[t]: the items t sent to the dashboard
    answer,   \* answer[t]: "pending" until t's handler returns, "raised" if it
              \* ends by an exception that it does not catch, unanswered
    restarts,
    stored,   \* history: the ids that have been in the table
    unsaved   \* history: threads that left save_entity with their item not in the table

threadVars == <<event, todo, row, list, answer>>
vars == <<cargo, stuck, threadVars, restarts, stored, unsaved>>

NoEvent == [op |-> "none"]
NoRow == [amount |-> None, addr |-> None]
-------------------------------------------------------------------------------
TypeOK ==
    /\ IsMap(cargo, Ids, Rows)
    /\ stuck \in BOOLEAN
    /\ event \in [Threads -> Inputs \cup {NoEvent}]
    /\ \A t \in Threads :
           /\ todo[t] \in Seq({"save", "query", "delete", "list"})
           /\ row[t] \in [amount : Amounts \cup {None, NotANumber}, addr : Addrs \cup {None}]
           /\ IsMap(list[t], Ids, Rows)
    /\ answer \in [Threads -> {"none", "pending", "success", "error", "raised", "killed"}]
    /\ restarts \in 0..MaxRestarts
    /\ stored \subseteq Ids
    /\ unsaved \subseteq Threads

\* __init__ inserts the default rows in one transaction, which fails as a whole
\* if one of them is there already, or for another reason.
WithDefaults(table) ==
    [id \in DOMAIN table \cup DOMAIN Defaults |->
        IF id \in DOMAIN table THEN table[id] ELSE Defaults[id]]
Initialised(table) ==
    {table} \cup (IF DOMAIN table \cap DOMAIN Defaults = {} THEN {WithDefaults(table)} ELSE {})

Init ==
    /\ cargo \in Initialised(EmptyMap)
    /\ stuck = FALSE
    /\ event = [t \in Threads |-> NoEvent]
    /\ todo = [t \in Threads |-> <<>>]
    /\ row = [t \in Threads |-> NoRow]
    /\ list = [t \in Threads |-> EmptyMap]
    /\ answer = [t \in Threads |-> "none"]
    /\ restarts = 0
    /\ stored = DOMAIN cargo
    /\ unsaved = {}

\* The methods that the handler of an event calls.
StepsListFirst ==
    [add |-> <<"list", "save">>, modify |-> <<"query", "delete", "save">>,
     delete |-> <<"delete", "list">>, query |-> <<"query">>, query_all |-> <<"list">>]
StepsSaveFirst ==
    [add |-> <<"save", "list">>, modify |-> <<"query", "save", "delete">>,
     delete |-> <<"delete", "list">>, query |-> <<"query">>, query_all |-> <<"list">>]
Steps ==
    [add |-> <<"save", "list">>, modify |-> <<"query", "delete", "save">>,
     delete |-> <<"delete", "list">>, query |-> <<"query">>, query_all |-> <<"list">>]

Receive(t, e) ==
    /\ answer[t] = "none"
    /\ event' = [event EXCEPT ![t] = e]
    /\ todo' = [todo EXCEPT ![t] = Steps[e.op]]
    /\ row' = [row EXCEPT ![t] = [amount |-> e.amount, addr |-> e.addr]]
    /\ answer' = [answer EXCEPT ![t] = "pending"]
    /\ UNCHANGED <<cargo, stuck, list, restarts, stored, unsaved>>

\* t is at this method, and gets the lock.
Calls(t, method) ==
    /\ answer[t] = "pending"
    /\ Head(todo[t]) = method
    /\ ~stuck

\* The method returns, having released the lock.
ReturnsLocked(t) ==
    /\ todo' = [todo EXCEPT ![t] = Tail(@)]
    /\ answer' = [answer EXCEPT ![t] = IF Tail(todo[t]) = <<>> THEN "success" ELSE @]
    /\ stuck' = TRUE
Returns(t) ==
    /\ todo' = [todo EXCEPT ![t] = Tail(@)]
    /\ answer' = [answer EXCEPT ![t] = IF Tail(todo[t]) = <<>> THEN "success" ELSE @]
    /\ stuck' = FALSE

\* The method ends by an exception and leaves the lock as it is.  The handler
\* catches ValueError and answers with an error; any other exception ends it.
\* todo[t] still says where.
Leaves(t, how) ==
    /\ answer' = [answer EXCEPT ![t] = how]
    /\ stuck' = TRUE
    /\ UNCHANGED todo
RaisesValueError(t) == Leaves(t, "error")
RaisesOther(t) == Leaves(t, "raised")

\* What an INSERT makes of the table: an id that is in use is not inserted, nor is
\* a row whose statement fails, and neither is an error.
Overwritten(table, id, new) == {Put(table, id, new)}
Inserted(table, id, new) ==
    {table} \cup (IF id \in DOMAIN table THEN {} ELSE {Put(table, id, new)})

\* int() accepts the amount of the row.
AnyAmount(amount) == TRUE
LegalAmount(amount) == amount \in Amounts

\* save_entity.
SaveEntity(t) ==
    /\ Calls(t, "save")
    /\ IF LegalAmount(row[t].amount)
       THEN Returns(t) /\ cargo' \in Inserted(cargo, event[t].id, row[t])
       ELSE RaisesValueError(t) /\ UNCHANGED cargo
    /\ stored' = stored \cup DOMAIN cargo'
    /\ unsaved' = IF event[t].id \in DOMAIN cargo' THEN unsaved ELSE unsaved \cup {t}
    /\ UNCHANGED <<event, row, list, restarts>>

\* query, and what modify_entity makes of its result: the fields of the event
\* replace those of the row.  After a SELECT that fails there is no result to
\* look at, which is not a ValueError.
QueryEntity(t) ==
    LET Pick(new, old) == IF new = None THEN old ELSE new
        e == event[t]
    IN  /\ Calls(t, "query")
        /\ \/ /\ e.id \in DOMAIN cargo
              /\ Returns(t)
              /\ row' = [row EXCEPT ![t] = [amount |-> Pick(e.amount, cargo[e.id].amount),
                                            addr |-> Pick(e.addr, cargo[e.id].addr)]]
           \/ e.id \notin DOMAIN cargo /\ RaisesValueError(t) /\ UNCHANGED row
           \/ RaisesOther(t) /\ UNCHANGED row
        /\ UNCHANGED <<cargo, event, list, restarts, stored, unsaved>>

\* delete_entity: neither an id that is not there nor a DELETE that fails is an
\* error.
DeleteEntity(t) ==
    /\ Calls(t, "delete")
    /\ Returns(t)
    /\ cargo' \in {cargo, Restrict(cargo, DOMAIN cargo \ {event[t].id})}
    /\ UNCHANGED <<event, row, list, restarts, stored, unsaved>>

\* query_all, whose result the handler emits to every dashboard.
QueryAll(t) ==
    /\ Calls(t, "list")
    /\ \/ Returns(t) /\ list' = [list EXCEPT ![t] = cargo]
       \/ RaisesOther(t) /\ UNCHANGED list
    /\ UNCHANGED <<cargo, event, row, restarts, stored, unsaved>>

\* vguard.db cannot be opened.  Only delete_entity opens it before it takes the
\* lock.
ConnectFails(t) ==
    /\ answer[t] = "pending"
    /\ IF Head(todo[t]) = "delete"
       THEN answer' = [answer EXCEPT ![t] = "raised"] /\ UNCHANGED <<todo, stuck>>
       ELSE ~stuck /\ RaisesOther(t)
    /\ UNCHANGED <<cargo, event, row, list, restarts, stored, unsaved>>

\* The server process is restarted: the table is on disk, the lock is not.
Restart ==
    /\ restarts < MaxRestarts
    /\ restarts' = restarts + 1
    /\ answer' = [t \in Threads |-> IF answer[t] = "pending" THEN "killed" ELSE answer[t]]
    /\ stuck' = FALSE
    /\ cargo' \in Initialised(cargo)
    /\ stored' = stored \cup DOMAIN cargo'
    /\ UNCHANGED <<event, todo, row, list, unsaved>>
-------------------------------------------------------------------------------
Handle(t) ==
    \/ SaveEntity(t)
    \/ QueryEntity(t)
    \/ DeleteEntity(t)
    \/ QueryAll(t)
    \/ ConnectFails(t)

Next ==
    \/ \E t \in Threads : Handle(t) \/ \E e \in Inputs : Receive(t, e)
    \/ Restart

\* A thread that can take the lock runs; no thread is overtaken for ever, since
\* each handles one event.
Fairness == \A t \in Threads : WF_vars(Handle(t))

Spec == Init /\ [][Next]_vars
FairSpec == Spec /\ Fairness
-------------------------------------------------------------------------------
(***************************************************************************)
(* Properties.                                                             *)
(***************************************************************************)
Started(op, id) == \E t \in Threads : event[t] # NoEvent /\ event[t].op = op /\ event[t].id = id

\* No handler waits for ever, unless some handler was left by an exception: a
\* ValueError, or one that the handler does not catch and that leaves its own
\* event unanswered (cargodb.py:53-60, 114-129, dbapi.py:33, 50, 71).
WaitsEndUnlessRaised ==
    \A t \in Threads :
        (answer[t] = "pending")
            ~> (answer[t] # "pending" \/ \E u \in Threads : answer[u] \in {"error", "raised"})

\* When two handlers add the same id the first one wins, whatever the order and
\* number of their retries: a row is never changed by an addition
\* (cargodb.py:61-66).
FirstAddWins ==
    [][\A id \in DOMAIN cargo :
           ~Started("modify", id) /\ ~Started("delete", id) =>
               id \in DOMAIN cargo' /\ cargo'[id] = cargo[id]]_vars

\* t has been past its DELETE of this id, and the row was not there after an
\* INSERT of t: that is still to come, was never reached or failed.
Removed(t, id) ==
    /\ event[t] # NoEvent /\ event[t].id = id
    /\ \/ event[t].op = "delete" /\ todo[t] # Steps["delete"]
       \/ event[t].op = "modify" /\ (todo[t] = <<"save">> \/ t \in unsaved)

\* Handlers that modify one item at the same time never lose it between them,
\* although each of them deletes it for a while.  An item that has disappeared was
\* deleted on request, or by one modification that by itself accounts for it: it
\* is on its way to the INSERT, has ended there, by an illegal amount, an exception
\* or a restart, or its INSERT failed (cargodb.py:81-97).
LostItemsAccounted ==
    \A id \in stored \ DOMAIN cargo : \E t \in Threads : Removed(t, id)

\* The list an addition sends to the dashboards has the added item, unless some
\* handler deletes or modifies that very item or the INSERT itself failed
\* (dbapi.py:13-30).
AddedIsListed ==
    \A t \in Threads :
        answer[t] = "success" /\ event[t].op = "add" /\ t \notin unsaved
            /\ ~Started("modify", event[t].id) /\ ~Started("delete", event[t].id) =>
                event[t].id \in DOMAIN list[t]
===============================================================================
