----------------------------- MODULE CargoDBProofs -----------------------------
(***************************************************************************)
(* Proofs about the cargo table, for any number of handlers, any rows and  *)
(* events, and any number of restarts.  A handler is several transactions, *)
(* so what the table holds between them depends on how far each handler    *)
(* has got; the invariant says how.                                        *)
(***************************************************************************)
EXTENDS CargoDB, TLAPS

-------------------------------------------------------------------------------
(***************************************************************************)
(* The invariant.                                                          *)
(***************************************************************************)

\* The methods that are left to a handler that has not returned.
Rest(op) ==
    CASE op = "add"    -> {<<"save", "list">>, <<"list">>}
      [] op = "modify" -> {<<"query", "delete", "save">>, <<"delete", "save">>, <<"save">>}
      [] op = "delete" -> {<<"delete", "list">>, <<"list">>}
      [] op = "query"  -> {<<"query">>}
      [] OTHER         -> {<<"list">>}

Handles(t, op, id) == event[t] # NoEvent /\ event[t].op = op /\ event[t].id = id
Ends == {"error", "raised"}

ThreadInv ==
    /\ event = [t \in Threads |-> event[t]]
    /\ todo = [t \in Threads |-> todo[t]]
    /\ answer = [t \in Threads |-> answer[t]]
    /\ list = [t \in Threads |-> list[t]]
    /\ \A t \in Threads :
           /\ answer[t] = "none" => event[t] = NoEvent
           /\ answer[t] # "none" => event[t] \in Events /\ event[t] # NoEvent
           /\ answer[t] = "pending" => todo[t] \in Rest(event[t].op)

HistoryInv ==
    /\ DOMAIN cargo \subseteq stored
    /\ LostItemsAccounted

\* An item is in the table once its addition has saved it, and in the list after that.
Untouched(id) == ~Started("modify", id) /\ ~Started("delete", id)

AddInv ==
    \A t \in Threads :
        event[t] # NoEvent /\ event[t].op = "add" /\ Untouched(event[t].id) /\ t \notin unsaved =>
        /\ answer[t] = "pending" /\ todo[t] = <<"list">> => event[t].id \in DOMAIN cargo
        /\ answer[t] = "success" => event[t].id \in DOMAIN list[t]

CargoInv == ThreadInv /\ HistoryInv /\ AddInv

LEMMA CargoInit == Init => CargoInv
<1> SUFFICES ASSUME Init PROVE CargoInv
    OBVIOUS
<1>1. ThreadInv
    BY DEF Init, ThreadInv
<1>2. HistoryInv
    BY DEF Init, HistoryInv, LostItemsAccounted
<1>3. AddInv
    BY DEF Init, AddInv
<1> QED  BY <1>1, <1>2, <1>3 DEF CargoInv

-------------------------------------------------------------------------------
(***************************************************************************)
(* The steps of a handler.                                                 *)
(***************************************************************************)

\* A method of t: what the handler was at, and what becomes of it.
LEMMA MethodStep ==
    ASSUME ThreadInv, NEW t \in Threads, Handle(t)
    PROVE  /\ UNCHANGED event /\ answer[t] = "pending"
           /\ event[t] \in Events /\ event[t] # NoEvent
           /\ \A u \in Threads \ {t} : todo'[u] = todo[u] /\ answer'[u] = answer[u]
           /\ \/ answer'[t] \in Ends /\ UNCHANGED <<cargo, todo>>
              \/ answer'[t] = "success" /\ Tail(todo[t]) = <<>> /\ todo'[t] = <<>>
              \/ /\ answer'[t] = "pending" /\ Tail(todo[t]) # <<>>
                 /\ todo'[t] = Tail(todo[t])
<1>1. answer[t] = "pending" /\ UNCHANGED event
    BY DEF Handle, SaveEntity, QueryEntity, DeleteEntity, QueryAll, ConnectFails, Calls
<1>2. \/ Returns(t)
      \/ \E how \in Ends :
             answer' = [answer EXCEPT ![t] = how] /\ UNCHANGED <<cargo, todo>>
    BY DEF Handle, SaveEntity, QueryEntity, DeleteEntity, QueryAll, ConnectFails,
           RaisesValueError, RaisesOther, Leaves, Ends
<1>3. \A u \in Threads \ {t} : todo'[u] = todo[u] /\ answer'[u] = answer[u]
    BY <1>2 DEF Returns, ThreadInv
<1>4. CASE Returns(t)
    BY <1>1, <1>3, <1>4 DEF Returns, ThreadInv
<1>5. ASSUME NEW how \in Ends,
             answer' = [answer EXCEPT ![t] = how] /\ UNCHANGED <<cargo, todo>>
      PROVE  answer'[t] \in Ends /\ UNCHANGED <<cargo, todo>>
    BY <1>5 DEF ThreadInv
<1> QED  BY <1>1, <1>2, <1>3, <1>4, <1>5 DEF ThreadInv

\* What is left shrinks from the front.
LEMMA RestSteps ==
    /\ \A rest \in Rest("add") :
           \/ rest = <<"save", "list">> /\ Head(rest) = "save" /\ Tail(rest) = <<"list">>
           \/ rest = <<"list">> /\ Head(rest) = "list" /\ Tail(rest) = <<>>
    /\ \A rest \in Rest("modify") :
           \/ /\ rest = <<"query", "delete", "save">>
              /\ Head(rest) = "query" /\ Tail(rest) = <<"delete", "save">>
           \/ rest = <<"delete", "save">> /\ Head(rest) = "delete" /\ Tail(rest) = <<"save">>
           \/ rest = <<"save">> /\ Head(rest) = "save" /\ Tail(rest) = <<>>
    /\ \A rest \in Rest("delete") :
           \/ rest = <<"delete", "list">> /\ Head(rest) = "delete" /\ Tail(rest) = <<"list">>
           \/ rest = <<"list">> /\ Head(rest) = "list" /\ Tail(rest) = <<>>
    /\ \A rest \in Rest("query") : Head(rest) = "query" /\ Tail(rest) = <<>>
    /\ \A rest \in Rest("query_all") : Head(rest) = "list" /\ Tail(rest) = <<>>
<1>1. /\ Head(<<"save">>) = "save" /\ Tail(<<"save">>) = <<>>
      /\ Head(<<"list">>) = "list" /\ Tail(<<"list">>) = <<>>
      /\ Head(<<"query">>) = "query" /\ Tail(<<"query">>) = <<>>
    OBVIOUS
<1>2. /\ Head(<<"save", "list">>) = "save" /\ Tail(<<"save", "list">>) = <<"list">>
      /\ Head(<<"delete", "list">>) = "delete" /\ Tail(<<"delete", "list">>) = <<"list">>
      /\ Head(<<"delete", "save">>) = "delete" /\ Tail(<<"delete", "save">>) = <<"save">>
    OBVIOUS
<1>3. /\ Head(<<"query", "delete", "save">>) = "query"
      /\ Tail(<<"query", "delete", "save">>) = <<"delete", "save">>
    OBVIOUS
<1> QED  BY <1>1, <1>2, <1>3 DEF Rest

LEMMA FirstSteps == \A e \in Events : Steps[e.op] \in Rest(e.op)
BY DEF Events, Steps, Rest

LEMMA ThreadStep ==
    ASSUME ThreadInv, [Next]_vars
    PROVE  ThreadInv'
<1>1. CASE UNCHANGED vars
    BY <1>1 DEF vars, threadVars, ThreadInv
<1>2. ASSUME NEW t \in Threads, NEW e \in Inputs, Receive(t, e) PROVE ThreadInv'
    <2>1. e \in Events /\ e # NoEvent /\ Steps[e.op] \in Rest(e.op)
        BY CargoAssumption, FirstSteps DEF Events, NoEvent
    <2>2. /\ event' = [event EXCEPT ![t] = e] /\ todo' = [todo EXCEPT ![t] = Steps[e.op]]
          /\ answer' = [answer EXCEPT ![t] = "pending"] /\ UNCHANGED list
        BY <1>2 DEF Receive
    <2> QED  BY <2>1, <2>2 DEF ThreadInv
<1>3. ASSUME NEW t \in Threads, Handle(t) PROVE ThreadInv'
    <2>1. /\ event' = [u \in Threads |-> event'[u]] /\ todo' = [u \in Threads |-> todo'[u]]
          /\ answer' = [u \in Threads |-> answer'[u]] /\ list' = [u \in Threads |-> list'[u]]
        BY <1>3 DEF Handle, SaveEntity, QueryEntity, DeleteEntity, QueryAll, ConnectFails,
                    Returns, RaisesValueError, RaisesOther, Leaves, ThreadInv
    <2>2. /\ UNCHANGED event /\ answer[t] = "pending"
          /\ event[t] \in Events /\ event[t] # NoEvent
          /\ \A u \in Threads \ {t} : todo'[u] = todo[u] /\ answer'[u] = answer[u]
          /\ answer'[t] \in {"error", "raised", "success", "pending"}
          /\ answer'[t] = "pending" => Tail(todo[t]) # <<>> /\ todo'[t] = Tail(todo[t])
        BY <1>3, MethodStep DEF Ends
    <2>3. Tail(todo[t]) # <<>> => Tail(todo[t]) \in Rest(event[t].op)
        <3>1. todo[t] \in Rest(event[t].op)
              /\ event[t].op \in {"add", "modify", "delete", "query", "query_all"}
            BY <2>2 DEF ThreadInv, Events
        <3> QED  BY <3>1, RestSteps DEF Rest
    <2> QED  BY <2>1, <2>2, <2>3 DEF ThreadInv
<1>4. CASE Restart
    BY <1>4 DEF Restart, ThreadInv
<1> QED  BY <1>1, <1>2, <1>3, <1>4 DEF Next

\* Events are not forgotten.
LEMMA StartedStays ==
    ASSUME ThreadInv, [Next]_vars
    PROVE  /\ \A u \in Threads : event[u] # NoEvent => event'[u] = event[u]
           /\ \A op, id : Started(op, id) => Started(op, id)'
<1>1. \A u \in Threads : event[u] # NoEvent => event'[u] = event[u]
    <2>1. CASE UNCHANGED event
        BY <2>1
    <2>2. ASSUME NEW t \in Threads, NEW e \in Inputs, Receive(t, e)
          PROVE  \A u \in Threads : event[u] # NoEvent => event'[u] = event[u]
        BY <2>2 DEF Receive, ThreadInv
    <2>3. ASSUME NEW t \in Threads, Handle(t) PROVE UNCHANGED event
        BY <2>3, MethodStep
    <2> QED  BY <2>1, <2>2, <2>3 DEF Next, Restart, vars, threadVars
<1> QED  BY <1>1 DEF Started

\* What a method does to the table.
Inserts(id) == /\ DOMAIN cargo' = DOMAIN cargo \cup {id}
               /\ \A x \in DOMAIN cargo : cargo'[x] = cargo[x]
Removes(id) == /\ DOMAIN cargo' = DOMAIN cargo \ {id}
               /\ \A x \in DOMAIN cargo' : cargo'[x] = cargo[x]

LEMMA TableStep ==
    ASSUME ThreadInv, NEW t \in Threads, Handle(t)
    PROVE  \/ UNCHANGED cargo
           \/ Head(todo[t]) = "save" /\ Inserts(event[t].id)
           \/ Head(todo[t]) = "delete" /\ Removes(event[t].id) /\ answer'[t] \notin Ends
<1>1. CASE SaveEntity(t)
    <2>1. Head(todo[t]) = "save"
        BY <1>1 DEF SaveEntity, Calls
    <2>2. \/ UNCHANGED cargo
          \/ event[t].id \notin DOMAIN cargo /\ cargo' = Put(cargo, event[t].id, row[t])
        BY <1>1 DEF SaveEntity, Inserted
    <2>3. event[t].id \notin DOMAIN cargo /\ cargo' = Put(cargo, event[t].id, row[t])
              => Inserts(event[t].id)
        BY DEF Put, Inserts
    <2> QED  BY <2>1, <2>2, <2>3
<1>2. CASE DeleteEntity(t)
    <2>1. /\ Head(todo[t]) = "delete" /\ answer[t] = "pending" /\ Returns(t)
          /\ UNCHANGED cargo \/ cargo' = Restrict(cargo, DOMAIN cargo \ {event[t].id})
        BY <1>2 DEF DeleteEntity, Calls
    <2>2. answer'[t] \notin Ends
        BY <2>1 DEF Returns, ThreadInv, Ends
    <2>3. cargo' = Restrict(cargo, DOMAIN cargo \ {event[t].id}) => Removes(event[t].id)
        BY DEF Restrict, Removes
    <2> QED  BY <2>1, <2>2, <2>3
<1>3. CASE QueryEntity(t) \/ QueryAll(t) \/ ConnectFails(t)
    BY <1>3 DEF QueryEntity, QueryAll, ConnectFails
<1> QED  BY <1>1, <1>2, <1>3 DEF Handle

\* What a method leaves in the histories: the save of a handler notes what became
\* of its item, and no other method touches them.
LEMMA HistoryStep ==
    ASSUME ThreadInv, NEW t \in Threads, Handle(t)
    PROVE  /\ unsaved \subseteq unsaved' /\ unsaved' \subseteq unsaved \cup {t}
           /\ stored \subseteq stored' /\ stored' \subseteq stored \cup DOMAIN cargo'
           /\ DOMAIN cargo \subseteq stored => DOMAIN cargo' \subseteq stored'
           /\ Head(todo[t]) = "save" /\ answer'[t] \notin Ends =>
                  event[t].id \in DOMAIN cargo' \/ t \in unsaved'
<1>1. CASE SaveEntity(t)
    BY <1>1 DEF SaveEntity
<1>2. CASE ~SaveEntity(t)
    <2>1. UNCHANGED <<stored, unsaved>>
        BY <1>2 DEF Handle, QueryEntity, DeleteEntity, QueryAll, ConnectFails
    <2>2. Head(todo[t]) = "save" => answer'[t] \in Ends
        BY <1>2, "query" # "save", "delete" # "save", "list" # "save"
           DEF Handle, QueryEntity, DeleteEntity, QueryAll, ConnectFails, Calls,
               RaisesOther, Leaves, ThreadInv, Ends
    <2>3. DOMAIN cargo' \subseteq DOMAIN cargo
        BY <1>2 DEF Handle, QueryEntity, DeleteEntity, QueryAll, ConnectFails, Restrict
    <2> QED  BY <2>1, <2>2, <2>3
<1> QED  BY <1>1, <1>2

\* Only the handlers of a deletion and of a modification delete.
LEMMA Deleters ==
    ASSUME ThreadInv, NEW t \in Threads, Handle(t), Head(todo[t]) = "delete"
    PROVE  \/ Handles(t, "delete", event[t].id)
           \/ Handles(t, "modify", event[t].id) /\ Tail(todo[t]) = <<"save">>
<1>1. /\ event[t] # NoEvent /\ todo[t] \in Rest(event[t].op)
      /\ event[t].op \in {"add", "modify", "delete", "query", "query_all"}
    BY MethodStep DEF ThreadInv, Events
<1>2. "delete" \notin {"save", "list", "query"}
    OBVIOUS
<1> QED  BY <1>1, <1>2, RestSteps DEF Handles

\* A restart adds rows and changes none.
LEMMA RestartKeeps ==
    ASSUME Restart
    PROVE  \A id \in DOMAIN cargo : id \in DOMAIN cargo' /\ cargo'[id] = cargo[id]
<1>1. cargo' = cargo \/ cargo' = WithDefaults(cargo)
    BY DEF Restart, Initialised
<1> QED  BY <1>1 DEF WithDefaults

-------------------------------------------------------------------------------
(***************************************************************************)
(* Items that have disappeared are accounted for.                          *)
(***************************************************************************)

\* Who has removed an item goes on to account for it until the item is back.
LEMMA RemovedStays ==
    ASSUME ThreadInv, [Next]_vars, NEW u \in Threads, NEW id, Removed(u, id)
    PROVE  Removed(u, id)' \/ id \in DOMAIN cargo'
<1>1. event[u] # NoEvent /\ event'[u] = event[u]
    BY StartedStays DEF Removed
<1>2. CASE UNCHANGED todo /\ unsaved \subseteq unsaved'
    BY <1>1, <1>2 DEF Removed
<1>3. ASSUME NEW t \in Threads, NEW e \in Inputs, Receive(t, e)
      PROVE  Removed(u, id)'
    <2>1. t # u /\ todo'[u] = todo[u] /\ UNCHANGED unsaved
        BY <1>1, <1>3 DEF Receive, ThreadInv
    <2> QED  BY <1>1, <2>1 DEF Removed
<1>4. ASSUME NEW t \in Threads \ {u}, Handle(t)
      PROVE  Removed(u, id)'
    BY <1>1, <1>4, MethodStep, HistoryStep DEF Removed
<1>5. ASSUME Handle(u)
      PROVE  Removed(u, id)' \/ id \in DOMAIN cargo'
    <2>1. /\ answer[u] = "pending" /\ todo[u] \in Rest(event[u].op)
          /\ \/ answer'[u] \in Ends /\ UNCHANGED todo
             \/ answer'[u] \notin Ends /\ todo'[u] = <<>>
             \/ answer'[u] \notin Ends /\ todo'[u] = Tail(todo[u])
        BY <1>5, MethodStep DEF ThreadInv, Ends
    <2>2. unsaved \subseteq unsaved'
        BY <1>5, HistoryStep
    <2>3. CASE answer'[u] \in Ends /\ UNCHANGED todo
        BY <1>2, <2>2, <2>3
    <2>4. CASE Handles(u, "delete", id) /\ answer'[u] \notin Ends
        <3>1. todo[u] # <<"delete", "list">> /\ Steps["delete"] = <<"delete", "list">>
            BY <2>4 DEF Removed, Handles, Steps
        <3>2. todo[u] = <<"list">> /\ Tail(todo[u]) = <<>>
            BY <2>1, <2>4, <3>1, RestSteps DEF Handles
        <3>3. todo'[u] = <<>> /\ <<>> # <<"delete", "list">>
            BY <2>1, <2>4, <3>2
        <3> QED  BY <1>1, <2>4, <3>1, <3>3 DEF Removed, Handles, Steps
    <2>5. CASE Handles(u, "modify", id) /\ answer'[u] \notin Ends
        <3>1. CASE u \in unsaved
            BY <1>1, <2>2, <2>5, <3>1 DEF Removed, Handles
        <3>2. CASE u \notin unsaved
            <4>1. todo[u] = <<"save">> /\ Head(todo[u]) = "save"
                BY <2>5, <3>2 DEF Removed, Handles
            <4>2. id \in DOMAIN cargo' \/ u \in unsaved'
                BY <1>5, <2>5, <4>1, HistoryStep DEF Handles
            <4> QED  BY <1>1, <2>5, <4>2 DEF Removed, Handles
        <3> QED  BY <3>1, <3>2
    <2> QED  BY <2>1, <2>3, <2>4, <2>5 DEF Removed, Handles
<1> QED  BY <1>2, <1>3, <1>4, <1>5 DEF Next, Restart, vars, threadVars

\* Who removes an item accounts for it at once.
LEMMA RemoverAccounts ==
    ASSUME ThreadInv, NEW t \in Threads, Handle(t),
           NEW id \in DOMAIN cargo, id \notin DOMAIN cargo'
    PROVE  Removed(t, id)'
<1>1. Head(todo[t]) = "delete" /\ event[t].id = id /\ answer'[t] \notin Ends
    BY TableStep DEF Inserts, Removes
<1>2. /\ UNCHANGED event /\ event[t] # NoEvent /\ todo[t] \in Rest(event[t].op)
      /\ \/ todo'[t] = <<>> /\ Tail(todo[t]) = <<>>
         \/ todo'[t] = Tail(todo[t])
    BY <1>1, MethodStep DEF ThreadInv, Ends
<1>3. CASE Handles(t, "delete", id)
    <2>1. todo'[t] # <<"delete", "list">>
        <3>1. "delete" # "list"
            OBVIOUS
        <3>2. Tail(todo[t]) = <<"list">>
            BY <1>1, <1>2, <1>3, <3>1, RestSteps DEF Handles
        <3>3. todo'[t] = <<"list">>
            <4>1. <<"list">> # <<>>
                OBVIOUS
            <4> QED  BY <1>2, <3>2, <4>1
        <3>4. <<"list">> # <<"delete", "list">>
            OBVIOUS
        <3> QED  BY <3>3, <3>4
    <2> QED  BY <1>2, <1>3, <2>1 DEF Removed, Handles, Steps
<1>4. CASE Handles(t, "modify", id) /\ Tail(todo[t]) = <<"save">>
    BY <1>2, <1>4 DEF Removed, Handles
<1> QED  BY <1>1, <1>3, <1>4, Deleters

LEMMA AccountStep ==
    ASSUME ThreadInv, HistoryInv, [Next]_vars
    PROVE  HistoryInv'
<1>1. /\ DOMAIN cargo' \subseteq stored'
      /\ stored' \subseteq stored \cup DOMAIN cargo'
    <2>1. CASE UNCHANGED <<cargo, stored>> \/ Restart
        BY <2>1 DEF Restart, HistoryInv
    <2>2. ASSUME NEW t \in Threads, Handle(t)
          PROVE  /\ DOMAIN cargo' \subseteq stored'
                 /\ stored' \subseteq stored \cup DOMAIN cargo'
        BY <2>2, HistoryStep DEF HistoryInv
    <2> QED  BY <2>1, <2>2 DEF Next, Receive, vars
<1>2. ASSUME NEW id \in stored' \ DOMAIN cargo'
      PROVE  \E t \in Threads : Removed(t, id)'
    <2>1. id \in stored
        BY <1>1, <1>2
    <2>2. CASE id \notin DOMAIN cargo
        <3>1. PICK u \in Threads : Removed(u, id)
            BY <2>1, <2>2 DEF HistoryInv, LostItemsAccounted
        <3> QED  BY <1>2, <3>1, RemovedStays
    <2>3. CASE id \in DOMAIN cargo
        <3>1. ~UNCHANGED cargo /\ ~Restart
            BY <1>2, <2>3, RestartKeeps
        <3>2. PICK t \in Threads : Handle(t)
            BY <3>1 DEF Next, Receive, vars
        <3> QED  BY <1>2, <2>3, <3>2, RemoverAccounts
    <2> QED  BY <2>2, <2>3
<1> QED  BY <1>1, <1>2 DEF HistoryInv, LostItemsAccounted

-------------------------------------------------------------------------------
(***************************************************************************)
(* Items that are added are listed.                                        *)
(***************************************************************************)

\* An item that no handler deletes or modifies stays as it is.
LEMMA UntouchedStays ==
    ASSUME ThreadInv, [Next]_vars, NEW id \in DOMAIN cargo, Untouched(id)
    PROVE  id \in DOMAIN cargo' /\ cargo'[id] = cargo[id]
<1>1. CASE UNCHANGED cargo
    BY <1>1
<1>2. CASE Restart
    BY <1>2, RestartKeeps
<1>3. ASSUME NEW t \in Threads, Handle(t)
      PROVE  id \in DOMAIN cargo' /\ cargo'[id] = cargo[id]
    <2>1. CASE Inserts(event[t].id)
        BY <2>1 DEF Inserts
    <2>2. CASE Head(todo[t]) = "delete" /\ Removes(event[t].id)
        <3>1. event[t].id # id
            BY <1>3, <2>2, Deleters DEF Untouched, Started, Handles
        <3> QED  BY <2>2, <3>1 DEF Removes
    <2> QED  BY <1>1, <1>3, <2>1, <2>2, TableStep
<1> QED  BY <1>1, <1>2, <1>3 DEF Next, Receive, vars

LEMMA AddStep ==
    ASSUME ThreadInv, AddInv, [Next]_vars
    PROVE  AddInv'
<1> SUFFICES ASSUME NEW t \in Threads, event'[t] # NoEvent, event'[t].op = "add",
                    NEW id, event'[t].id = id, Untouched(id)', t \notin unsaved'
             PROVE  /\ answer'[t] = "pending" /\ todo'[t] = <<"list">> => id \in DOMAIN cargo'
                    /\ answer'[t] = "success" => id \in DOMAIN list'[t]
    BY DEF AddInv, Untouched, Started
<1>1. Untouched(id) /\ t \notin unsaved
    <2>1. unsaved \subseteq unsaved'
        BY HistoryStep DEF Next, Receive, Restart, vars
    <2> QED  BY <2>1, StartedStays DEF Untouched
<1>2. ASSUME event'[t] = event[t], todo'[t] = todo[t], answer'[t] = answer[t],
             list'[t] = list[t]
      PROVE  /\ answer'[t] = "pending" /\ todo'[t] = <<"list">> => id \in DOMAIN cargo'
             /\ answer'[t] = "success" => id \in DOMAIN list'[t]
    BY <1>1, <1>2, UntouchedStays DEF AddInv
<1>3. ASSUME NEW u \in Threads, NEW e \in Inputs, Receive(u, e)
      PROVE  /\ answer'[t] = "pending" /\ todo'[t] = <<"list">> => id \in DOMAIN cargo'
             /\ answer'[t] = "success" => id \in DOMAIN list'[t]
    <2>1. CASE u = t
        <3>1. event'[t] = e /\ todo'[t] = Steps[e.op] /\ answer'[t] = "pending"
            BY <1>3, <2>1 DEF Receive, ThreadInv
        <3>2. Steps["add"] = <<"save", "list">> /\ <<"save", "list">> # <<"list">>
            BY DEF Steps
        <3> QED  BY <3>1, <3>2
    <2>2. CASE u # t
        BY <1>2, <1>3, <2>2 DEF Receive, ThreadInv
    <2> QED  BY <2>1, <2>2
<1>4. CASE Restart
    <2>1. answer'[t] # "pending" /\ (answer'[t] = "success" => answer[t] = "success")
          /\ UNCHANGED <<event, list>>
        BY <1>4 DEF Restart
    <2> QED  BY <1>1, <2>1 DEF AddInv
<1>5. ASSUME NEW u \in Threads \ {t}, Handle(u)
      PROVE  event'[t] = event[t] /\ todo'[t] = todo[t] /\ answer'[t] = answer[t]
             /\ list'[t] = list[t]
    <2>1. event'[t] = event[t] /\ todo'[t] = todo[t] /\ answer'[t] = answer[t]
        BY <1>5, MethodStep
    <2>2. list'[t] = list[t]
        BY <1>5 DEF Handle, SaveEntity, QueryEntity, DeleteEntity, QueryAll, ConnectFails,
                    ThreadInv
    <2> QED  BY <2>1, <2>2
<1>6. CASE Handle(t)
    <2>1. /\ event'[t] = event[t] /\ answer[t] = "pending" /\ todo[t] \in Rest("add")
          /\ \/ answer'[t] \in Ends
             \/ answer'[t] = "success" /\ Tail(todo[t]) = <<>>
             \/ answer'[t] = "pending" /\ todo'[t] = Tail(todo[t])
          /\ answer'[t] \in {"pending", "success"} => answer'[t] \notin Ends
        BY <1>6, MethodStep DEF ThreadInv, Ends
    <2>2. CASE todo[t] = <<"save", "list">>
        <3>1. Head(todo[t]) = "save" /\ Tail(todo[t]) = <<"list">> /\ <<"list">> # <<>>
            BY <2>1, <2>2
        <3>2. answer'[t] \notin Ends => id \in DOMAIN cargo'
            BY <1>6, <2>1, <3>1, HistoryStep
        <3> QED  BY <2>1, <3>1, <3>2
    <2>3. CASE todo[t] = <<"list">>
        <3>1. Head(todo[t]) = "list" /\ Tail(todo[t]) = <<>>
            BY <2>3
        <3>2. answer'[t] = "success" => list'[t] = cargo
            BY <1>6, <2>1, <3>1, "list" # "query", "list" # "save", "list" # "delete"
               DEF Handle, SaveEntity, QueryEntity, DeleteEntity, QueryAll, ConnectFails, Calls,
                   RaisesOther, Leaves, ThreadInv, Ends
        <3>3. answer'[t] # "pending"
            BY <1>6, <3>1, MethodStep, "pending" \notin Ends DEF Ends
        <3>4. id \in DOMAIN cargo
            BY <1>1, <2>1, <2>3 DEF AddInv
        <3> QED  BY <2>1, <3>2, <3>3, <3>4
    <2> QED  BY <2>1, <2>2, <2>3, RestSteps
<1>7. CASE UNCHANGED vars
    BY <1>2, <1>7 DEF vars, threadVars
<1> QED  BY <1>2, <1>3, <1>4, <1>5, <1>6, <1>7 DEF Next

-------------------------------------------------------------------------------
(***************************************************************************)
(* Types.  The row that a handler saves has every text column: an addition *)
(* brings them, and a modification has them from the table.                *)
(***************************************************************************)
Methods == {"save", "query", "delete", "list"}
Columns == [amount : Amounts \cup {None, NotANumber}, addr : Addrs \cup {None}]

RowInv ==
    \A t \in Threads :
        answer[t] = "pending" /\ event[t].op \in {"add", "modify"} /\ Head(todo[t]) # "query"
            => row[t].addr \in Addrs

HandlerTypes ==
    /\ event \in [Threads -> Inputs \cup {NoEvent}]
    /\ todo \in [Threads -> Seq(Methods)]
    /\ row \in [Threads -> Columns]
    /\ answer \in [Threads -> {"none", "pending", "success", "error", "raised", "killed"}]

TableTypes ==
    /\ IsMap(cargo, Ids, Rows)
    /\ \A t \in Threads : IsMap(list[t], Ids, Rows)

SmallTypes == /\ stuck \in BOOLEAN /\ restarts \in 0..MaxRestarts
              /\ stored \subseteq Ids /\ unsaved \subseteq Threads

CargoTypes == HandlerTypes /\ TableTypes /\ SmallTypes /\ RowInv

LEMMA StepsAreMethods ==
    /\ <<>> \in Seq(Methods)
    /\ \A e \in Events : Steps[e.op] \in Seq(Methods)
    /\ \A op : \A rest \in Rest(op) : rest # <<>>
<1>1. <<>> \in Seq(Methods)
    OBVIOUS
<1>2. /\ <<"save", "list">> \in Seq(Methods) /\ <<"query", "delete", "save">> \in Seq(Methods)
      /\ <<"delete", "list">> \in Seq(Methods) /\ <<"query">> \in Seq(Methods)
      /\ <<"list">> \in Seq(Methods)
    BY DEF Methods
<1>3. \A e \in Events : Steps[e.op] \in Seq(Methods)
    <2>1. \A e \in Events :
              Steps[e.op] \in {<<"save", "list">>, <<"query", "delete", "save">>,
                             <<"delete", "list">>, <<"query">>, <<"list">>}
        BY DEF Events, Steps
    <2> QED  BY <1>2, <2>1
<1>4. \A op : \A rest \in Rest(op) : rest # <<>>
    BY DEF Rest
<1> QED  BY <1>1, <1>3, <1>4

LEMMA DefaultsAdded ==
    ASSUME NEW table, IsMap(table, Ids, Rows), NEW new \in Initialised(table)
    PROVE  IsMap(new, Ids, Rows)
<1>1. new = table \/ new = WithDefaults(table)
    BY DEF Initialised
<1>2. IsMap(WithDefaults(table), Ids, Rows)
    BY CargoAssumption DEF WithDefaults, IsMap
<1> QED  BY <1>1, <1>2

LEMMA CargoTypesInit == Init => CargoTypes
<1> SUFFICES ASSUME Init PROVE CargoTypes
    OBVIOUS
<1>1. IsMap(EmptyMap, Ids, Rows)
    BY DEF EmptyMap, IsMap
<1>2. TableTypes
    BY <1>1, DefaultsAdded DEF Init, TableTypes
<1>3. NoRow \in Columns
    BY DEF NoRow, Columns
<1>4. HandlerTypes
    BY <1>3, StepsAreMethods DEF Init, HandlerTypes
<1>5. MaxRestarts \in Nat
    BY CargoAssumption
<1>6. restarts \in 0..MaxRestarts /\ stuck = FALSE
    BY <1>5 DEF Init
<1>7. RowInv
    BY DEF Init, RowInv
<1>8. stored \subseteq Ids /\ unsaved \subseteq Threads
    BY <1>2 DEF Init, TableTypes, IsMap
<1> QED  BY <1>2, <1>4, <1>6, <1>7, <1>8 DEF CargoTypes, SmallTypes

\* The columns of an event, and those of a modification.
LEMMA ColumnsOfEvent ==
    ASSUME NEW e \in Events
    PROVE  [amount |-> e.amount, addr |-> e.addr] \in Columns
BY DEF Events, Columns

LEMMA HandlerTypesStep ==
    ASSUME ThreadInv, CargoTypes, [Next]_vars
    PROVE  HandlerTypes'
<1>1. CASE UNCHANGED vars
    BY <1>1 DEF vars, threadVars, CargoTypes, HandlerTypes
<1>2. ASSUME NEW t \in Threads, NEW e \in Inputs, Receive(t, e) PROVE HandlerTypes'
    <2>1. e \in Events /\ Steps[e.op] \in Seq(Methods)
        BY CargoAssumption, StepsAreMethods
    <2>2. PICK r \in Columns : r = [amount |-> e.amount, addr |-> e.addr]
        BY <2>1, ColumnsOfEvent
    <2>3. /\ event' = [event EXCEPT ![t] = e] /\ todo' = [todo EXCEPT ![t] = Steps[e.op]]
          /\ answer' = [answer EXCEPT ![t] = "pending"] /\ row' = [row EXCEPT ![t] = r]
        BY <1>2, <2>2 DEF Receive
    <2> QED  BY <2>1, <2>3 DEF CargoTypes, HandlerTypes
<1>3. ASSUME NEW t \in Threads, Handle(t) PROVE HandlerTypes'
    <2>1. /\ answer[t] = "pending" /\ UNCHANGED event
          /\ \/ Returns(t)
             \/ \E how \in Ends : answer' = [answer EXCEPT ![t] = how] /\ UNCHANGED todo
          /\ event[t] \in Events /\ todo[t] \in Rest(event[t].op)
        BY <1>3, MethodStep
           DEF Handle, SaveEntity, QueryEntity, DeleteEntity, QueryAll, ConnectFails,
               RaisesValueError, RaisesOther, Leaves, Ends, ThreadInv
    <2>2. Tail(todo[t]) \in Seq(Methods)
        BY <2>1, StepsAreMethods DEF CargoTypes, HandlerTypes
    <2>3. /\ todo' \in [Threads -> Seq(Methods)]
          /\ answer' \in [Threads -> {"none", "pending", "success", "error", "raised", "killed"}]
        BY <2>1, <2>2, StepsAreMethods DEF Returns, Ends, CargoTypes, HandlerTypes
    <2>4. row' \in [Threads -> Columns]
        <3>1. CASE UNCHANGED row
            BY <3>1 DEF CargoTypes, HandlerTypes
        <3>2. CASE QueryEntity(t) /\ ~UNCHANGED row
            <4>1. event[t].id \in DOMAIN cargo
                BY <3>2 DEF QueryEntity
            <4>2. row' \in [Threads -> Columns]
                <5> DEFINE old == cargo[event[t].id]
                           new == [amount |-> IF event[t].amount = None THEN old.amount
                                              ELSE event[t].amount,
                                   addr |-> IF event[t].addr = None THEN old.addr
                                            ELSE event[t].addr]
                <5>1. old \in Rows
                    BY <4>1 DEF CargoTypes, TableTypes, IsMap
                <5>2. new \in Columns
                    BY <2>1, <5>1 DEF Rows, Events, Columns
                <5>3. row' = [row EXCEPT ![t] = new]
                    BY <3>2 DEF QueryEntity
                <5> QED  BY <5>2, <5>3 DEF CargoTypes, HandlerTypes
            <4> QED  BY <4>2
        <3> QED  BY <1>3, <3>1, <3>2 DEF Handle, SaveEntity, DeleteEntity, QueryAll, ConnectFails
    <2> QED  BY <2>1, <2>3, <2>4 DEF CargoTypes, HandlerTypes
<1>4. CASE Restart
    BY <1>4, StepsAreMethods DEF Restart, CargoTypes, HandlerTypes
<1> QED  BY <1>1, <1>2, <1>3, <1>4 DEF Next

LEMMA TableTypesStep ==
    ASSUME ThreadInv, CargoTypes, [Next]_vars
    PROVE  TableTypes' /\ SmallTypes'
<1>1. CASE UNCHANGED vars
    BY <1>1 DEF vars, threadVars, CargoTypes, TableTypes, SmallTypes
<1>2. ASSUME NEW t \in Threads, NEW e \in Inputs, Receive(t, e) PROVE TableTypes' /\ SmallTypes'
    BY <1>2 DEF Receive, CargoTypes, TableTypes, SmallTypes
<1>3. ASSUME NEW t \in Threads, Handle(t) PROVE TableTypes' /\ SmallTypes'
    <2>1. /\ answer[t] = "pending" /\ UNCHANGED restarts
          /\ stuck' \in BOOLEAN
          /\ event[t] \in Events /\ todo[t] \in Rest(event[t].op)
        BY <1>3, MethodStep
           DEF Handle, SaveEntity, QueryEntity, DeleteEntity, QueryAll, ConnectFails, Returns,
               RaisesValueError, RaisesOther, Leaves, ThreadInv, CargoTypes, SmallTypes
    <2>2. IsMap(cargo', Ids, Rows) => SmallTypes'
        <3>1. IsMap(cargo', Ids, Rows) => stored' \subseteq Ids
            BY <1>3, HistoryStep DEF IsMap, CargoTypes, SmallTypes
        <3>2. unsaved' \subseteq Threads
            BY <1>3, HistoryStep DEF CargoTypes, SmallTypes
        <3> QED  BY <2>1, <3>1, <3>2 DEF CargoTypes, SmallTypes
    <2>3. CASE SaveEntity(t) /\ LegalAmount(row[t].amount)
        <3>1. Head(todo[t]) = "save"
            BY <2>3 DEF SaveEntity, Calls
        <3>2. event[t].op \in {"add", "modify"}
            <4>1. event[t].op \in {"add", "modify", "delete", "query", "query_all"}
                BY <2>1 DEF Events
            <4> QED  BY <2>1, <3>1, <4>1, RestSteps DEF Rest
        <3>3. row[t].addr \in Addrs
            BY <2>1, <3>1, <3>2 DEF CargoTypes, RowInv
        <3>4. row[t] \in Rows
            <4>1. row[t] \in Columns
                BY DEF CargoTypes, HandlerTypes
            <4> QED  BY <2>3, <3>3, <4>1 DEF LegalAmount, Columns, Rows
        <3>5. event[t].id \in Ids
            BY <2>1 DEF Events
        <3>6. PICK r \in Rows, id \in Ids : cargo' = cargo \/ cargo' = Put(cargo, id, r)
            BY <2>3, <3>4, <3>5 DEF SaveEntity, Inserted
        <3>7. IsMap(cargo', Ids, Rows)
            BY <3>6 DEF Put, CargoTypes, TableTypes, IsMap
        <3> QED  BY <2>2, <2>3, <3>7 DEF SaveEntity, CargoTypes, TableTypes
    <2>4. CASE DeleteEntity(t)
        <3>1. /\ UNCHANGED list
              /\ \/ UNCHANGED cargo
                 \/ cargo' = [x \in DOMAIN cargo \ {event[t].id} |-> cargo[x]]
            BY <2>4 DEF DeleteEntity, Restrict
        <3>2. IsMap(cargo', Ids, Rows)
            BY <3>1 DEF CargoTypes, TableTypes, IsMap
        <3> QED  BY <2>2, <3>1, <3>2 DEF CargoTypes, TableTypes
    <2>5. CASE QueryAll(t) /\ ~UNCHANGED list
        <3>1. list' = [list EXCEPT ![t] = cargo] /\ UNCHANGED cargo
            BY <2>5 DEF QueryAll
        <3>2. \A u \in Threads : list'[u] = cargo \/ list'[u] = list[u]
            BY <3>1 DEF ThreadInv
        <3>3. IsMap(cargo', Ids, Rows)
            BY <3>1 DEF CargoTypes, TableTypes
        <3> QED  BY <2>2, <3>1, <3>2, <3>3 DEF CargoTypes, TableTypes
    <2>6. CASE UNCHANGED <<cargo, list>>
        BY <2>2, <2>6 DEF CargoTypes, TableTypes
    <2> QED
        BY <1>3, <2>3, <2>4, <2>5, <2>6
           DEF Handle, SaveEntity, QueryEntity, QueryAll, ConnectFails
<1>4. CASE Restart
    <2>1. IsMap(cargo', Ids, Rows) /\ UNCHANGED list
        BY <1>4, DefaultsAdded DEF Restart, CargoTypes, TableTypes
    <2>2. SmallTypes'
        <3>1. MaxRestarts \in Nat
            BY CargoAssumption
        <3>2. restarts' \in 0..MaxRestarts
            BY <1>4, <3>1 DEF Restart, CargoTypes, SmallTypes
        <3>3. stuck' = FALSE
            BY <1>4 DEF Restart
        <3>4. stored' \subseteq Ids /\ unsaved' \subseteq Threads
            BY <1>4, <2>1 DEF Restart, IsMap, CargoTypes, SmallTypes
        <3> QED  BY <3>2, <3>3, <3>4 DEF SmallTypes
    <2> QED  BY <2>1, <2>2 DEF CargoTypes, TableTypes
<1> QED  BY <1>1, <1>2, <1>3, <1>4 DEF Next

LEMMA RowStep ==
    ASSUME ThreadInv, CargoTypes, [Next]_vars
    PROVE  RowInv'
<1>1. CASE UNCHANGED vars
    BY <1>1 DEF vars, threadVars, CargoTypes, RowInv
<1>2. ASSUME NEW t \in Threads, NEW e \in Inputs, Receive(t, e) PROVE RowInv'
    <2>1. /\ event' = [event EXCEPT ![t] = e] /\ todo' = [todo EXCEPT ![t] = Steps[e.op]]
          /\ answer' = [answer EXCEPT ![t] = "pending"]
          /\ row' = [row EXCEPT ![t] = [amount |-> e.amount, addr |-> e.addr]]
        BY <1>2 DEF Receive
    <2>2. event'[t] = e /\ todo'[t] = Steps[e.op] /\ row'[t].addr = e.addr
        BY <2>1 DEF CargoTypes, HandlerTypes
    <2>3. \A u \in Threads \ {t} : /\ event'[u] = event[u] /\ todo'[u] = todo[u]
                                   /\ answer'[u] = answer[u] /\ row'[u] = row[u]
        BY <2>1 DEF CargoTypes, HandlerTypes
    <2>4. e \in Events /\ (e.op = "add" => e.addr \in Addrs)
        BY CargoAssumption DEF Events
    <2>5. e.op = "modify" => Head(Steps[e.op]) = "query"
        BY DEF Steps
    <2> QED  BY <2>2, <2>3, <2>4, <2>5 DEF CargoTypes, RowInv
<1>3. ASSUME NEW t \in Threads, Handle(t) PROVE RowInv'
    <2>1. /\ UNCHANGED event /\ answer[t] = "pending"
          /\ event[t] \in Events /\ todo[t] \in Rest(event[t].op)
          /\ \A u \in Threads \ {t} : todo'[u] = todo[u] /\ answer'[u] = answer[u]
        BY <1>3, MethodStep DEF ThreadInv
    <2>2. \A u \in Threads \ {t} : row'[u] = row[u]
        BY <1>3 DEF Handle, SaveEntity, QueryEntity, DeleteEntity, QueryAll, ConnectFails,
                    CargoTypes, HandlerTypes
    <2>3. ASSUME answer'[t] = "pending", event[t].op \in {"add", "modify"}
          PROVE  row'[t].addr \in Addrs
        <3>1. CASE Head(todo[t]) # "query"
            <4>1. UNCHANGED row
                BY <1>3, <3>1 DEF Handle, SaveEntity, QueryEntity, DeleteEntity, QueryAll,
                                  ConnectFails, Calls
            <4> QED  BY <2>1, <2>3, <3>1, <4>1 DEF CargoTypes, RowInv
        <3>2. CASE Head(todo[t]) = "query"
            <4>0. answer'[t] \notin Ends
                BY <2>3 DEF Ends
            <4>1. QueryEntity(t) /\ ~RaisesValueError(t) /\ ~RaisesOther(t)
                BY <1>3, <3>2, <4>0
                   DEF Handle, SaveEntity, DeleteEntity, QueryAll, ConnectFails, Calls,
                       RaisesValueError, RaisesOther, Leaves, Ends, CargoTypes, HandlerTypes
            <4>2. event[t].id \in DOMAIN cargo
                BY <4>1 DEF QueryEntity
            <4> DEFINE old == cargo[event[t].id]
                       amount == IF event[t].amount = None THEN old.amount ELSE event[t].amount
                       addr == IF event[t].addr = None THEN old.addr ELSE event[t].addr
            <4>3. old \in Rows
                BY <4>2 DEF CargoTypes, TableTypes, IsMap
            <4>4. addr \in Addrs
                BY <2>1, <4>3 DEF Rows, Events
            <4>5. row' = [row EXCEPT ![t] = [amount |-> amount, addr |-> addr]]
                BY <4>1 DEF QueryEntity
            <4> HIDE DEF amount, addr
            <4>6. row'[t].addr = addr
                BY <4>5 DEF CargoTypes, HandlerTypes
            <4> QED  BY <4>4, <4>6
        <3> QED  BY <3>1, <3>2
    <2> QED  BY <2>1, <2>2, <2>3 DEF CargoTypes, RowInv
<1>4. CASE Restart
    <2>1. \A t \in Threads : answer'[t] # "pending"
        BY <1>4 DEF Restart
    <2> QED  BY <2>1 DEF RowInv
<1> QED  BY <1>1, <1>2, <1>3, <1>4 DEF Next

-------------------------------------------------------------------------------
(***************************************************************************)
(* The theorems.                                                           *)
(***************************************************************************)

\* The invariant holds in every reachable state.
THEOREM CargoInvariance == Spec => []CargoInv
<1>1. CargoInv /\ [Next]_vars => CargoInv'
    BY ThreadStep, AccountStep, AddStep DEF CargoInv
<1> QED  BY <1>1, CargoInit, PTL DEF Spec

\* Handlers that modify an item never lose it between them, however many run at once
\* and wherever they fail or are killed: one that lost an item by itself accounts for
\* it (cargodb.py:81-97).
THEOREM LossesAccounted == Spec => []LostItemsAccounted
<1>1. CargoInv => LostItemsAccounted
    BY DEF CargoInv, HistoryInv
<1> QED  BY <1>1, CargoInvariance, PTL

\* The list an addition sends to the dashboards has the item, unless its own INSERT
\* failed (dbapi.py:13-30).
THEOREM AdditionsAreListed == Spec => []AddedIsListed
<1>1. CargoInv => AddedIsListed
    BY DEF CargoInv, ThreadInv, AddInv, AddedIsListed, Untouched
<1> QED  BY <1>1, CargoInvariance, PTL

\* A row is never changed by an addition or a restart (cargodb.py:61-66).
THEOREM FirstAdditionWins == Spec => FirstAddWins
<1>1. CargoInv /\ [Next]_vars =>
          [\A id \in DOMAIN cargo : ~Started("modify", id) /\ ~Started("delete", id) =>
               id \in DOMAIN cargo' /\ cargo'[id] = cargo[id]]_vars
    BY UntouchedStays DEF CargoInv, Untouched
<1> QED  BY <1>1, CargoInvariance, PTL DEF Spec, FirstAddWins

\* The rows of the table and of the lists that are sent have every column, and so has
\* every row a handler is about to save with a legal amount (cargodb.py:43-97).
THEOREM CargoTypeCorrect == Spec => []TypeOK
<1>1. CargoTypes => TypeOK
    BY DEF CargoTypes, HandlerTypes, TableTypes, SmallTypes, TypeOK, Methods, Columns
<1>2. CargoTypes /\ CargoInv /\ [Next]_vars => CargoTypes'
    BY HandlerTypesStep, TableTypesStep, RowStep DEF CargoInv, CargoTypes
<1> QED  BY CargoTypesInit, CargoInvariance, <1>1, <1>2, PTL DEF Spec
===============================================================================
