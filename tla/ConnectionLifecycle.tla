------------------------- MODULE ConnectionLifecycle -------------------------
(***************************************************************************)
(* Access to the Actual SDK. The SDK is global to the server process: it   *)
(* holds one open budget, whoever opened it. Several connection managers   *)
(* (one that observes, others that write) share it. Each call waits in a   *)
(* process-wide queue, disconnects what another manager left behind,       *)
(* restores the configured budget and runs its operation. A connector      *)
(* whose disconnect failed is quarantined by its manager and must be       *)
(* disconnected before anything else is opened.                            *)
(*                                                                         *)
(* A call creates at most one connector, which carries the call's name.    *)
(* What happens inside the queue's turn is observed by nobody else, so a   *)
(* disconnect of two connectors is one action with its partial outcomes.   *)
(***************************************************************************)
EXTENDS Naturals, Sequences, FiniteSets

CONSTANTS
    Managers, Budgets, None,
    MaxCalls,       \* bound on calls, numbered in the order they arrive
    Requests,       \* what calls may ask for
    MaxFaults,      \* bound on the SDK and file calls that throw
    MaxReconfigured \* bound on configuration changes made by another process

Calls == 1..MaxCalls

\* A request has a kind: "use" is withConnection (with dispose and synchronize), "connect"
\* names the budget to select, "list" is listBudgets, and "disconnect" and "remove" end a
\* connection. expected is the budget its caller was authorized for, None when it names none.
Expectations == Budgets \cup {None}
Asks == [kind : {"use"}, expected : Expectations, dispose : BOOLEAN, synchronize : BOOLEAN]
        \cup [kind : {"connect"}, budget : Budgets] \cup [kind : {"list"}]
        \cup [kind : {"disconnect", "remove"}, expected : Expectations]

\* What any instance has: requests of these shapes, and None names nothing.
ConnectionConstants ==
    /\ Requests \subseteq Asks
    /\ None \notin Calls /\ None \notin Managers /\ None \notin Budgets
    /\ MaxCalls \in Nat /\ MaxFaults \in Nat /\ MaxReconfigured \in Nat

VARIABLES
    config,       \* the budget the configuration file names
    tail,         \* calls waiting for the process-wide lock; the first one holds it
    owner,        \* the manager that last used the SDK
    connected,    \* per manager, the connector it keeps and the budget it was opened for
    quarantined,  \* per manager, the connector whose disconnect has not succeeded
    sdk,          \* what the process-global SDK has open: by which connector, which budget
    live,         \* connectors that initialized the SDK and were not disconnected since
    pc, manager, request, \* per call: its step, its manager and what it asks for
    target,       \* the configuration the call that has its turn has read
    faults, reconfigured

held == <<owner, connected, quarantined, sdk, live>>
vars == <<config, tail, held, pc, manager, request, target, faults, reconfigured>>

NoConnection == [connector |-> None, budget |-> None]

Connections == [connector : Calls \cup {None}, budget : Budgets \cup {None}]

HeldTyped ==
    /\ owner \in Managers \cup {None}
    /\ connected \in [Managers -> Connections]
    /\ quarantined \in [Managers -> Calls \cup {None}]
    /\ sdk \in Connections /\ live \in SUBSET Calls

TypeOK ==
    /\ HeldTyped /\ config \in Budgets \cup {None}
    /\ tail \in Seq(Calls)
    /\ pc \in [Calls -> {"idle", "queued", "evict", "load", "sync", "drop", "open", "select",
                         "keep", "operate", "close", "cleanup", "delete", "done"}]
    /\ manager \in [Calls -> Managers \cup {None}]
    /\ request \in [Calls -> Requests \cup {None}]
    /\ target \in Budgets \cup {None}
    /\ faults \in 0..MaxFaults /\ reconfigured \in 0..MaxReconfigured

Init ==
    /\ config \in Budgets \cup {None}
    /\ tail = <<>> /\ owner = None
    /\ connected = [m \in Managers |-> NoConnection]
    /\ quarantined = [m \in Managers |-> None]
    /\ sdk = NoConnection /\ live = {}
    /\ pc = [c \in Calls |-> "idle"]
    /\ manager = [c \in Calls |-> None]
    /\ request = [c \in Calls |-> None]
    /\ target = None
    /\ faults = 0 /\ reconfigured = 0

------------------------------------------------------------------------------
Step(c, to) == pc' = [pc EXCEPT ![c] = to] /\ UNCHANGED <<tail, manager, request, target>>

\* The lock goes to the next call, whether this one succeeded or not.
Release(c) ==
    /\ pc' = [pc EXCEPT ![c] = "done"] /\ tail' = Tail(tail)
    /\ manager' = [manager EXCEPT ![c] = None] /\ request' = [request EXCEPT ![c] = None]
    /\ target' = None

Throws == faults < MaxFaults /\ faults' = faults + 1

\* A call names its manager and its request and waits for its turn.
runActualLifecycleExclusive(c, m, r) ==
    /\ pc[c] = "idle" /\ \A d \in 1..c - 1 : pc[d] # "idle"
    /\ pc' = [pc EXCEPT ![c] = "queued"]
    /\ tail' = Append(tail, c)
    /\ manager' = [manager EXCEPT ![c] = m]
    /\ request' = [request EXCEPT ![c] = r]
    /\ UNCHANGED <<config, held, target, faults, reconfigured>>

------------------------------------------------------------------------------
\* A disconnect throws before or after the SDK was shut down: the connector stays with its
\* manager, which is the owner until a disconnect succeeds.
disconnectConnectorFails(m, k) ==
    /\ Throws
    /\ owner' = m /\ quarantined' = [quarantined EXCEPT ![m] = k]
    /\ sdk' \in {sdk, NoConnection}

\* The manager gives up its connection and whatever it quarantined. The caller says who
\* owns the SDK then.
disconnectConnected(m) ==
    LET Kept == {quarantined[m], connected[m].connector} \ {None} IN
    /\ sdk' = IF Kept = {} THEN sdk ELSE NoConnection
    /\ live' = live \ Kept
    /\ connected' = [connected EXCEPT ![m] = NoConnection]
    /\ quarantined' = [quarantined EXCEPT ![m] = None]
    /\ UNCHANGED faults

\* The quarantined connector fails again, or it is closed and then the kept one fails.
disconnectConnectedFails(m) ==
    /\ \/ quarantined[m] # None /\ disconnectConnectorFails(m, quarantined[m]) /\ UNCHANGED live
       \/ /\ connected[m].connector \notin {None, quarantined[m]}
          /\ disconnectConnectorFails(m, connected[m].connector)
          /\ live' = live \ {quarantined[m]}
    /\ UNCHANGED connected

Disowned(m) == IF owner = m THEN None ELSE owner

\* After disconnectConnected: whoever disconnected something was the owner meanwhile.
OwnerAfter(m) ==
    IF {quarantined[m], connected[m].connector} = {None} THEN Disowned(m) ELSE None

------------------------------------------------------------------------------
\* Variant: a manager does not look at what it quarantined itself.
mustEvict_OthersOnly(c) == owner \notin {None, manager[c]}

\* Another manager's connection, or a connector that could not be closed, goes first.
mustEvict(c) ==
    \/ owner # None /\ (owner # manager[c] \/ quarantined[owner] # None)
    \/ owner = None /\ quarantined[manager[c]] # None

Evicted(c) == IF owner = None THEN manager[c] ELSE owner

\* A call of withConnection, connect or listBudgets goes on with the SDK its own.
Proceed(c) ==
    /\ Step(c, IF request[c].kind = "use" THEN "load" ELSE "drop")
    /\ owner' = manager[c]

\* The budget the caller was authorized for is still the configured one.
Expected(c) == request[c].expected \in {None, config}

runWithLifecycle(c) ==
    /\ pc[c] = "queued" /\ Head(tail) = c /\ request[c].kind \in {"use", "connect", "list"}
    /\ \/ request[c].kind = "use" /\ ~Expected(c) /\ Release(c) /\ UNCHANGED owner
       \/ /\ request[c].kind = "use" => Expected(c)
          /\ IF mustEvict(c) THEN Step(c, "evict") /\ UNCHANGED owner ELSE Proceed(c)
    /\ UNCHANGED <<config, connected, quarantined, sdk, live, faults, reconfigured>>

Evict(c) ==
    /\ pc[c] = "evict" /\ request[c].kind \in {"use", "connect", "list"}
    /\ \/ disconnectConnected(Evicted(c)) /\ Proceed(c)
       \/ disconnectConnectedFails(Evicted(c)) /\ Release(c)
    /\ UNCHANGED <<config, reconfigured>>

\* A disconnect or a removal has its turn: it concerns the owner's connection when that is
\* of the budget named.
disconnectCurrentConnection(c) ==
    /\ pc[c] = "queued" /\ Head(tail) = c /\ request[c].kind \in {"disconnect", "remove"}
    /\ \/ ~Expected(c) /\ Release(c)
       \/ /\ Expected(c)
          /\ Step(c, IF /\ owner \notin {None, manager[c]}
                        /\ request[c].expected \in {None, connected[owner].budget}
                     THEN "evict" ELSE "close")
    /\ UNCHANGED <<config, held, faults, reconfigured>>

EvictOwner(c) ==
    /\ pc[c] = "evict" /\ request[c].kind \in {"disconnect", "remove"}
    /\ \/ disconnectConnected(owner) /\ owner' = None /\ Step(c, "close")
       \/ disconnectConnectedFails(owner) /\ Release(c)
    /\ UNCHANGED <<config, reconfigured>>

------------------------------------------------------------------------------
\* restoreConfiguredBudget: without configuration or credentials the connection is closed
\* and the call fails, an unreadable file only fails the call; a connection to the
\* configured budget is used again.
loadConfig(c) ==
    /\ pc[c] = "load"
    /\ \/ config # None /\ ~Expected(c) /\ Release(c) /\ UNCHANGED faults
       \/ config = None /\ Step(c, "close") /\ UNCHANGED faults
       \/ config # None /\ Throws /\ (Step(c, "close") \/ Release(c))
       \/ /\ config # None /\ Expected(c)
          /\ target' = config
          /\ pc' = [pc EXCEPT ![c] = IF connected[manager[c]].budget # config THEN "drop"
                                     ELSE IF request[c].synchronize THEN "sync" ELSE "operate"]
          /\ UNCHANGED <<tail, manager, request, faults>>
    /\ UNCHANGED <<config, held, reconfigured>>

synchronize(c) ==
    /\ pc[c] = "sync"
    /\ \/ Step(c, "operate") /\ UNCHANGED faults
       \/ Step(c, "close") /\ Throws
    /\ UNCHANGED <<config, held, reconfigured>>

Drop(c) ==
    /\ pc[c] = "drop"
    /\ \/ disconnectConnected(manager[c]) /\ owner' = manager[c] /\ Step(c, "open")
       \/ disconnectConnectedFails(manager[c]) /\ Release(c)
    /\ UNCHANGED <<config, reconfigured>>

\* The connector is created and initializes the SDK; listBudgets only reads the list. When
\* it cannot be created, or credentials are missing, the call may stay the owner of nothing.
connect(c) ==
    /\ pc[c] = "open"
    /\ \/ /\ Throws /\ Release(c)
          /\ owner' \in CASE request[c].kind = "list" -> {owner}
                         [] request[c].kind = "connect" -> {owner, Disowned(manager[c])}
                         [] OTHER -> {Disowned(manager[c])}
          /\ UNCHANGED <<sdk, live>>
       \/ /\ \/ Step(c, IF request[c].kind = "list" THEN "cleanup" ELSE "select") /\ UNCHANGED faults
             \/ Step(c, "cleanup") /\ Throws
          /\ sdk' = [connector |-> c, budget |-> None]
          /\ live' = live \cup {c}
          /\ UNCHANGED owner
    /\ UNCHANGED <<config, connected, quarantined, reconfigured>>

\* The budget asked for, or the configured one.
Target(c) == IF request[c].kind = "connect" THEN request[c].budget ELSE target

\* The SDK is shut down, initialized in the budget's directory and the budget downloaded.
selectBudget(c) ==
    /\ pc[c] = "select"
    /\ \/ /\ Step(c, "keep") /\ UNCHANGED faults
          /\ sdk' = [connector |-> c, budget |-> Target(c)]
       \/ /\ Step(c, "cleanup") /\ Throws
          /\ sdk' \in {sdk, NoConnection}
    /\ UNCHANGED <<config, owner, connected, quarantined, live, reconfigured>>

\* First snapshot; connect also saves the configuration. Then the connection is kept.
Keep(c) ==
    /\ pc[c] = "keep"
    /\ \/ Throws /\ Step(c, "cleanup") /\ UNCHANGED <<config, connected>>
       \/ /\ connected' = [connected EXCEPT ![manager[c]] = [connector |-> c, budget |-> Target(c)]]
          /\ UNCHANGED faults
          /\ IF request[c].kind = "connect" THEN config' = Target(c) /\ Release(c)
             ELSE UNCHANGED config /\ Step(c, "operate")
    /\ UNCHANGED <<owner, quarantined, sdk, live, reconfigured>>

\* The new connector is disconnected after a failure, or after the budgets were listed.
Cleanup(c) ==
    /\ pc[c] = "cleanup"
    /\ \/ /\ sdk' = NoConnection /\ live' = live \ {c}
          /\ quarantined' = [quarantined EXCEPT ![manager[c]] = None]
          /\ owner' = None
          /\ UNCHANGED faults
       \/ disconnectConnectorFails(manager[c], c) /\ UNCHANGED live
    /\ Release(c)
    /\ UNCHANGED <<config, connected, reconfigured>>

\* The caller's operation ends, with a result or by throwing.
operation(c) ==
    /\ pc[c] = "operate"
    /\ IF request[c].dispose THEN Step(c, "close") ELSE Release(c)
    /\ UNCHANGED <<config, held, faults, reconfigured>>

\* The manager's own connection is closed: disposed of after an operation or a failure, or
\* disconnected when it is of the budget named. Disposal swallows the error.
Close(c) ==
    /\ pc[c] = "close"
    /\ LET m == manager[c]
           next == IF request[c].kind = "remove" THEN Step(c, "delete") ELSE Release(c)
       IN
       \/ /\ request[c].kind \in {"disconnect", "remove"}
          /\ request[c].expected \notin {None, connected[m].budget}
          /\ next /\ UNCHANGED <<held, faults>>
       \/ /\ request[c].kind = "use" \/ request[c].expected \in {None, connected[m].budget}
          /\ \/ disconnectConnected(m) /\ owner' = OwnerAfter(m) /\ next
             \/ disconnectConnectedFails(m) /\ Release(c)
    /\ UNCHANGED <<config, reconfigured>>

removeConnection(c) ==
    /\ pc[c] = "delete" /\ Release(c)
    /\ \/ config' = None /\ UNCHANGED faults
       \/ Throws /\ UNCHANGED config
    /\ UNCHANGED <<held, reconfigured>>

\* Another process that uses the same file, such as the command line client, rewrites it.
Reconfigure(b) ==
    /\ reconfigured < MaxReconfigured /\ b # config
    /\ config' = b /\ reconfigured' = reconfigured + 1
    /\ UNCHANGED <<tail, held, pc, manager, request, target, faults>>

------------------------------------------------------------------------------
Turn(c) ==
    \/ runWithLifecycle(c) \/ Evict(c) \/ disconnectCurrentConnection(c) \/ EvictOwner(c)
    \/ loadConfig(c) \/ synchronize(c) \/ Drop(c) \/ connect(c) \/ selectBudget(c) \/ Keep(c)
    \/ Cleanup(c) \/ operation(c) \/ Close(c) \/ removeConnection(c)

Next ==
    \/ \E c \in Calls : Turn(c)
    \/ \E c \in Calls, m \in Managers, r \in Requests : runActualLifecycleExclusive(c, m, r)
    \/ \E b \in Budgets \cup {None} : Reconfigure(b)

Spec == Init /\ [][Next]_vars

------------------------------------------------------------------------------
\* While an operation runs the SDK has open what the operation was given: the connector of
\* its own manager, on the budget its caller was authorized for.
OperationOwnsSession ==
    \A c \in Calls : pc[c] = "operate" =>
        /\ sdk = connected[manager[c]] /\ sdk.connector # None
        /\ request[c].expected \in {None, sdk.budget}

\* The SDK never serves two connectors, and one that could not be closed is never lost: it
\* is the one the owner keeps or has quarantined, or the one the running call is opening.
NothingLeaks ==
    /\ Cardinality(live) <= 1
    /\ \A k \in live : \/ owner # None /\ k \in {quarantined[owner], connected[owner].connector}
                       \/ pc[k] \in {"select", "keep", "cleanup"}

\* Calls take their turns in the order in which they came.
QueueKnows ==
    /\ \A i, j \in DOMAIN tail : tail[i] = tail[j] => i = j
    /\ \A i \in DOMAIN tail : pc[tail[i]] \notin {"idle", "done"}
    /\ \A c \in Calls : pc[c] \notin {"idle", "done"} =>
          /\ \E i \in DOMAIN tail : tail[i] = c
          /\ manager[c] \in Managers /\ request[c] \in Requests
    /\ \A c \in Calls : pc[c] \notin {"idle", "queued", "done"} => tail[1] = c

\* Only the owner keeps or quarantines a connector. What it keeps is what the SDK has open,
\* unless a disconnect of it failed.
OwnerHolds ==
    /\ \A m \in Managers : owner = m \/ (connected[m] = NoConnection /\ quarantined[m] = None)
    /\ \A m \in Managers : connected[m].connector = None <=> connected[m].budget = None
    /\ owner # None => \/ quarantined[owner] # None \/ connected[owner] = NoConnection
                       \/ sdk = connected[owner]

\* What the call that has its turn relies on, from step to step.
TurnKnows(c) ==
    /\ pc[c] = "evict" /\ request[c].kind \in {"disconnect", "remove"} => owner # None
    /\ pc[c] \in {"load", "sync", "operate"} => request[c].kind = "use"
    /\ pc[c] \in {"drop", "open"} => request[c].kind \in {"use", "connect", "list"}
    /\ pc[c] \in {"select", "keep"} => request[c].kind \in {"use", "connect"}
    /\ pc[c] \in {"load", "sync", "operate", "drop", "open", "select", "keep", "cleanup"} =>
          owner = manager[c]
    /\ pc[c] \in {"load", "sync", "operate", "open", "select", "keep", "cleanup"} =>
          quarantined[manager[c]] = None
    /\ pc[c] \in {"open", "select", "keep", "cleanup"} => connected[manager[c]] = NoConnection
    /\ pc[c] \in {"sync", "operate"} =>
          /\ sdk = connected[manager[c]] /\ sdk.connector # None
          /\ request[c].expected \in {None, sdk.budget}
    /\ pc[c] \in {"drop", "open", "select", "keep"} /\ request[c].kind = "use" =>
          target \in Budgets /\ request[c].expected \in {None, target}
    /\ pc[c] = "open" => live = {}
    /\ pc[c] \in {"select", "keep", "cleanup"} => live = {c}
    /\ pc[c] = "keep" => sdk = [connector |-> c, budget |-> Target(c)]

\* OperationOwnsSession and NothingLeaks: whatever calls of withConnection, connect,
\* listBudgets, disconnect and removeConnection were queued, and whichever of them failed,
\* every connector is accounted for and an operation works on the budget it was allowed to.
ConnectionSafe ==
    /\ TypeOK /\ OperationOwnsSession /\ NothingLeaks
    /\ QueueKnows /\ OwnerHolds /\ \A c \in Calls : TurnKnows(c)
==============================================================================
