------------------------------ MODULE HttpServer ------------------------------
(***************************************************************************)
(* Starting and stopping the web server.  dispose() closes the server of   *)
(* node, which reports that it is closed once the last connection has      *)
(* ended; after five seconds the connections are destroyed, after ten the  *)
(* call ends in any case.  The instance may be started again, while timers *)
(* and calls of its last life still run.  node's server and the clients    *)
(* are external.                                                           *)
(***************************************************************************)
EXTENDS Naturals, Sequences
LOCAL INSTANCE SequencesExt

CONSTANTS
    Sockets,    \* connections clients make
    Disposals,  \* calls of dispose()
    MaxListens  \* bound: calls of start()

ASSUME ServerAssumption == MaxListens \in Nat

VARIABLES
    closesAll,   \* node has closeAllConnections()
    handle,      \* none, binding (the event is under way) or open
    starting,    \* promises of start() that wait for the listening event
    listens,     \* calls of start()
    socket,      \* socket[s]: none, open, destroyed or closed
    connections, \* _connections
    drained,     \* the close event of the server is under way; only calls come before it
    disposal,    \* disposal[d]: idle, refusing (the server had no handle), waiting, resolved or rejected
    grace,       \* grace[d]: off, set or fired, the timer of five seconds
    deadline,    \* deadline[d]: off, set, fired or cleared, the one of ten
    order,       \* Middlewares
    afters       \* the handlers express runs after the controllers

serverVars == <<closesAll, handle, starting, listens, socket, connections, drained,
                disposal, grace, deadline, order, afters>>

Alive(s) == socket[s] \in {"open", "destroyed"}
Waiting(d) == disposal[d] \in {"waiting", "refusing"}

(* resolve(): the middlewares are sorted, the server is created.            *)
ServerInit ==
    /\ closesAll \in BOOLEAN
    /\ handle = "none" /\ starting = 0 /\ listens = 0
    /\ socket = [s \in Sockets |-> "none"]
    /\ connections = {} /\ drained = FALSE
    /\ disposal = [d \in Disposals |-> "idle"]
    /\ grace = [d \in Disposals |-> "off"]
    /\ deadline = [d \in Disposals |-> "off"]
    /\ order = <<1, 2>> /\ afters = <<>>

-----------------------------------------------------------------------------
(* start(): the middlewares are reversed in place and added, then node is   *)
(* asked to listen.  The port is busy, or the server listens already: the   *)
(* promise rejects.                                                         *)
StartServer(bound) ==
    /\ listens < MaxListens
    /\ listens' = listens + 1
    /\ order' = Reverse(order)
    /\ afters' = afters \o order'
    /\ bound => handle = "none"
    /\ handle' = IF bound THEN "binding" ELSE handle
    /\ starting' = IF bound THEN starting + 1 ELSE starting
    /\ UNCHANGED <<closesAll, socket, connections, drained, disposal, grace, deadline>>

(* The listening event: whoever waits for it is told.                       *)
ServerListens ==
    /\ handle = "binding"
    /\ handle' = "open" /\ starting' = 0
    /\ UNCHANGED <<closesAll, listens, socket, connections, drained, disposal, grace,
                   deadline, order, afters>>

Connect(s) ==
    /\ handle = "open" /\ socket[s] = "none" /\ ~drained
    /\ socket' = [socket EXCEPT ![s] = "open"]
    /\ connections' = connections \cup {s}
    /\ UNCHANGED <<closesAll, handle, starting, listens, drained, disposal, grace, deadline,
                   order, afters>>

(* The server has no handle and no connection left.                         *)
DrainedIf(h, sockets) ==
    drained \/ (h = "none" /\ \A s \in Sockets : sockets[s] \notin {"open", "destroyed"})

(* A connection ends, by its client or because it was destroyed.            *)
SocketClosed(s) ==
    /\ Alive(s) /\ ~drained
    /\ socket' = [socket EXCEPT ![s] = "closed"]
    /\ connections' = connections \ {s}
    /\ drained' = DrainedIf(handle, socket')
    /\ UNCHANGED <<closesAll, handle, starting, listens, disposal, grace, deadline, order, afters>>

(* Server.close(): some connections are idle, and node closes them.         *)
CloseServer(idle) ==
    /\ idle \subseteq {s \in Sockets : Alive(s)}
    /\ handle' = "none"
    /\ socket' = [s \in Sockets |-> IF s \in idle THEN "closed" ELSE socket[s]]
    /\ connections' = connections \ idle
    /\ drained' = DrainedIf("none", socket')

StopServer(idle) ==
    /\ CloseServer(idle)
    /\ UNCHANGED <<closesAll, starting, listens, disposal, grace, deadline, order, afters>>

(* dispose(): the callback of close() gets an error if there is no handle.  *)
DisposeServer(d, idle) ==
    /\ disposal[d] = "idle"
    /\ CloseServer(idle)
    /\ disposal' = [disposal EXCEPT ![d] = IF handle = "none" THEN "refusing" ELSE "waiting"]
    /\ grace' = [grace EXCEPT ![d] = "set"]
    /\ deadline' = [deadline EXCEPT ![d] = "set"]
    /\ UNCHANGED <<closesAll, starting, listens, order, afters>>

(* The close event answers every dispose() that waits.                      *)
ServerClosed ==
    /\ drained
    /\ drained' = FALSE
    /\ disposal' = [d \in Disposals |-> CASE disposal[d] = "waiting" -> "resolved"
                                          [] disposal[d] = "refusing" -> "rejected"
                                          [] OTHER -> disposal[d]]
    /\ deadline' = [d \in Disposals |->
                       IF Waiting(d) /\ deadline[d] = "set" THEN "cleared" ELSE deadline[d]]
    /\ UNCHANGED <<closesAll, handle, starting, listens, socket, connections, grace, order, afters>>

(* Mutant: the set is cleared before its connections are destroyed.         *)
ForgottenConnections(sockets) == sockets

(* _forceCloseConnections().                                                *)
ForceClosed(sockets) ==
    [s \in Sockets |-> IF s \in connections /\ sockets[s] = "open" THEN "destroyed" ELSE sockets[s]]

(* Nothing clears the timer of five seconds.                                *)
GraceEnds(d) ==
    /\ grace[d] = "set" /\ ~drained
    /\ grace' = [grace EXCEPT ![d] = "fired"]
    /\ socket' = ForceClosed(socket)
    /\ connections' = {}
    /\ UNCHANGED <<closesAll, handle, starting, listens, drained, disposal, deadline, order, afters>>

(* After ten seconds the call ends, whatever is still open.                 *)
DeadlineEnds(d) ==
    /\ deadline[d] = "set" /\ grace[d] = "fired" /\ ~drained
    /\ deadline' = [deadline EXCEPT ![d] = "fired"]
    /\ socket' = LET forced == ForceClosed(socket)
                 IN  [s \in Sockets |-> IF closesAll /\ forced[s] = "open" THEN "destroyed" ELSE forced[s]]
    /\ connections' = {}
    /\ disposal' = [disposal EXCEPT ![d] = "resolved"]
    /\ UNCHANGED <<closesAll, handle, starting, listens, drained, grace, order, afters>>

ServerNext ==
    \/ \E bound \in BOOLEAN : StartServer(bound)
    \/ ServerListens \/ ServerClosed
    \/ \E s \in Sockets : Connect(s) \/ SocketClosed(s)
    \/ \E idle \in SUBSET Sockets :
          StopServer(idle) \/ \E d \in Disposals : DisposeServer(d, idle)
    \/ \E d \in Disposals : GraceEnds(d) \/ DeadlineEnds(d)

ServerSpec == ServerInit /\ [][ServerNext]_serverVars

(* Events are delivered, timers fire and destroyed connections close; the   *)
(* clients may keep theirs for ever.                                        *)
ServerProgress ==
    \/ ServerListens \/ ServerClosed
    \/ \E s \in Sockets : socket[s] = "destroyed" /\ SocketClosed(s)
    \/ \E d \in Disposals : GraceEnds(d) \/ DeadlineEnds(d)

ServerFairness == WF_serverVars(ServerProgress)

ServerFairSpec == ServerSpec /\ ServerFairness
-----------------------------------------------------------------------------
ServerTypeOK ==
    /\ handle \in {"none", "binding", "open"} /\ starting \in 0..MaxListens
    /\ \A s \in connections : socket[s] = "open"
    /\ \A d \in Disposals : Waiting(d) => deadline[d] = "set"

(* Whatever its clients do, every dispose() ends, and no connection is left *)
(* open unless the server listens again by then;       also when calls of   *)
(* dispose() and stop() overlap, or find a server that was never started.   *)
ServerGoesDown ==
    \A d \in Disposals :
        Waiting(d) ~> ~Waiting(d) /\ (handle # "none" \/ \A s \in Sockets : ~Alive(s))
===============================================================================
