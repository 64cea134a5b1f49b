------------------------------ MODULE WsServer ------------------------------
(* WebSocketServer of src/scripts/websocket.py: the coroutines that share the  *)
(* set connected_clients on one event loop - a handler per connection, the      *)
(* broadcast of a frame, and shutdown, which both run_server (in its finally)   *)
(* and Orchestrator.run call.  A coroutine is left only where it awaits, so     *)
(* other coroutines run while a send is suspended, never between two sends      *)
(* that are not (see Free).                                                     *)
(*                                                                              *)
(* Orchestrator.run_simulation shares the event loop and may hold it: its poll   *)
(* blocks, and its put on an unbounded queue never awaits.                       *)
(*                                                                              *)
(* The library websockets is external: it listens or fails to, accepts and      *)
(* closes connections, starts the handlers, and a server that is closed closes   *)
(* what is open and waits for the handlers.  A send may complete at once or       *)
(* suspend (its buffer is full); it raises when the connection is closed and may  *)
(* raise for another reason while it is open.                                    *)
EXTENDS FiniteSets, Naturals

CONSTANT Client             \* connections; one that ended never comes back

ASSUME ClientAssumption == IsFiniteSet(Client)

VARIABLES
  conn,                \* the connection: "none", "open", "closed"
  handler,             \* its handler: "none", "waiting", "done"
  connected_clients,
  bcast,               \* broadcast: "idle", "next" (in its loop), "sending" (suspended)
  current,             \* the client whose send is suspended
  atStart, visited,    \* the set as the loop began, and whom it has visited
  dead_clients,
  raised,              \* clients a send to whom raised (history)
  simulation,          \* run_simulation: "yields", "holds" the event loop, "over"
  stop,                \* the event _stop
  run_server,          \* "starting", "serving", "exiting" (has left the body of async with)
  server,              \* self.server: "none", "up", "closing", "down"
  shut,                \* the two calls of shutdown: "none", "gather", "wait", "done"
  toClose              \* the clients each of them closes

Caller == {"run_server", "main"}
sending == <<bcast, current, atStart, visited, dead_clients, raised>>
ending == <<simulation, stop, run_server, server, shut, toClose>>
vars == <<conn, handler, connected_clients, sending, ending>>

TypeOK ==
  /\ conn \in [Client -> {"none", "open", "closed"}]
  /\ handler \in [Client -> {"none", "waiting", "done"}]
  /\ connected_clients \subseteq Client
  /\ bcast \in {"idle", "next", "sending"}
  /\ current \subseteq Client /\ (current # {} <=> bcast = "sending")
  /\ atStart \subseteq Client /\ visited \subseteq Client
  /\ dead_clients \subseteq Client /\ raised \subseteq Client
  /\ simulation \in {"yields", "holds", "over"}
  /\ stop \in BOOLEAN
  /\ run_server \in {"starting", "serving", "exiting"}
  /\ server \in {"none", "up", "closing", "down"}
  /\ shut \in [Caller -> {"none", "gather", "wait", "done"}]
  /\ \A i \in Caller : shut[i] = "wait" => server # "none"
  /\ toClose \in [Caller -> SUBSET Client]

Init ==
  /\ conn = [c \in Client |-> "none"] /\ handler = [c \in Client |-> "none"]
  /\ connected_clients = {}
  /\ bcast = "idle" /\ current = {} /\ atStart = {} /\ visited = {}
  /\ dead_clients = {} /\ raised = {}
  /\ simulation = "yields" /\ stop = FALSE
  /\ run_server = "starting" /\ server = "none"
  /\ shut = [i \in Caller |-> "none"] /\ toClose = [i \in Caller |-> {}]

(* The event loop is free to run something else.                              *)
Free == bcast # "next" /\ simulation # "holds"

(* run_simulation goes on without awaiting anything that suspends it, and then  *)
(* awaits the sleep of 0.1 s in _collect_updates.                              *)
SimulationHolds ==
  /\ Free /\ simulation = "yields"
  /\ simulation' = "holds"
  /\ UNCHANGED <<conn, handler, connected_clients, sending, stop, run_server, server, shut, toClose>>

SimulationYields ==
  /\ simulation = "holds"
  /\ simulation' = "yields"
  /\ UNCHANGED <<conn, handler, connected_clients, sending, stop, run_server, server, shut, toClose>>

-----------------------------------------------------------------------------
(* Connections and their handlers.                                           *)

(* The library accepts a connection and starts its handler, which registers it *)
(* and waits for its end.                                                      *)
Connect(c) ==
  /\ Free /\ server = "up" /\ conn[c] = "none"
  /\ conn' = [conn EXCEPT ![c] = "open"]
  /\ handler' = [handler EXCEPT ![c] = "waiting"]
  /\ connected_clients' = connected_clients \cup {c}
  /\ UNCHANGED <<sending, ending>>

(* External: the peer leaves, or the keepalive finds it unresponsive.          *)
Disconnect(c) ==
  /\ Free /\ conn[c] = "open"
  /\ conn' = [conn EXCEPT ![c] = "closed"]
  /\ UNCHANGED <<handler, connected_clients, sending, ending>>

(* wait_closed returned: the finally block removes the client.  When somebody     *)
(* else removed it first that raises KeyError, which ends the handler as well.    *)
UnregisterNot(c) == UNCHANGED connected_clients  \* slip: no finally block
Unregister(c) == connected_clients' = connected_clients \ {c}

HandlerEnds(c) ==
  /\ Free /\ handler[c] = "waiting" /\ conn[c] = "closed"
  /\ handler' = [handler EXCEPT ![c] = "done"]
  /\ Unregister(c)
  /\ UNCHANGED <<conn, sending, ending>>

-----------------------------------------------------------------------------
(* broadcast, called by one task, one frame after the other.                  *)

BroadcastBegins ==
  /\ Free /\ bcast = "idle" /\ connected_clients # {}
  /\ bcast' = "next"
  /\ atStart' = connected_clients /\ visited' = {} /\ dead_clients' = {}
  /\ UNCHANGED <<conn, handler, connected_clients, current, raised, ending>>

(* The iterator raises when the set has another size than at the start.        *)
SizeChanged == Cardinality(connected_clients) # Cardinality(atStart)

(* Both except clauses: the clients a send to whom raised are dead.            *)
Dead(S) == dead_clients' = dead_clients \cup S /\ raised' = raised \cup S

(* The iterator's next client: the send completes or suspends, or it raises,    *)
(* as it does when the connection is closed and may do when it is open.         *)
NextClient(c) ==
  /\ bcast = "next" /\ ~SizeChanged /\ c \in connected_clients \ visited
  /\ visited' = visited \cup {c}
  /\ \/ /\ conn[c] = "open"
        /\ bcast' \in {"next", "sending"}
        /\ current' = IF bcast' = "sending" THEN {c} ELSE {}
        /\ UNCHANGED <<dead_clients, raised>>
     \/ /\ Dead({c})
        /\ UNCHANGED <<bcast, current>>
  /\ UNCHANGED <<conn, handler, connected_clients, atStart, ending>>

(* The suspended send goes on, or raises: the connection ended meanwhile, or     *)
(* something else went wrong.                                                   *)
SendResumes ==
  /\ Free /\ bcast = "sending"
  /\ \/ /\ \A c \in current : conn[c] = "open"
        /\ UNCHANGED <<dead_clients, raised>>
     \/ Dead(current)
  /\ bcast' = "next" /\ current' = {}
  /\ UNCHANGED <<conn, handler, connected_clients, atStart, visited, ending>>

(* The end of the iteration, and the removal of the clients found dead.  A set *)
(* that changed without changing its size may have moved its members, so the   *)
(* iteration may have missed some.                                             *)
AliveAndSent == (connected_clients \cap visited) \ dead_clients  \* slip: keeps only whom it sent to
Alive == connected_clients \ dead_clients

BroadcastEnds ==
  /\ bcast = "next" /\ ~SizeChanged
  /\ connected_clients \subseteq visited \/ connected_clients # atStart
  /\ bcast' = "idle"
  /\ connected_clients' = Alive
  /\ atStart' = {} /\ visited' = {}
  /\ UNCHANGED <<conn, handler, current, dead_clients, raised, ending>>

(* RuntimeError: "Set changed size during iteration"; ws_data_sender logs it.   *)
BroadcastRaises ==
  /\ bcast = "next" /\ SizeChanged
  /\ bcast' = "idle"
  /\ atStart' = {} /\ visited' = {}
  /\ UNCHANGED <<conn, handler, connected_clients, current, dead_clients, raised, ending>>

-----------------------------------------------------------------------------
(* The start and the end of the server.                                       *)

(* `async with serve(...)' has bound self.server, unless Orchestrator.run has    *)
(* cancelled the task, which it does when its own shutdown has returned.         *)
Start ==
  /\ Free /\ run_server = "starting" /\ shut["main"] # "done"
  /\ run_server' = "serving" /\ server' = "up"
  /\ UNCHANGED <<conn, handler, connected_clients, sending, simulation, stop, shut, toClose>>

(* Listening failed or the task was cancelled: self.server is still None.        *)
StartFails ==
  /\ Free /\ run_server = "starting"
  /\ run_server' = "exiting"
  /\ UNCHANGED <<conn, handler, connected_clients, sending, simulation, stop, server, shut, toClose>>

(* A signal makes the event loop set _stop.                                    *)
Signal ==
  /\ Free /\ ~stop
  /\ stop' = TRUE
  /\ UNCHANGED <<conn, handler, connected_clients, sending, simulation, run_server, server, shut, toClose>>

(* run_server leaves the body of `async with' when _stop is set, or when it is    *)
(* cancelled; the library closes the server on the way out.                     *)
Exit ==
  /\ Free /\ run_server = "serving" /\ (stop \/ shut["main"] = "done")
  /\ run_server' = "exiting"
  /\ server' = IF server = "up" THEN "closing" ELSE server
  /\ UNCHANGED <<conn, handler, connected_clients, sending, simulation, stop, shut, toClose>>

(* External: a closing server closes its connections and is down when all       *)
(* handlers have returned.                                                      *)
ServerCloses(c) ==
  /\ Free /\ server = "closing" /\ conn[c] = "open"
  /\ conn' = [conn EXCEPT ![c] = "closed"]
  /\ UNCHANGED <<handler, connected_clients, sending, ending>>

ServerDown ==
  /\ Free /\ server = "closing"
  /\ \A c \in Client : conn[c] # "open" /\ handler[c] # "waiting"
  /\ server' = "down"
  /\ UNCHANGED <<conn, handler, connected_clients, sending, simulation, stop, run_server, shut, toClose>>

(* The last part of shutdown, up to its await: self.server.close() when there   *)
(* is a server, and without one shutdown returns.                               *)
HasServerUnasked == TRUE                         \* slip: self.server may be None
HasServer == server # "none"
StopAcceptingNot == UNCHANGED server             \* slip: waits without closing
StopAccepting == server' = IF server = "up" THEN "closing" ELSE server

CloseServer(i) ==
  /\ StopAccepting
  /\ shut' = [shut EXCEPT ![i] = IF HasServer THEN "wait" ELSE "done"]

(* shutdown begins: from Orchestrator.run when the simulation is over, from     *)
(* run_server when its `async with' is left.                                    *)
ShutdownBegins(i) ==
  /\ Free /\ shut[i] = "none"
  /\ IF i = "main" THEN simulation = "yields" /\ simulation' = "over"
     ELSE run_server = "exiting" /\ server \in {"none", "down"} /\ UNCHANGED simulation
  /\ IF connected_clients = {} THEN CloseServer(i) /\ UNCHANGED toClose
     ELSE /\ toClose' = [toClose EXCEPT ![i] = connected_clients]
          /\ shut' = [shut EXCEPT ![i] = "gather"]
          /\ UNCHANGED server
  /\ UNCHANGED <<conn, handler, connected_clients, sending, stop, run_server>>

(* client.close() of the gathered clients.                                     *)
CloseClient(i, c) ==
  /\ Free /\ shut[i] = "gather" /\ c \in toClose[i] /\ conn[c] = "open"
  /\ conn' = [conn EXCEPT ![c] = "closed"]
  /\ UNCHANGED <<handler, connected_clients, sending, ending>>

(* gather returned; clear() empties the set, also of clients that came in       *)
(* while it was waiting.                                                        *)
Gathered(i) ==
  /\ Free /\ shut[i] = "gather"
  /\ \A c \in toClose[i] : conn[c] = "closed"
  /\ connected_clients' = {}
  /\ toClose' = [toClose EXCEPT ![i] = {}]
  /\ CloseServer(i)
  /\ UNCHANGED <<conn, handler, sending, simulation, stop, run_server>>

(* await self.server.wait_closed() returned.                                    *)
IsClosing == server # "up"                       \* slip: does not wait
IsClosed == server = "down"

Closed(i) ==
  /\ Free /\ shut[i] = "wait" /\ IsClosed
  /\ shut' = [shut EXCEPT ![i] = "done"]
  /\ UNCHANGED <<conn, handler, connected_clients, sending, simulation, stop, run_server, server, toClose>>

(* Everything has come to its end.                                            *)
Ended ==
  /\ \A i \in Caller : shut[i] = "done"
  /\ bcast = "idle"
  /\ UNCHANGED vars

-----------------------------------------------------------------------------
Broadcasting == (\E c \in Client : NextClient(c)) \/ SendResumes \/ BroadcastEnds \/ BroadcastRaises
Closing == \/ Exit \/ ServerDown
           \/ \E c \in Client : ServerCloses(c)
           \/ \E i \in Caller : Gathered(i) \/ Closed(i)
           \/ \E i \in Caller, c \in Client : CloseClient(i, c)
Callbacks == \/ \E c \in Client : HandlerEnds(c)
             \/ Start \/ StartFails \/ Closing \/ ShutdownBegins("run_server")

Next == \/ \E c \in Client : Connect(c) \/ Disconnect(c) \/ HandlerEnds(c)
        \/ BroadcastBegins \/ Broadcasting
        \/ Start \/ StartFails \/ Signal \/ Closing
        \/ \E i \in Caller : ShutdownBegins(i)
        \/ SimulationHolds \/ SimulationYields
        \/ Ended

(* The event loop serves its ready callbacks in turn.  One that is ready stays    *)
(* so while another coroutine runs or run_simulation holds the loop, and gets its *)
(* turn if the loop is free again and again (hence strong fairness), each of them *)
(* once.  A suspended send ends: the peer reads, or the keepalive closes the      *)
(* connection.  Nothing is assumed of run_simulation, which may hold the loop for *)
(* ever, and nothing makes clients come or go, frames appear, or the program end. *)
Spec == /\ Init /\ [][Next]_vars
        /\ SF_vars(Broadcasting)
        /\ SF_vars(Callbacks)

-----------------------------------------------------------------------------
(* Properties.                                                               *)

(* No ghosts: a registered client has a handler that will unregister it; the    *)
(* three places that remove clients (handler, broadcast, shutdown) never leave  *)
(* one behind that nobody removes (lines 31-38, 85-90, 101).                    *)
NoGhosts == \A c \in connected_clients : handler[c] = "waiting"

(* A client whose handler is waiting is registered, hence gets the frames,      *)
(* unless a send to it raised - not one to another client of the same broadcast, *)
(* nor one that was only slow - or a shutdown began (lines 31-38, 72-90).        *)
ServedWhileOpen ==
  \A c \in Client : handler[c] = "waiting" /\ c \notin connected_clients
     => c \in raised \/ \E i \in Caller : shut[i] # "none"

(* When shutdown returns no connection is open and no handler runs, those that  *)
(* came in while it was closing the others included, and none comes in later,    *)
(* whether the server was started or not (lines 92-106).                        *)
NothingLeftOpen ==
  \A i \in Caller : shut[i] = "done" =>
     \A c \in Client : conn[c] # "open" /\ handler[c] # "waiting"

(* run_simulation gives the event loop away again and again.                    *)
LoopIsShared == []<>(simulation # "holds")

(* A connection that ended is forgotten, whoever gets to remove it, as long as   *)
(* run_simulation shares the event loop.                                        *)
ClosedForgotten ==
  LoopIsShared => \A c \in Client : conn[c] = "closed" ~> c \notin connected_clients

(* A shutdown that began returns, whatever clients and broadcasts do: that of     *)
(* Orchestrator.run in any case, for the simulation is over by then, and that of   *)
(* run_server, which a signal starts, as long as run_simulation shares the loop.  *)
ShutdownReturns ==
  /\ shut["main"] # "none" ~> shut["main"] = "done"
  /\ LoopIsShared => (shut["run_server"] # "none" ~> shut["run_server"] = "done")

(* The clients a broadcast found disconnected are removed when it is over       *)
(* (comment of line 85).                                                        *)
DeadClientsRemoved == bcast = "idle" => dead_clients \cap connected_clients = {}
=============================================================================
