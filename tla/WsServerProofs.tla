--------------------------- MODULE WsServerProofs ---------------------------
(* Proofs about WebSocketServer, for every set of clients.  A registered client  *)
(* always has a handler that will unregister it, a client that waits is           *)
(* registered unless a send to it raised or a shutdown began, and a shutdown that *)
(* returned leaves nothing open.  They rest on ServerInv: the dead clients are     *)
(* those a send to whom raised, and a server that is down or was never bound,      *)
(* without which shutdown does not return, has nothing open and accepts nothing.  *)
EXTENDS WsServer, TLAPS

DeadRaised == dead_clients \subseteq raised

Unbound == server = "none" /\ (shut["main"] = "done" \/ run_server # "starting")
DownIsEmpty ==
  /\ server \in {"none", "down"} => \A c \in Client : conn[c] # "open" /\ handler[c] # "waiting"
  /\ run_server = "starting" => server = "none"
  /\ \A i \in Caller : shut[i] = "gather" => server # "none"
  /\ \A i \in Caller : shut[i] = "done" => server = "down" \/ Unbound

ServerInv == TypeOK /\ NoGhosts /\ DeadRaised /\ ServedWhileOpen /\ DownIsEmpty

LEMMA InitServer == Init => ServerInv
BY DEF Init, ServerInv, TypeOK, NoGhosts, DeadRaised, ServedWhileOpen, DownIsEmpty, Caller

-----------------------------------------------------------------------------
(* One lemma for each part, the actions grouped by what they change.            *)

(* The end of shutdown, of both.                                               *)
LEMMA CloseServerTyped ==
  ASSUME ServerInv, NEW i \in Caller, CloseServer(i)
  PROVE  /\ server' \in {"none", "up", "closing", "down"}
         /\ shut' \in [Caller -> {"none", "gather", "wait", "done"}]
         /\ \A k \in Caller : shut'[k] = "wait" => server' # "none"
BY DEF ServerInv, TypeOK, CloseServer, StopAccepting, HasServer

LEMMA StepTypeOK == ServerInv /\ [Next]_vars => TypeOK'
<1> SUFFICES ASSUME ServerInv, [Next]_vars PROVE TypeOK'
  OBVIOUS
<1> USE DEF ServerInv, TypeOK
<1>1. ASSUME NEW c \in Client, Connect(c) PROVE TypeOK'
  BY <1>1 DEF Connect, sending, ending
<1>2. ASSUME NEW c \in Client, Disconnect(c) \/ ServerCloses(c) PROVE TypeOK'
  BY <1>2 DEF Disconnect, ServerCloses, sending, ending
<1>3. ASSUME NEW c \in Client, HandlerEnds(c) PROVE TypeOK'
  BY <1>3 DEF HandlerEnds, Unregister, sending, ending
<1>4. CASE BroadcastBegins
  BY <1>4 DEF BroadcastBegins, ending
<1>5. ASSUME NEW c \in Client, NextClient(c) PROVE TypeOK'
  BY <1>5 DEF NextClient, Dead, ending
<1>6. CASE SendResumes
  BY <1>6 DEF SendResumes, Dead, ending
<1>7. CASE BroadcastEnds \/ BroadcastRaises
  BY <1>7 DEF BroadcastEnds, BroadcastRaises, Alive, ending
<1>8. CASE Signal \/ Start \/ StartFails \/ Exit \/ ServerDown \/ SimulationHolds \/ SimulationYields
  BY <1>8 DEF Signal, Start, StartFails, Exit, ServerDown, SimulationHolds, SimulationYields, sending
<1>9. ASSUME NEW i \in Caller, ShutdownBegins(i) \/ Gathered(i) \/ Closed(i)
      PROVE  TypeOK'
  <2>1. CASE Closed(i)
    BY <2>1 DEF Closed, IsClosed, sending
  <2>2. CASE Gathered(i)
    BY <2>2, CloseServerTyped DEF Gathered, sending
  <2>3. CASE ShutdownBegins(i)
    <3>1. CASE connected_clients = {}
      BY <2>3, <3>1, CloseServerTyped DEF ShutdownBegins, sending
    <3>2. CASE connected_clients # {}
      BY <2>3, <3>2 DEF ShutdownBegins, sending
    <3> QED
      BY <3>1, <3>2
  <2> QED
    BY <1>9, <2>1, <2>2, <2>3
<1>10. ASSUME NEW i \in Caller, NEW c \in Client, CloseClient(i, c) PROVE TypeOK'
  BY <1>10 DEF CloseClient, sending, ending
<1>11. CASE Ended \/ UNCHANGED vars
  BY <1>11 DEF Ended, vars, sending, ending
<1> QED
  BY <1>1, <1>2, <1>3, <1>4, <1>5, <1>6, <1>7, <1>8, <1>9, <1>10, <1>11
     DEF Next, Broadcasting, Closing

(* Connections and handlers only go forward, and what the rest may change of     *)
(* them and of the registered clients.                                         *)
LEMMA StepKinds ==
  ASSUME ServerInv, [Next]_vars
  PROVE  \/ \E c \in Client : Connect(c) \/ HandlerEnds(c)
         \/ /\ handler' = handler /\ connected_clients' \subseteq connected_clients
            /\ \A d \in Client : conn'[d] = conn[d] \/ (conn[d] = "open" /\ conn'[d] = "closed")
<1> DEFINE Kept == handler' = handler /\ connected_clients' \subseteq connected_clients
           Forward == \A d \in Client : conn'[d] = conn[d] \/ (conn[d] = "open" /\ conn'[d] = "closed")
<1>1. ASSUME NEW c \in Client,
             Disconnect(c) \/ ServerCloses(c) \/ \E i \in Caller : CloseClient(i, c)
      PROVE  Kept /\ Forward
  <2>1. conn[c] = "open" /\ conn' = [conn EXCEPT ![c] = "closed"]
    BY <1>1 DEF Disconnect, ServerCloses, CloseClient
  <2>2. handler' = handler /\ connected_clients' = connected_clients
    BY <1>1 DEF Disconnect, ServerCloses, CloseClient
  <2>3. conn \in [Client -> {"none", "open", "closed"}]
    BY DEF ServerInv, TypeOK
  <2>4. Forward
    BY <2>1, <2>3
  <2> QED
    BY <2>2, <2>4
<1>2. ASSUME \/ BroadcastBegins \/ (\E c \in Client : NextClient(c)) \/ SendResumes
             \/ BroadcastEnds \/ BroadcastRaises \/ Signal \/ Start \/ StartFails \/ Exit \/ ServerDown
             \/ SimulationHolds \/ SimulationYields \/ Ended \/ UNCHANGED vars
             \/ \E i \in Caller : ShutdownBegins(i) \/ Gathered(i) \/ Closed(i)
      PROVE  Kept /\ Forward
  <2>1. conn' = conn /\ handler' = handler
    BY <1>2 DEF BroadcastBegins, NextClient, SendResumes, BroadcastEnds, BroadcastRaises, Signal,
         Start, StartFails, Exit, ServerDown, SimulationHolds, SimulationYields, Ended, vars,
         ShutdownBegins, Gathered, Closed, Alive
  <2>2. connected_clients' \in {connected_clients, connected_clients \ dead_clients, {}}
    BY <1>2 DEF BroadcastBegins, NextClient, SendResumes, BroadcastEnds, BroadcastRaises, Signal,
         Start, StartFails, Exit, ServerDown, SimulationHolds, SimulationYields, Ended, vars,
         ShutdownBegins, Gathered, Closed, Alive
  <2>3. connected_clients' \subseteq connected_clients
    BY <2>2
  <2> QED
    BY <2>1, <2>3
<1> HIDE DEF Kept, Forward
<1>3. (\E c \in Client : Connect(c) \/ HandlerEnds(c)) \/ (Kept /\ Forward)
  BY <1>1, <1>2 DEF Next, Broadcasting, Closing
<1> QED
  BY <1>3 DEF Kept, Forward

LEMMA StepNoGhosts == ServerInv /\ [Next]_vars => NoGhosts'
<1> SUFFICES ASSUME ServerInv, [Next]_vars PROVE NoGhosts'
  OBVIOUS
<1> USE DEF ServerInv, TypeOK, NoGhosts
<1>1. ASSUME NEW c \in Client, Connect(c) PROVE NoGhosts'
  BY <1>1 DEF Connect
<1>2. ASSUME NEW c \in Client, HandlerEnds(c) PROVE NoGhosts'
  BY <1>2 DEF HandlerEnds, Unregister
<1> QED
  BY <1>1, <1>2, StepKinds

LEMMA StepDeadRaised == ServerInv /\ [Next]_vars => DeadRaised'
<1> SUFFICES ASSUME ServerInv, [Next]_vars PROVE DeadRaised'
  OBVIOUS
<1> USE DEF ServerInv, DeadRaised
<1>1. ASSUME NEW c \in Client, NextClient(c) PROVE DeadRaised'
  BY <1>1 DEF NextClient, Dead
<1>2. CASE SendResumes
  BY <1>2 DEF SendResumes, Dead
<1>3. CASE BroadcastBegins
  BY <1>3 DEF BroadcastBegins
<1>4. CASE UNCHANGED <<dead_clients, raised>>
  BY <1>4
<1> QED
  BY <1>1, <1>2, <1>3, <1>4
     DEF Next, Broadcasting, Closing, Connect, Disconnect, HandlerEnds, BroadcastEnds,
         BroadcastRaises, Signal, Start, StartFails, Exit, ServerDown, ServerCloses, ShutdownBegins,
         CloseClient, Gathered, Closed, SimulationHolds, SimulationYields, Ended, vars, sending

(* What a step may do to the history of raised sends and to the shutdowns.      *)
LEMMA StepGrows ==
  ASSUME ServerInv, [Next]_vars
  PROVE  raised \subseteq raised' /\ \A i \in Caller : shut[i] # "none" => shut'[i] # "none"
<1> USE DEF ServerInv, TypeOK
<1>1. raised \subseteq raised'
  BY DEF Next, Broadcasting, Closing, Connect, Disconnect, HandlerEnds, BroadcastBegins, NextClient,
         SendResumes, Dead, BroadcastEnds, BroadcastRaises, Signal, Start, StartFails, Exit,
         ServerDown, ServerCloses, ShutdownBegins, CloseClient, Gathered, Closed, SimulationHolds,
         SimulationYields, Ended, vars, sending
<1>2. ASSUME NEW i \in Caller, shut[i] # "none" PROVE shut'[i] # "none"
  <2>1. ASSUME NEW j \in Caller, ShutdownBegins(j) \/ Gathered(j) \/ Closed(j)
        PROVE  shut'[i] # "none"
    BY <1>2, <2>1 DEF ShutdownBegins, Gathered, Closed, CloseServer
  <2> QED
    BY <1>2, <2>1 DEF Next, Broadcasting, Closing, Connect, Disconnect, HandlerEnds,
       BroadcastBegins, NextClient, SendResumes, BroadcastEnds, BroadcastRaises, Signal, Start,
       StartFails, Exit, ServerDown, ServerCloses, CloseClient, SimulationHolds, SimulationYields,
       Ended, vars, ending
<1> QED
  BY <1>1, <1>2

LEMMA StepServed == ServerInv /\ [Next]_vars => ServedWhileOpen'
<1> SUFFICES ASSUME ServerInv, [Next]_vars,
                    NEW c \in Client, handler'[c] = "waiting", c \notin connected_clients'
             PROVE  c \in raised' \/ \E i \in Caller : shut'[i] # "none"
  BY DEF ServedWhileOpen
<1> USE DEF ServerInv, TypeOK
<1>1. CASE c \in raised \/ \E i \in Caller : shut[i] # "none"
  BY <1>1, StepGrows
<1>2. CASE c \notin raised /\ \A i \in Caller : shut[i] = "none"
  <2>0. handler[c] = "waiting" => c \in connected_clients
    BY <1>2 DEF ServedWhileOpen
  <2>1. ASSUME NEW d \in Client, Connect(d) PROVE FALSE
    BY <2>0, <2>1 DEF Connect
  <2>2. ASSUME NEW d \in Client, HandlerEnds(d) PROVE FALSE
    BY <2>0, <2>2 DEF HandlerEnds, Unregister
  <2>3. BroadcastEnds => FALSE
    BY <1>2, <2>0 DEF BroadcastEnds, Alive, DeadRaised
  <2>4. ASSUME NEW i \in Caller, ShutdownBegins(i) PROVE \E j \in Caller : shut'[j] # "none"
    BY <2>4 DEF ShutdownBegins, CloseServer
  <2>5. ASSUME NEW i \in Caller, Gathered(i) PROVE FALSE
    BY <1>2, <2>5 DEF Gathered
  <2>6. UNCHANGED <<handler, connected_clients>> => FALSE
    BY <2>0
  <2>7. ASSUME NEW d \in Client,
               \/ Disconnect(d) \/ ServerCloses(d) \/ NextClient(d)
               \/ \E i \in Caller : CloseClient(i, d) \/ Closed(i)
        PROVE  UNCHANGED <<handler, connected_clients>>
    BY <2>7 DEF Disconnect, ServerCloses, NextClient, CloseClient, Closed
  <2>8. \/ BroadcastBegins \/ SendResumes \/ BroadcastRaises \/ Signal \/ Start \/ StartFails
        \/ Exit \/ ServerDown \/ SimulationHolds \/ SimulationYields \/ Ended \/ UNCHANGED vars
        \/ \E i \in Caller : Closed(i)
        => UNCHANGED <<handler, connected_clients>>
    BY DEF BroadcastBegins, SendResumes, BroadcastRaises, Signal, Start, StartFails, Exit,
           ServerDown, SimulationHolds, SimulationYields, Ended, vars, Closed
  <2> HIDE DEF ServerInv, TypeOK
  <2> QED
    BY <2>1, <2>2, <2>3, <2>4, <2>5, <2>6, <2>7, <2>8 DEF Next, Broadcasting, Closing
<1> QED
  BY <1>1, <1>2

(* What a step may do to the server.                                           *)
LEMMA StepServerKinds ==
  ASSUME ServerInv, [Next]_vars
  PROVE  /\ server' = "none" => server = "none"
         /\ server' = "down" => server = "down" \/ ServerDown
         /\ server = "down" => server' = "down"
         /\ server = "none" => Start \/ server' = "none"
         /\ run_server' = "starting" => run_server = "starting" /\ UNCHANGED run_server
<1> USE DEF ServerInv, TypeOK, DownIsEmpty
<1>1. ASSUME NEW i \in Caller, ShutdownBegins(i) \/ Gathered(i) \/ Closed(i)
      PROVE  /\ server' = server \/ (server = "up" /\ server' = "closing")
             /\ UNCHANGED run_server
  BY <1>1 DEF ShutdownBegins, Gathered, Closed, CloseServer, StopAccepting
<1>2. ASSUME NEW c \in Client,
             \/ Connect(c) \/ Disconnect(c) \/ HandlerEnds(c) \/ NextClient(c) \/ ServerCloses(c)
             \/ \E j \in Caller : CloseClient(j, c)
      PROVE  UNCHANGED <<server, run_server>>
  BY <1>2 DEF Connect, Disconnect, HandlerEnds, NextClient, ServerCloses, CloseClient, ending
<1>3. \/ BroadcastBegins \/ SendResumes \/ BroadcastEnds \/ BroadcastRaises \/ Signal
      \/ SimulationHolds \/ SimulationYields \/ Ended \/ UNCHANGED vars
      => UNCHANGED <<server, run_server>>
  BY DEF BroadcastBegins, SendResumes, BroadcastEnds, BroadcastRaises, Signal,
         SimulationHolds, SimulationYields, Ended, vars, ending
<1>4. Start => server = "none" /\ server' = "up" /\ run_server' = "serving"
  BY DEF Start
<1>5. StartFails \/ Exit => /\ run_server' = "exiting"
                            /\ server' = server \/ (server = "up" /\ server' = "closing")
  BY DEF StartFails, Exit
<1>6. ServerDown => server = "closing" /\ server' = "down" /\ UNCHANGED run_server
  BY DEF ServerDown
<1> HIDE DEF ServerInv, TypeOK, DownIsEmpty
<1> QED
  BY <1>1, <1>2, <1>3, <1>4, <1>5, <1>6 DEF Next, Broadcasting, Closing

LEMMA StepDown == ServerInv /\ [Next]_vars => DownIsEmpty'
<1> SUFFICES ASSUME ServerInv, [Next]_vars PROVE DownIsEmpty'
  OBVIOUS
<1> DEFINE Empty == \A c \in Client : conn[c] # "open" /\ handler[c] # "waiting"
<1>1. server \in {"none", "down"} => Empty'
  <2> SUFFICES ASSUME server \in {"none", "down"} PROVE Empty'
    OBVIOUS
  <2>1. ASSUME NEW c \in Client, Connect(c) PROVE FALSE
    BY <2>1 DEF Connect
  <2>2. ASSUME NEW c \in Client, HandlerEnds(c) PROVE Empty'
    BY <2>2 DEF HandlerEnds, ServerInv, DownIsEmpty, TypeOK
  <2> QED
    BY <2>1, <2>2, StepKinds DEF ServerInv, DownIsEmpty
<1>2. ServerDown => Empty'
  BY DEF ServerDown
<1>3. server' \in {"none", "down"} => Empty'
  BY <1>1, <1>2, StepServerKinds
<1>4. run_server' = "starting" => server' = "none"
  <2>1. Start => run_server' = "serving"
    BY DEF Start
  <2> QED
    BY <2>1, StepServerKinds DEF ServerInv, DownIsEmpty
<1>5. ASSUME NEW i \in Caller, shut'[i] = "gather" PROVE server' # "none"
  <2> USE DEF ServerInv, TypeOK, DownIsEmpty
  <2>1. CASE shut[i] = "gather"
    BY <2>1, StepServerKinds
  <2>2. ASSUME shut[i] # "gather", NEW j \in Caller, ShutdownBegins(j)
        PROVE  server # "none"
    <3>1. connected_clients # {}
      BY <1>5, <2>2 DEF ShutdownBegins, CloseServer
    <3> QED
      BY <3>1 DEF NoGhosts
  <2>3. ASSUME NEW j \in Caller, Gathered(j) \/ Closed(j)
        PROVE  shut'[i] = "gather" => shut[i] = "gather"
    BY <2>3 DEF Gathered, Closed, CloseServer
  <2>4. (\E j \in Caller : ShutdownBegins(j) \/ Gathered(j) \/ Closed(j)) \/ shut' = shut
    BY DEF Next, Broadcasting, Closing, Connect, Disconnect, HandlerEnds,
       BroadcastBegins, NextClient, SendResumes, BroadcastEnds, BroadcastRaises, Signal, Start,
       StartFails, Exit, ServerDown, ServerCloses, CloseClient, SimulationHolds,
       SimulationYields, Ended, vars, ending
  <2> HIDE DEF ServerInv, TypeOK, DownIsEmpty
  <2> QED
    BY <1>5, <2>1, <2>2, <2>3, <2>4, StepServerKinds
<1>6. ASSUME NEW i \in Caller, shut'[i] = "done" PROVE server' = "down" \/ Unbound'
  <2> USE DEF ServerInv, TypeOK, DownIsEmpty
  <2>1. CASE shut[i] = "done"
    <3>1. CASE server = "down"
      BY <3>1, StepServerKinds
    <3>2. CASE Unbound
      <4>1. ~Start
        BY <3>2 DEF Start, Unbound
      <4>2. server' = "none"
        BY <3>2, <4>1, StepServerKinds DEF Unbound
      <4>3. shut["main"] = "done" => shut'["main"] = "done"
        <5>1. ASSUME NEW j \in Caller, ShutdownBegins(j) \/ Gathered(j) \/ Closed(j)
              PROVE shut["main"] = "done" => shut'["main"] = "done"
          BY <5>1 DEF ShutdownBegins, Gathered, Closed, CloseServer, Caller
        <5> QED
          BY <5>1 DEF Next, Broadcasting, Closing, Connect, Disconnect, HandlerEnds,
             BroadcastBegins, NextClient, SendResumes, BroadcastEnds, BroadcastRaises, Signal, Start,
             StartFails, Exit, ServerDown, ServerCloses, CloseClient, SimulationHolds,
             SimulationYields, Ended, vars, ending
      <4> QED
        BY <3>2, <4>2, <4>3, StepServerKinds DEF Unbound
    <3> QED
      BY <2>1, <3>1, <3>2
  <2>2. CASE shut[i] # "done"
    <3>1. ASSUME NEW j \in Caller, ShutdownBegins(j) \/ Gathered(j)
          PROVE Unbound'
      <4>1. CloseServer(j) /\ i = j
        <5>1. CloseServer(j) \/ shut' = [shut EXCEPT ![j] = "gather"]
          BY <3>1 DEF ShutdownBegins, Gathered
        <5>2. shut' # [shut EXCEPT ![j] = "gather"]
          BY <1>6, <2>2
        <5>3. CloseServer(j) => i = j
          BY <1>6, <2>2 DEF CloseServer
        <5> QED
          BY <5>1, <5>2, <5>3
      <4>2. server = "none" /\ server' = "none" /\ shut'[j] = "done"
        BY <1>6, <4>1 DEF CloseServer, StopAccepting, HasServer
      <4>3. j = "main" \/ run_server' # "starting"
        <5>1. CASE Gathered(j)
          BY <4>2, <5>1 DEF Gathered
        <5>2. CASE ShutdownBegins(j)
          BY <5>2 DEF ShutdownBegins, Caller
        <5> QED
          BY <3>1, <5>1, <5>2
      <4> QED
        BY <4>2, <4>3 DEF Unbound, Caller
    <3>2. ASSUME NEW j \in Caller, Closed(j) PROVE server' = "down"
      BY <3>2 DEF Closed, IsClosed
    <3>3. shut' = shut => FALSE
      BY <1>6, <2>2
    <3>4. ASSUME NEW c \in Client,
                 \/ Connect(c) \/ Disconnect(c) \/ HandlerEnds(c) \/ NextClient(c) \/ ServerCloses(c)
                 \/ \E j \in Caller : CloseClient(j, c)
          PROVE  shut' = shut
      BY <3>4 DEF Connect, Disconnect, HandlerEnds, NextClient, ServerCloses, CloseClient, ending
    <3>5. \/ BroadcastBegins \/ SendResumes \/ BroadcastEnds \/ BroadcastRaises \/ Signal \/ Start
          \/ StartFails \/ Exit \/ ServerDown \/ SimulationHolds \/ SimulationYields \/ Ended
          \/ UNCHANGED vars
          => shut' = shut
      BY DEF BroadcastBegins, SendResumes, BroadcastEnds, BroadcastRaises, Signal, Start, StartFails,
             Exit, ServerDown, SimulationHolds, SimulationYields, Ended, vars, ending
    <3> HIDE DEF ServerInv, TypeOK, DownIsEmpty
    <3> QED
      BY <3>1, <3>2, <3>3, <3>4, <3>5 DEF Next, Broadcasting, Closing
  <2> QED
    BY <2>1, <2>2
<1> QED
  BY <1>3, <1>4, <1>6, <1>5 DEF DownIsEmpty

LEMMA StepServer == ServerInv /\ [Next]_vars => ServerInv'
BY StepTypeOK, StepNoGhosts, StepDeadRaised, StepServed, StepDown DEF ServerInv

LEMMA ServerInvariant == Spec => []ServerInv
BY InitServer, StepServer, PTL DEF Spec

-----------------------------------------------------------------------------
(* The variables keep their types.                                            *)
THEOREM ServerTyped == Spec => []TypeOK
<1>1. ServerInv => TypeOK
  BY DEF ServerInv
<1> QED
  BY <1>1, ServerInvariant, PTL

(* No registered client is without a handler that will unregister it (handler,   *)
(* broadcast and shutdown of websocket.py).                                     *)
THEOREM NobodyForgotten == Spec => []NoGhosts
<1>1. ServerInv => NoGhosts
  BY DEF ServerInv
<1> QED
  BY <1>1, ServerInvariant, PTL

(* A client that waits gets the frames, unless a send to that very client raised   *)
(* or a shutdown began (handler and broadcast).                                *)
THEOREM WaitingAreServed == Spec => []ServedWhileOpen
<1>1. ServerInv => ServedWhileOpen
  BY DEF ServerInv
<1> QED
  BY <1>1, ServerInvariant, PTL

(* A shutdown that returned left nothing open, with a server or without one     *)
(* (shutdown).                                                                 *)
THEOREM ShutdownLeavesNothing == Spec => []NothingLeftOpen
<1>1. ServerInv => NothingLeftOpen
  BY DEF ServerInv, DownIsEmpty, Unbound, NothingLeftOpen
<1> QED
  BY <1>1, ServerInvariant, PTL
=============================================================================
