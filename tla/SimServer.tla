----------------------------- MODULE SimServer -----------------------------
(* The program of ci/main.cpp: the main thread simulates and sends frames, the *)
(* thread server_thread runs the asio loop of websocketpp and calls on_open and *)
(* on_close, and both share connected_clients under clients_mutex.  SIGINT and  *)
(* SIGTERM interrupt either thread, at any point, to run signal_handler on it.   *)
(*                                                                              *)
(* websocketpp and asio are external: a connection is open before its open       *)
(* handler runs and no longer open well before its close handler does; the loop  *)
(* calls one handler at a time; send throws on a connection that is not open.     *)
(* The io_service has a mutex that is not recursive: the loop holds it while it   *)
(* picks what to do next, a send while it posts its write, stop() while it stops. *)
(* on_open and on_close hold clients_mutex within one step, so that it is taken   *)
(* exactly while sendFrame iterates.  The lock of stdout is recursive (glibc), so *)
(* the output of the handler waits for nobody but a thread that goes on.         *)
EXTENDS Naturals, FiniteSets

CONSTANTS Client,   \* connections; one that ended never comes back
          MaxT      \* bound of the model on t, which stays there

ASSUME ServerAssumption == IsFiniteSet(Client) /\ MaxT \in Nat

VARIABLES
  running,             \* the atomic flag
  main,                \* where the main thread stands
  t,
  connected_clients,
  visited,             \* clients sendFrame's loop has visited
  last,                \* frame number + 1 last sent to a client (history)
  conn,                \* state of a connection in the library
  loop,                \* server_thread: "none", "run", "stopped" (stop was called), "ended"
  handler,             \* the handler it is in: "none", "on_open", "on_close"
  subject,             \* and its connection
  io_lock,             \* who holds the io_service's mutex: "free" or a thread
  signal,              \* of a thread that runs signal_handler, where it is in stop():
                       \* "none", "stop" (about to lock), "stopping" (holds the mutex)
  ended                \* the process: "no", "aborted" (std::terminate), "crashed"

Thread == {"main", "asio"}
simulation == <<main, t, visited, last>>
network    == <<conn, handler, subject>>
vars == <<running, simulation, connected_clients, network, loop, io_lock, signal, ended>>

Conn == {"none", "open", "closing", "closed", "gone"}

TypeOK ==
  /\ running \in BOOLEAN
  /\ main \in {"setup", "listen", "accept", "initialize", "loop", "step", "lock", "send", "post",
              "return", "end"}
  /\ t \in 0..MaxT
  /\ connected_clients \subseteq Client /\ visited \subseteq connected_clients
  /\ last \in [Client -> 0..(MaxT + 1)]
  /\ conn \in [Client -> Conn]
  /\ loop \in {"none", "run", "stopped", "ended"}
  /\ handler \in {"none", "on_open", "on_close"}
  /\ subject \subseteq Client /\ (subject = {} <=> handler = "none")
  /\ io_lock \in {"free"} \cup Thread
  /\ signal \in [Thread -> {"none", "stop", "stopping"}]
  /\ \A w \in Thread : signal[w] = "stopping" => io_lock = w
  /\ ended \in {"no", "aborted", "crashed"}

(* The signal handlers are installed, init_asio is still to come.             *)
Init ==
  /\ running = TRUE /\ main = "setup" /\ t = 0
  /\ connected_clients = {} /\ visited = {} /\ last = [c \in Client |-> 0]
  /\ conn = [c \in Client |-> "none"]
  /\ loop = "none" /\ handler = "none" /\ subject = {}
  /\ io_lock = "free" /\ signal = [w \in Thread |-> "none"]
  /\ ended = "no"

(* The thread lives and no signal handler has interrupted it.                  *)
Alive(w) == /\ ended = "no"
            /\ w = "asio" => main \notin {"setup", "listen", "accept"} /\ loop # "ended"
Runs(w) == Alive(w) /\ signal[w] = "none"

-----------------------------------------------------------------------------
(* The main thread.                                                          *)

InitAsio ==
  /\ Runs("main") /\ main = "setup"
  /\ main' = "listen"
  /\ UNCHANGED <<running, t, visited, last, connected_clients, network, loop, io_lock, signal, ended>>

(* listen, and start_accept, which takes the mutex.                            *)
Accept ==
  /\ Runs("main") /\ main = "listen" /\ io_lock = "free"
  /\ main' = "accept" /\ io_lock' = "main"
  /\ UNCHANGED <<running, t, visited, last, connected_clients, network, loop, signal, ended>>

(* start_accept is done and the thread is started; its run() returns at once    *)
(* when stop came first.                                                       *)
StartThread ==
  /\ Runs("main") /\ main = "accept"
  /\ main' = "initialize" /\ io_lock' = "free"
  /\ loop' = IF loop = "stopped" THEN "stopped" ELSE "run"
  /\ UNCHANGED <<running, t, visited, last, connected_clients, network, signal, ended>>

(* The port is taken: listen throws and nobody catches.                       *)
ListenFails ==
  /\ Runs("main") /\ main = "listen"
  /\ main' = "end" /\ ended' = "aborted"
  /\ UNCHANGED <<running, t, visited, last, connected_clients, network, loop, io_lock, signal>>

Initialize ==
  /\ Runs("main") /\ main = "initialize"
  /\ main' = "loop"
  /\ UNCHANGED <<running, t, visited, last, connected_clients, network, loop, io_lock, signal, ended>>

(* for (int t = 0; running; ++t), and cleanup() when the loop is left.        *)
KeepsRunningAlways == TRUE                       \* slip: the flag is not read
KeepsRunning == running
NextT == IF t < MaxT THEN t + 1 ELSE t

LoopTest ==
  /\ Runs("main") /\ main = "loop"
  /\ main' = IF KeepsRunning THEN "step" ELSE "return"
  /\ UNCHANGED <<running, t, visited, last, connected_clients, network, loop, io_lock, signal, ended>>

(* stepSimulation and the copy of the particles; when the copy fails sendFrame *)
(* returns before it sends anything.                                          *)
StepAndCopy ==
  /\ Runs("main") /\ main = "step"
  /\ \/ main' = "lock" /\ UNCHANGED t
     \/ main' = "loop" /\ t' = NextT
  /\ UNCHANGED <<running, visited, last, connected_clients, network, loop, io_lock, signal, ended>>

Lock ==
  /\ Runs("main") /\ main = "lock"
  /\ main' = "send"
  /\ UNCHANGED <<running, t, visited, last, connected_clients, network, loop, io_lock, signal, ended>>

(* send queues the message and, unless a write is under way, posts one.         *)
Send(c) ==
  /\ Runs("main") /\ main = "send"
  /\ c \in connected_clients \ visited /\ conn[c] = "open"
  /\ visited' = visited \cup {c}
  /\ last' = [last EXCEPT ![c] = t + 1]
  /\ \/ UNCHANGED <<main, io_lock>>
     \/ io_lock = "free" /\ io_lock' = "main" /\ main' = "post"
  /\ UNCHANGED <<running, t, connected_clients, network, loop, signal, ended>>

Posted ==
  /\ Runs("main") /\ main = "post"
  /\ main' = "send" /\ io_lock' = "free"
  /\ UNCHANGED <<running, t, visited, last, connected_clients, network, loop, signal, ended>>

(* The connection is closing, or closed and on_close has not run: send throws,  *)
(* which nobody catches.                                                       *)
SendThrows(c) ==
  /\ Runs("main") /\ main = "send"
  /\ c \in connected_clients \ visited /\ conn[c] # "open"
  /\ main' = "end" /\ ended' = "aborted"
  /\ UNCHANGED <<running, t, visited, last, connected_clients, network, loop, io_lock, signal>>

AllButOneSent == Cardinality(connected_clients \ visited) <= 1   \* slip
AllSent == connected_clients \subseteq visited

Unlock ==
  /\ Runs("main") /\ main = "send" /\ AllSent
  /\ main' = "loop" /\ t' = NextT /\ visited' = {}
  /\ UNCHANGED <<running, last, connected_clients, network, loop, io_lock, signal, ended>>

(* return 0 destroys server_thread, which was never joined or detached:        *)
(* std::terminate.                                                            *)
Return ==
  /\ Runs("main") /\ main = "return"
  /\ main' = "end" /\ ended' = "aborted"
  /\ UNCHANGED <<running, t, visited, last, connected_clients, network, loop, io_lock, signal>>

-----------------------------------------------------------------------------
(* signal_handler interrupts thread w and clears the flag.  Before init_asio      *)
(* there is no io_service, and stop() goes through a null pointer.  The other of  *)
(* the two signals may also interrupt the handler itself, which changes nothing   *)
(* unless that is inside stop().                                                *)
Signal(w) ==
  /\ Alive(w) /\ signal[w] # "stop"
  /\ running' = FALSE
  /\ IF main = "setup"
     THEN main' = "end" /\ ended' = "crashed" /\ UNCHANGED signal
     ELSE signal' = [signal EXCEPT ![w] = "stop"] /\ UNCHANGED <<main, ended>>
  /\ UNCHANGED <<t, visited, last, connected_clients, network, loop, io_lock>>

(* echo_server.stop(), that is io_service::stop under its mutex, and the return    *)
(* from the handler.                                                            *)
EnterStop(w) ==
  /\ ended = "no" /\ signal[w] = "stop" /\ io_lock = "free"
  /\ io_lock' = w
  /\ signal' = [signal EXCEPT ![w] = "stopping"]
  /\ loop' = IF loop = "ended" THEN "ended" ELSE "stopped"
  /\ UNCHANGED <<running, simulation, connected_clients, network, ended>>

LeaveStop(w) ==
  /\ ended = "no" /\ signal[w] = "stopping"
  /\ io_lock' = "free"
  /\ signal' = [signal EXCEPT ![w] = "none"]
  /\ UNCHANGED <<running, simulation, connected_clients, network, loop, ended>>

(* The handler wants the mutex that the thread it interrupted holds.             *)
Stuck(w) == signal[w] = "stop" /\ io_lock = w

-----------------------------------------------------------------------------
(* server_thread.  The loop takes the mutex to pick what to do next and releases  *)
(* it with what it picked: nothing new once it was stopped, but a handler it is    *)
(* in goes on.                                                                  *)
Lookup ==
  /\ Runs("asio") /\ handler = "none" /\ io_lock = "free"
  /\ io_lock' = "asio"
  /\ UNCHANGED <<running, simulation, connected_clients, network, loop, signal, ended>>

Picks == Runs("asio") /\ handler = "none" /\ io_lock = "asio" /\ io_lock' = "free"

(* Nothing is ready: the loop waits for the network, without the mutex.          *)
Waits ==
  /\ Picks /\ loop = "run"
  /\ UNCHANGED <<running, simulation, connected_clients, network, loop, signal, ended>>

RunReturns ==
  /\ Picks /\ loop = "stopped"
  /\ loop' = "ended"
  /\ UNCHANGED <<running, simulation, connected_clients, network, signal, ended>>

(* A handshake is complete: the connection is open and on_open is called.      *)
Opens(c) ==
  /\ Picks /\ loop = "run" /\ conn[c] = "none"
  /\ conn' = [conn EXCEPT ![c] = "open"]
  /\ handler' = "on_open" /\ subject' = {c}
  /\ UNCHANGED <<running, simulation, connected_clients, loop, signal, ended>>

(* The peer's close frame, then the end of the closing handshake; or an error  *)
(* or the end of the stream at any time.                                      *)
Closes(c) ==
  /\ Picks /\ loop = "run" /\ conn[c] \in {"open", "closing"}
  /\ \E state \in {"closing", "closed"} \ {conn[c]} : conn' = [conn EXCEPT ![c] = state]
  /\ UNCHANGED <<running, simulation, connected_clients, handler, subject, loop, signal, ended>>

(* The socket is shut down and on_close is called.                            *)
Terminated(c) ==
  /\ Picks /\ loop = "run" /\ conn[c] = "closed"
  /\ conn' = [conn EXCEPT ![c] = "gone"]
  /\ handler' = "on_close" /\ subject' = {c}
  /\ UNCHANGED <<running, simulation, connected_clients, loop, signal, ended>>

MutexIgnored == TRUE                             \* slip: no lock_guard
MutexFree == main \notin {"send", "post"}

OnOpen ==
  /\ Runs("asio") /\ handler = "on_open" /\ MutexFree
  /\ connected_clients' = connected_clients \cup subject
  /\ handler' = "none" /\ subject' = {}
  /\ UNCHANGED <<running, simulation, conn, loop, io_lock, signal, ended>>

EraseNot == UNCHANGED connected_clients          \* slip
Erase == connected_clients' = connected_clients \ subject

OnClose ==
  /\ Runs("asio") /\ handler = "on_close" /\ MutexFree
  /\ Erase
  /\ handler' = "none" /\ subject' = {}
  /\ UNCHANGED <<running, simulation, conn, loop, io_lock, signal, ended>>

(* The process is over, or hangs.                                             *)
Ended == (ended # "no" \/ \E w \in Thread : Stuck(w)) /\ UNCHANGED vars

-----------------------------------------------------------------------------
Main == \/ InitAsio \/ Accept \/ StartThread \/ ListenFails \/ Initialize
        \/ LoopTest \/ StepAndCopy \/ Lock \/ Posted \/ Unlock \/ Return
        \/ \E c \in Client : Send(c) \/ SendThrows(c)
Handlers == OnOpen \/ OnClose
Network == Lookup \/ Waits \/ RunReturns \/ \E c \in Client : Opens(c) \/ Closes(c) \/ Terminated(c)
Stopping(w) == EnterStop(w) \/ LeaveStop(w)

Next == \/ Main \/ Handlers \/ Network
        \/ \E w \in Thread : Signal(w) \/ Stopping(w)
        \/ Ended

(* Both threads run, and one that waits for a mutex that is free again and again  *)
(* gets it (hence strong fairness; it is also what brings a thread on between two *)
(* signals).  Nothing is assumed of the peers or of signals.                     *)
Spec == /\ Init /\ [][Next]_vars
        /\ SF_vars(Main) /\ SF_vars(Handlers) /\ SF_vars(Network)
        /\ \A w \in Thread : SF_vars(Stopping(w))

-----------------------------------------------------------------------------
(* Properties.                                                               *)

(* The set holds exactly the connections whose on_open has run and whose        *)
(* on_close has not, whatever state the library has them in; none that is gone  *)
(* stays behind (on_open, on_close, lines 73-81).                              *)
SetIsCurrent ==
  connected_clients = {c \in Client : /\ conn[c] \in {"open", "closing", "closed"}
                                      /\ ~(handler = "on_open" /\ c \in subject)}
                      \cup (IF handler = "on_close" THEN subject ELSE {})

(* A frame whose sending ended went to every registered client, and to none     *)
(* before a frame that is older.                                               *)
FrameForAll ==
  [][/\ main = "send" /\ main' = "loop" => \A c \in connected_clients : last[c] = t + 1
     /\ \A c \in Client : last'[c] >= last[c]]_vars

(* After a signal the program comes to an end, from whatever it was doing on       *)
(* either thread, with one exception: the signal came to a thread that held the     *)
(* io_service's mutex, for which its handler waits for ever (lines 26-30).        *)
SignalEnds == ~running ~> (ended # "no" \/ \E w \in Thread : Stuck(w))

(* What signal_handler announces (line 27, "shutting down...") is a shutdown    *)
(* that leaves the main loop and ends the program, not an abort of a program    *)
(* that has been running.                                                      *)
GracefulShutdown ==
  [][~running /\ main \notin {"setup", "listen", "accept"} => ended' # "aborted"]_vars
=============================================================================
