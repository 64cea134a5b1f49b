--------------------------- MODULE SimServerProofs ---------------------------
(* Proofs about the standalone simulator's server, for every set of connections  *)
(* and every length of the simulation: the set of clients is exactly that of the  *)
(* connections whose on_open has run and whose on_close has not, and a frame whose *)
(* loop ended went to all of them, wherever signals interrupt the threads.         *)
(* SharedInv adds what a handler knows of its connection while it waits for the    *)
(* mutex, that the loop's visits begin anew with every frame, and where the main    *)
(* thread holds the io_service's mutex; SentInOrder says which frame the clients    *)
(* have.                                                                        *)
EXTENDS SimServer, TLAPS

HandlerKnows ==
  /\ handler = "on_open" => \A c \in subject : conn[c] = "open"
  /\ handler = "on_close" => \A c \in subject : conn[c] = "gone"
VisitsBegin ==
  /\ main \notin {"send", "post", "end"} => visited = {}
  /\ main = "end" => ended # "no"
LockKnown == main \in {"accept", "post"} => io_lock = "main" /\ signal["main"] # "stopping"

SharedInv == TypeOK /\ SetIsCurrent /\ HandlerKnows /\ VisitsBegin /\ LockKnown

LEMMA InitShared == Init => SharedInv
BY ServerAssumption DEF Init, SharedInv, TypeOK, SetIsCurrent, HandlerKnows, VisitsBegin, LockKnown, Conn, Thread

-----------------------------------------------------------------------------
(* The main thread touches neither the set nor the connections.                *)
LEMMA MainShared == SharedInv /\ Main => SharedInv'
<1> SUFFICES ASSUME SharedInv, Main PROVE SharedInv'
  OBVIOUS
<1>1. UNCHANGED <<connected_clients, network>>
  BY DEF Main, InitAsio, Accept, StartThread, ListenFails, Initialize, LoopTest, StepAndCopy, Lock,
         Send, Posted, SendThrows, Unlock, Return
<1>2. SetIsCurrent' /\ HandlerKnows'
  BY <1>1 DEF SharedInv, SetIsCurrent, HandlerKnows, network
<1>3. TypeOK' /\ VisitsBegin' /\ LockKnown'
  <2> USE ServerAssumption DEF SharedInv, TypeOK, VisitsBegin, LockKnown, Thread, network, Runs, Alive
  <2>1. CASE InitAsio \/ ListenFails \/ Initialize
    BY <2>1 DEF InitAsio, ListenFails, Initialize
  <2>2. CASE Accept
    BY <2>2 DEF Accept
  <2>3. CASE StartThread
    BY <2>3 DEF StartThread
  <2>4. CASE LoopTest \/ Lock \/ Return
    BY <2>4 DEF LoopTest, KeepsRunning, Lock, Return
  <2>5. NextT \in 0..MaxT /\ t + 1 \in 0..(MaxT + 1)
    BY DEF NextT
  <2>6. CASE StepAndCopy \/ Unlock
    BY <2>5, <2>6 DEF StepAndCopy, Unlock
  <2>7. ASSUME NEW c \in Client, Send(c) PROVE TypeOK' /\ VisitsBegin' /\ LockKnown'
    BY <2>5, <2>7 DEF Send
  <2>8. CASE Posted
    BY <2>8 DEF Posted
  <2>9. ASSUME NEW c \in Client, SendThrows(c) PROVE TypeOK' /\ VisitsBegin' /\ LockKnown'
    BY <2>9 DEF SendThrows
  <2> HIDE DEF SharedInv, TypeOK, VisitsBegin, LockKnown
  <2> QED
    BY <2>1, <2>2, <2>3, <2>4, <2>6, <2>7, <2>8, <2>9 DEF Main
<1> QED
  BY <1>2, <1>3 DEF SharedInv

(* on_open and on_close change the set by their connection, between two frames.   *)
LEMMA HandlersShared == SharedInv /\ Handlers => SharedInv'
<1> SUFFICES ASSUME SharedInv, Handlers PROVE SharedInv'
  OBVIOUS
<1> USE DEF SharedInv, TypeOK, MutexFree
<1>1. CASE OnOpen
  <2>1. TypeOK' /\ VisitsBegin' /\ LockKnown'
    BY <1>1 DEF OnOpen, VisitsBegin, LockKnown, simulation
  <2>2. SetIsCurrent'
    BY <1>1 DEF OnOpen, SetIsCurrent, HandlerKnows
  <2>3. HandlerKnows'
    BY <1>1 DEF OnOpen, HandlerKnows
  <2> QED
    BY <2>1, <2>2, <2>3
<1>2. CASE OnClose
  <2>4. main \notin {"send", "post", "end"} /\ visited = {}
    BY <1>2 DEF OnClose, VisitsBegin, Runs, Alive
  <2>1. TypeOK' /\ VisitsBegin' /\ LockKnown'
    BY <1>2, <2>4 DEF OnClose, Erase, VisitsBegin, LockKnown, simulation
  <2>2. SetIsCurrent'
    BY <1>2 DEF OnClose, Erase, SetIsCurrent, HandlerKnows
  <2>3. HandlerKnows'
    BY <1>2 DEF OnClose, HandlerKnows
  <2> QED
    BY <2>1, <2>2, <2>3
<1> QED
  BY <1>1, <1>2 DEF Handlers

(* The library opens, closes and ends connections while no handler runs.         *)
LEMMA NetworkShared == SharedInv /\ Network => SharedInv'
<1> SUFFICES ASSUME SharedInv, Network PROVE SharedInv'
  OBVIOUS
<1> USE DEF SharedInv, TypeOK, Picks, Runs, Conn, Thread
<1>1. UNCHANGED <<running, simulation, connected_clients, signal, ended>> /\ handler = "none"
  BY DEF Network, Opens, Closes, Terminated, Lookup, Waits, RunReturns
<1>2. VisitsBegin' /\ LockKnown'
  BY <1>1 DEF VisitsBegin, LockKnown, simulation, Network, Opens, Closes, Terminated, Lookup, Waits, RunReturns
<1>3. ASSUME NEW c \in Client, Opens(c) PROVE SharedInv'
  <2>1. TypeOK' /\ HandlerKnows'
    BY <1>1, <1>3 DEF Opens, HandlerKnows, simulation
  <2>2. SetIsCurrent'
    BY <1>1, <1>3 DEF Opens, SetIsCurrent
  <2> QED
    BY <1>2, <2>1, <2>2
<1>4. ASSUME NEW c \in Client, Closes(c) PROVE SharedInv'
  <2>1. TypeOK' /\ HandlerKnows'
    BY <1>1, <1>4 DEF Closes, HandlerKnows, simulation
  <2>2. SetIsCurrent'
    BY <1>1, <1>4 DEF Closes, SetIsCurrent
  <2> QED
    BY <1>2, <2>1, <2>2
<1>5. ASSUME NEW c \in Client, Terminated(c) PROVE SharedInv'
  <2>1. TypeOK' /\ HandlerKnows'
    BY <1>1, <1>5 DEF Terminated, HandlerKnows, simulation
  <2>2. SetIsCurrent'
    BY <1>1, <1>5 DEF Terminated, SetIsCurrent
  <2> QED
    BY <1>2, <2>1, <2>2
<1>6. CASE Lookup \/ Waits \/ RunReturns
  <2>1. TypeOK'
    BY <1>1, <1>6 DEF Lookup, Waits, RunReturns, simulation, network
  <2>2. SetIsCurrent' /\ HandlerKnows'
    BY <1>1, <1>6 DEF Lookup, Waits, RunReturns, SetIsCurrent, HandlerKnows, network
  <2> QED
    BY <1>2, <2>1, <2>2
<1> HIDE DEF SharedInv
<1> QED
  BY <1>3, <1>4, <1>5, <1>6 DEF Network

(* A signal, and the handler it runs.                                          *)
LEMMA SignalShared ==
  ASSUME SharedInv, NEW w \in Thread, Signal(w) \/ Stopping(w)
  PROVE  SharedInv'
<1> USE DEF SharedInv, TypeOK, Thread, VisitsBegin, LockKnown
<1>1. UNCHANGED <<connected_clients, network, visited>>
  BY DEF Signal, Stopping, EnterStop, LeaveStop, simulation
<1>2. SetIsCurrent' /\ HandlerKnows'
  BY <1>1 DEF SetIsCurrent, HandlerKnows, network
<1>3. CASE Signal(w)
  BY <1>2, <1>3 DEF Signal, network
<1>4. CASE EnterStop(w)
  BY <1>2, <1>4 DEF EnterStop, simulation, network
<1>5. CASE LeaveStop(w)
  BY <1>2, <1>5 DEF LeaveStop, simulation, network
<1> QED
  BY <1>3, <1>4, <1>5 DEF Stopping

LEMMA OthersShared == SharedInv /\ (Ended \/ UNCHANGED vars) => SharedInv'
BY DEF Ended, vars, simulation, network, SharedInv, TypeOK, SetIsCurrent, HandlerKnows,
       VisitsBegin, LockKnown

LEMMA StepShared == SharedInv /\ [Next]_vars => SharedInv'
BY MainShared, HandlersShared, NetworkShared, SignalShared, OthersShared DEF Next

LEMMA SharedInvariant == Spec => []SharedInv
BY InitShared, StepShared, PTL DEF Spec

-----------------------------------------------------------------------------
(* The variables keep their types.                                            *)
THEOREM SimServerTyped == Spec => []TypeOK
<1>1. SharedInv => TypeOK
  BY DEF SharedInv
<1> QED
  BY <1>1, SharedInvariant, PTL

(* The set is exactly that of the connections with on_open behind and on_close    *)
(* before them (main.cpp, lines 73-81).                                        *)
THEOREM SetCurrent == Spec => []SetIsCurrent
<1>1. SharedInv => SetIsCurrent
  BY DEF SharedInv
<1> QED
  BY <1>1, SharedInvariant, PTL

-----------------------------------------------------------------------------
(* What was sent.  A client that the loop has visited got the present frame, and *)
(* nobody got a later one.                                                     *)
SentInOrder ==
  /\ \A c \in Client : last[c] <= t + 1
  /\ \A c \in visited : last[c] = t + 1

LEMMA InitSent == Init => SentInOrder
BY ServerAssumption DEF Init, SentInOrder

(* The frame's number grows between two loops only.                            *)
LEMMA NextFrame ==
  ASSUME SharedInv, SentInOrder, t' \in {t, NextT}, visited' = {}, last' = last
  PROVE  SentInOrder' /\ \A c \in Client : last'[c] >= last[c]
BY ServerAssumption DEF SharedInv, TypeOK, SentInOrder, NextT

LEMMA SendSent ==
  ASSUME SharedInv, SentInOrder, NEW c \in Client, Send(c)
  PROVE  SentInOrder' /\ \A d \in Client : last'[d] >= last[d]
<1>1. /\ t' = t /\ visited' = visited \cup {c} /\ t \in Nat
      /\ last \in [Client -> 0..(MaxT + 1)] /\ last' = [last EXCEPT ![c] = t + 1]
  BY ServerAssumption DEF Send, SharedInv, TypeOK
<1>2. \A d \in Client : last'[d] = IF d = c THEN t + 1 ELSE last[d]
  BY <1>1
<1>3. \A d \in Client : last[d] \in Nat /\ last[d] <= t + 1
  BY <1>1, ServerAssumption DEF SentInOrder
<1>4. visited \subseteq Client /\ \A d \in visited : last[d] = t + 1
  BY DEF SentInOrder, SharedInv, TypeOK
<1> QED
  BY <1>1, <1>2, <1>3, <1>4 DEF SentInOrder

LEMMA StepSent ==
  ASSUME SharedInv, SentInOrder, [Next]_vars
  PROVE  SentInOrder' /\ \A c \in Client : last'[c] >= last[c]
<1>1. ASSUME UNCHANGED <<t, visited, last>>
      PROVE  SentInOrder' /\ \A c \in Client : last'[c] >= last[c]
  BY <1>1, ServerAssumption DEF SharedInv, TypeOK, SentInOrder
<1>2. CASE Main
  <2>1. CASE InitAsio \/ Accept \/ StartThread \/ ListenFails \/ Initialize \/ LoopTest \/ Lock
             \/ Posted \/ Return
    BY <1>1, <2>1 DEF InitAsio, Accept, StartThread, Posted, ListenFails, Initialize, LoopTest, Lock, Return
  <2>2. CASE StepAndCopy
    <3>1. visited' = {} /\ last' = last /\ t' \in {t, NextT}
      BY <2>2 DEF StepAndCopy, SharedInv, VisitsBegin
    <3> QED
      BY <3>1, NextFrame
  <2>3. CASE Unlock
    BY <2>3, NextFrame DEF Unlock
  <2>4. ASSUME NEW c \in Client, Send(c) \/ SendThrows(c)
        PROVE  SentInOrder' /\ \A d \in Client : last'[d] >= last[d]
    BY <1>1, <2>4, SendSent DEF SendThrows
  <2> QED
    BY <1>2, <2>1, <2>2, <2>3, <2>4 DEF Main
<1>3. CASE Handlers \/ Network
  BY <1>1, <1>3 DEF Handlers, OnOpen, OnClose, Network, Opens, Closes, Terminated, Lookup, Waits,
     RunReturns, simulation
<1>4. CASE Ended \/ UNCHANGED vars
  BY <1>1, <1>4 DEF Ended, vars, simulation
<1>5. ASSUME NEW w \in Thread, Signal(w) \/ Stopping(w)
      PROVE  SentInOrder' /\ \A c \in Client : last'[c] >= last[c]
  BY <1>1, <1>5 DEF Signal, Stopping, EnterStop, LeaveStop, simulation
<1> QED
  BY <1>2, <1>3, <1>4, <1>5 DEF Next

(* The loop of sendFrame is left by Unlock alone, when it has visited every client. *)
LEMMA LoopEnds ==
  ASSUME SharedInv, SentInOrder, [Next]_vars, main = "send", main' = "loop"
  PROVE  \A c \in connected_clients : last[c] = t + 1
<1>1. Unlock
  BY DEF Next, vars, simulation, Main, InitAsio, Accept, StartThread, ListenFails, Initialize, LoopTest,
         StepAndCopy, Lock, Send, Posted, SendThrows, Return, Handlers, OnOpen, OnClose, Network,
         Lookup, Waits, Opens, Closes, Terminated, RunReturns, Signal, Stopping, EnterStop, LeaveStop,
         Ended
<1> QED
  BY <1>1 DEF Unlock, AllSent, SentInOrder

(* A frame whose loop ended went to every registered client, and no client gets     *)
(* an older frame after a newer one (main.cpp, lines 64-68 and 122-125).         *)
THEOREM FrameToAll == Spec => FrameForAll
<1>1. Spec => []SentInOrder
  BY InitSent, StepSent, SharedInvariant, PTL DEF Spec
<1>2. SharedInv /\ SentInOrder /\ [Next]_vars
        => [/\ main = "send" /\ main' = "loop" => \A c \in connected_clients : last[c] = t + 1
            /\ \A c \in Client : last'[c] >= last[c]]_vars
  BY StepSent, LoopEnds
<1> QED
  BY <1>1, <1>2, SharedInvariant, PTL DEF Spec, FrameForAll
=============================================================================
