---------------------------- MODULE WsConnection ----------------------------
(* One connection of a websocketpp server (impl/connection_impl.hpp with the    *)
(* asio transport): handshake, reading, the write queue, the closing handshake, *)
(* timers and terminate.                                                        *)
(*                                                                              *)
(* The asio thread runs one handler of a connection after the other; a handler  *)
(* is one step here, save that the loop of handle_read_frame takes a step per    *)
(* frame and that terminate calls the close or fail handler in a step of its     *)
(* own.  Another thread calls send, which takes two locks one after the other.  *)
(* The peer sends any frames at any time and may stop reading; the network may   *)
(* fail.  HTTP requests get an error response, as no http_handler is set.       *)
EXTENDS Naturals, Sequences

CONSTANTS Incoming,   \* bound of the model: frames the peer sends
          Outgoing    \* bound of the model: messages the program sends

ASSUME BoundsAssumption == Incoming \in Nat /\ Outgoing \in Nat

VARIABLES
  m_state, m_internal_state, m_was_clean,
  m_handshake_timer,   \* the timer it points to, or "null"
  timer,               \* timers: "off", "armed", "due" (expired, handler not run)
  shutdown, tstat,     \* a shutdown under way, and the terminate_status it carries
  calls,               \* open, fail and close handlers called (history)
  read,                \* the handler of the outstanding read, or "none"
  looping, m_buf,      \* the loop of handle_read_frame, and the frames left in m_buf
  incoming,            \* frames the peer may still send
  write,               \* what the outstanding write writes, or "none"
  m_current_msgs, m_send_queue, m_write_flag,
  posted,              \* calls of write_frame posted to the asio loop
  pushed, wire,        \* frames ever queued, and ever written (history)
  sender,              \* where the other thread's send stands
  outgoing             \* messages it may still send

session == <<m_state, m_internal_state, m_was_clean, m_handshake_timer, timer>>
ending  == <<shutdown, tstat, calls>>
input   == <<read, looping, m_buf, incoming>>
output  == <<m_current_msgs, m_send_queue, m_write_flag, posted, pushed, wire>>
app     == <<sender, outgoing>>
vars    == <<session, ending, input, write, output, app>>

(* Frames from the peer: data and pongs, to which nothing happens; pings; close *)
(* frames; close frames with an invalid code or reason; what consume refuses.   *)
FrameIn == {"message", "ping", "close", "badclose", "garbage"}
(* Frames to the peer: the close frame of close() is answered by the peer; one    *)
(* that acknowledges or says that the peer broke the protocol is terminal.       *)
FrameOut == {"data", "pong", "close", "lastclose"}
Terminal(f) == f = "lastclose"
Timer == {"init", "open", "close", "orphan", "shutdown"}

TypeOK ==
  /\ m_state \in {"connecting", "open", "closing", "closed"}
  /\ m_internal_state \in {"USER_INIT", "TRANSPORT_INIT", "READ_HTTP_REQUEST",
                           "PROCESS_HTTP_REQUEST", "PROCESS_CONNECTION"}
  /\ m_was_clean \in BOOLEAN
  /\ m_handshake_timer \in {"null", "open", "close"}
  /\ timer \in [Timer -> {"off", "armed", "due"}]
  /\ shutdown \in {"none", "inline", "late"}
  /\ tstat \in {"unknown", "failed", "closed"}
  /\ calls \in {<<>>, <<"fail">>, <<"open">>, <<"open", "close">>}
  /\ read \in {"none", "handshake", "frame"}
  /\ looping \in BOOLEAN
  /\ m_buf \in Seq(FrameIn) /\ incoming \in 0..Incoming
  /\ write \in {"none", "101", "error", "frames"}
  /\ m_current_msgs \in Seq(FrameOut) /\ m_send_queue \in Seq(FrameOut)
  /\ m_write_flag \in BOOLEAN
  /\ posted \in Nat
  /\ pushed \in Seq(FrameOut) /\ wire \in Seq(FrameOut)
  /\ sender \in {"idle", "checked", "dispatch"}
  /\ outgoing \in 0..Outgoing

Init ==
  /\ m_state = "connecting" /\ m_internal_state = "USER_INIT" /\ m_was_clean = FALSE
  /\ m_handshake_timer = "null" /\ timer = [t \in Timer |-> "off"]
  /\ shutdown = "none" /\ tstat = "unknown" /\ calls = <<>>
  /\ read = "none" /\ looping = FALSE /\ m_buf = <<>> /\ incoming = Incoming
  /\ write = "none"
  /\ m_current_msgs = <<>> /\ m_send_queue = <<>> /\ m_write_flag = FALSE
  /\ posted = 0 /\ pushed = <<>> /\ wire = <<>>
  /\ sender = "idle" /\ outgoing = Outgoing

(* The asio loop is free to run a handler of this connection.                  *)
Free == ~looping /\ shutdown # "inline"

-----------------------------------------------------------------------------
(* Ending a connection.                                                      *)

(* A timer that has expired is not stopped by cancel: its handler is queued     *)
(* and will run without an error.                                              *)
Cancelled(tm) ==
  IF m_handshake_timer # "null" /\ tm[m_handshake_timer] = "armed"
  THEN [tm EXCEPT ![m_handshake_timer] = "off"] ELSE tm

TerminateAnyway(tm) ==                       \* slip: no look at m_state
  /\ m_state' = "closed" /\ m_handshake_timer' = "null"
  /\ tstat' = IF m_state = "connecting" THEN "failed" ELSE "closed"
  /\ \/ shutdown' = "inline" /\ timer' = Cancelled(tm)
     \/ shutdown' = "late" /\ timer' = [Cancelled(tm) EXCEPT !["shutdown"] = "armed"]

(* terminate, with the timers tm: the socket is shut down and handle_terminate  *)
(* called at once, or by the shutdown timer when that has expired meanwhile.    *)
(* A connection that is closed already stays as it is.                          *)
Terminate(tm) ==
  /\ m_state' = "closed" /\ m_handshake_timer' = "null"
  /\ \/ m_state = "closed" /\ timer' = Cancelled(tm) /\ UNCHANGED <<shutdown, tstat>>
     \/ /\ m_state # "closed"
        /\ tstat' = IF m_state = "connecting" THEN "failed" ELSE "closed"
        /\ \/ shutdown' = "inline" /\ timer' = Cancelled(tm)
           \/ shutdown' = "late" /\ timer' = [Cancelled(tm) EXCEPT !["shutdown"] = "armed"]

(* handle_terminate.                                                         *)
CallHandler == calls' = Append(calls, IF tstat = "failed" THEN "fail" ELSE "close")

HandleTerminate ==
  /\ shutdown = "inline"
  /\ CallHandler
  /\ shutdown' = "none"
  /\ UNCHANGED <<session, tstat, input, write, output, app>>

HandleShutdownTimeout ==
  /\ Free /\ timer["shutdown"] = "due"
  /\ timer' = [timer EXCEPT !["shutdown"] = "off"]
  /\ CallHandler
  /\ shutdown' = "none"
  /\ UNCHANGED <<m_state, m_internal_state, m_was_clean, m_handshake_timer, tstat, input, write, output, app>>

Expire(t) ==
  /\ Free /\ timer[t] = "armed"
  /\ timer' = [timer EXCEPT ![t] = "due"]
  /\ UNCHANGED <<m_state, m_internal_state, m_was_clean, m_handshake_timer, ending, input, write, output, app>>

(* handle_open_handshake_timeout, handle_close_handshake_timeout (also of a      *)
(* timer m_handshake_timer no longer points to), handle_post_init_timeout.      *)
HandleTimeout(t) ==
  /\ Free /\ timer[t] = "due" /\ t # "shutdown"
  /\ Terminate([timer EXCEPT ![t] = "off"])
  /\ UNCHANGED <<m_internal_state, m_was_clean, calls, input, write, output, app>>

-----------------------------------------------------------------------------
(* The opening handshake.                                                    *)

(* handle_accept, start and the initialisation of the transport, which ends at  *)
(* once unless its timer has expired meanwhile.                                *)
Accepted ==
  /\ m_internal_state = "USER_INIT" /\ m_state = "connecting"
  /\ \/ /\ m_internal_state' = "READ_HTTP_REQUEST"
        /\ m_handshake_timer' = "open" /\ timer' = [timer EXCEPT !["open"] = "armed"]
        /\ read' = "handshake"
     \/ /\ m_internal_state' = "TRANSPORT_INIT"
        /\ timer' = [timer EXCEPT !["init"] = "armed"]
        /\ UNCHANGED <<m_handshake_timer, read>>
  /\ UNCHANGED <<m_state, m_was_clean, ending, looping, m_buf, incoming, write, output, app>>

AcceptFails ==
  /\ m_internal_state = "USER_INIT" /\ m_state = "connecting"
  /\ Terminate(timer)
  /\ UNCHANGED <<m_internal_state, m_was_clean, calls, input, write, output, app>>

(* Some of the frames the peer may still send arrive.                          *)
Arrive(s) == m_buf' = s /\ incoming' = incoming - Len(s)
SomeFrames == UNION {[1..n -> FrameIn] : n \in 0..incoming}

(* handle_read_handshake with the rest of a request (a part of one changes       *)
(* nothing): the response is a 101 or an error; frames may follow the request.  *)
HandleReadHandshake ==
  /\ Free /\ read = "handshake" /\ m_state = "connecting"
  /\ read' = "none"
  /\ m_internal_state' = "PROCESS_HTTP_REQUEST"
  /\ \/ write' = "error" /\ UNCHANGED <<m_buf, incoming>>
     \/ /\ write' = "101"
        /\ \E s \in SomeFrames : Arrive(s)
  /\ UNCHANGED <<m_state, m_was_clean, m_handshake_timer, timer, ending, looping, output, app>>

(* An error, or the connection was closed meanwhile (then nothing happens).     *)
ReadHandshakeFails ==
  /\ Free /\ read = "handshake"
  /\ read' = "none"
  /\ Terminate(timer)
  /\ UNCHANGED <<m_internal_state, m_was_clean, calls, looping, m_buf, incoming, write, output, app>>

(* handle_write_http_response: open, and straight on with the frames in m_buf.  *)
Opens ==
  /\ Free /\ write = "101" /\ m_state = "connecting"
  /\ write' = "none"
  /\ timer' = Cancelled(timer) /\ m_handshake_timer' = "null"
  /\ m_internal_state' = "PROCESS_CONNECTION" /\ m_state' = "open"
  /\ calls' = Append(calls, "open")
  /\ looping' = TRUE
  /\ UNCHANGED <<m_was_clean, shutdown, tstat, read, m_buf, incoming, output, app>>

(* The error response is out, or writing failed, or the connection was closed.  *)
ResponseEnds ==
  /\ Free /\ write \in {"101", "error"}
  /\ write' = "none"
  /\ Terminate(timer)
  /\ UNCHANGED <<m_internal_state, m_was_clean, calls, input, output, app>>

-----------------------------------------------------------------------------
(* Frames to the peer: every one goes through m_send_queue.                   *)

(* write_push and the dispatch of write_frame that follows it, by a handler.    *)
Push(f) ==
  /\ m_send_queue' = Append(m_send_queue, f) /\ pushed' = Append(pushed, f)
  /\ posted' = IF m_write_flag THEN posted ELSE posted + 1
  /\ UNCHANGED <<m_current_msgs, m_write_flag, wire>>

(* The timer of the closing handshake.  One that is already running goes on, but *)
(* m_handshake_timer forgets it.                                               *)
StartCloseTimerNot == UNCHANGED <<m_handshake_timer, timer>>          \* slip
StartCloseTimer ==
  /\ m_handshake_timer' = "close"
  /\ timer' = [timer EXCEPT !["close"] = "armed",
                            !["orphan"] = IF timer["close"] # "off" /\ @ # "due"
                                          THEN timer["close"] ELSE @]

(* send_close_frame.                                                         *)
SendClose(f, wasClean) ==
  /\ m_state' = "closing" /\ m_was_clean' = wasClean
  /\ StartCloseTimer
  /\ Push(f)

(* close, called by the program on the asio thread (main.cpp never does).       *)
Close ==
  /\ Free /\ m_state = "open"
  /\ SendClose("close", m_was_clean)
  /\ UNCHANGED <<m_internal_state, ending, input, write, app>>

(* write_frame: what is queued is written at once, up to the first terminal     *)
(* frame, unless a write is outstanding.                                       *)
BatchOfAll == Len(m_send_queue)                  \* slip: does not stop at a terminal frame
Batch ==
  CHOOSE n \in 0..Len(m_send_queue) :
    /\ \A i \in 1..(n - 1) : ~Terminal(m_send_queue[i])
    /\ n < Len(m_send_queue) => n > 0 /\ Terminal(m_send_queue[n])

WriteFrame ==
  /\ Free /\ posted > 0
  /\ posted' = posted - 1
  /\ IF m_write_flag \/ m_send_queue = <<>>
     THEN UNCHANGED <<m_current_msgs, m_send_queue, m_write_flag, write>>
     ELSE /\ m_current_msgs' = m_current_msgs \o SubSeq(m_send_queue, 1, Batch)
          /\ m_send_queue' = SubSeq(m_send_queue, Batch + 1, Len(m_send_queue))
          /\ m_write_flag' = TRUE /\ write' = "frames"
  /\ UNCHANGED <<session, ending, input, pushed, wire, app>>

(* handle_write_frame: the messages are forgotten, the flag is given back and     *)
(* the queue looked at again.                                                  *)
ForgetWrittenNot == UNCHANGED m_current_msgs     \* slip
ForgetWritten == m_current_msgs' = <<>>

RecheckNot == posted' = posted                   \* slip: the queue is not looked at
Recheck == posted' = IF m_send_queue = <<>> THEN posted ELSE posted + 1

FramesWritten ==
  /\ Free /\ write = "frames"
  /\ write' = "none"
  /\ ForgetWritten /\ wire' = wire \o m_current_msgs
  /\ IF Terminal(m_current_msgs[Len(m_current_msgs)])
     THEN Terminate(timer) /\ UNCHANGED <<m_write_flag, posted>>
     ELSE /\ m_write_flag' = FALSE /\ Recheck
          /\ UNCHANGED <<m_state, m_handshake_timer, timer, shutdown, tstat>>
  /\ UNCHANGED <<m_internal_state, m_was_clean, calls, input, m_send_queue, pushed, app>>

(* Writing failed after some of it was out.                                   *)
WriteFails ==
  /\ Free /\ write = "frames"
  /\ write' = "none"
  /\ \E n \in 0..(Len(m_current_msgs) - 1) : wire' = wire \o SubSeq(m_current_msgs, 1, n)
  /\ ForgetWritten
  /\ Terminate(timer)
  /\ UNCHANGED <<m_internal_state, m_was_clean, calls, input, m_send_queue, m_write_flag, posted, pushed, app>>

-----------------------------------------------------------------------------
(* Frames from the peer.                                                      *)

(* process_control_frame for a close frame, and one that is not valid.          *)
GotClose ==
  \/ m_state = "open" /\ SendClose("lastclose", TRUE) /\ UNCHANGED <<shutdown, tstat>>
  \/ /\ m_state = "closing" /\ ~m_was_clean
     /\ m_was_clean' = TRUE
     /\ Terminate(timer)
     /\ UNCHANGED output
  \/ /\ m_state = "closing" => m_was_clean
     /\ m_state # "open"
     /\ UNCHANGED <<m_state, m_was_clean, m_handshake_timer, timer, shutdown, tstat, output>>

GotBadClose ==
  \/ m_state # "closed" /\ SendClose("lastclose", TRUE) /\ UNCHANGED <<shutdown, tstat>>
  \/ /\ m_state = "closed"
     /\ UNCHANGED <<m_state, m_was_clean, m_handshake_timer, timer, shutdown, tstat, output>>

(* The frame is not one: close is called, which refuses when the connection is   *)
(* not open.  No read follows.                                                 *)
GotGarbage ==
  \/ m_state = "open" /\ SendClose("lastclose", m_was_clean) /\ UNCHANGED <<shutdown, tstat>>
  \/ m_state # "open" /\ Terminate(timer) /\ UNCHANGED <<m_was_clean, output>>

(* One turn of the loop of handle_read_frame.                                  *)
ConsumeFrame ==
  /\ looping /\ shutdown # "inline" /\ m_buf # <<>>
  /\ CASE Head(m_buf) = "close"    -> GotClose
       [] Head(m_buf) = "badclose" -> GotBadClose
       [] Head(m_buf) = "garbage"  -> GotGarbage
       [] OTHER ->
            /\ IF Head(m_buf) = "ping" /\ m_state = "open" THEN Push("pong") ELSE UNCHANGED output
            /\ UNCHANGED <<m_state, m_was_clean, m_handshake_timer, timer, shutdown, tstat>>
  /\ IF Head(m_buf) = "garbage" THEN m_buf' = <<>> /\ looping' = FALSE
                                ELSE m_buf' = Tail(m_buf) /\ UNCHANGED looping
  /\ UNCHANGED <<m_internal_state, calls, read, incoming, write, app>>

(* read_frame.                                                               *)
ReadNoMore == read' = "none"                     \* slip: no read is issued
ReadAgain == read' = "frame"

ReadFrame ==
  /\ looping /\ shutdown # "inline" /\ m_buf = <<>>
  /\ looping' = FALSE
  /\ ReadAgain
  /\ UNCHANGED <<session, ending, m_buf, incoming, write, output, app>>

HandleReadFrame ==
  /\ Free /\ read = "frame"
  /\ \E s \in SomeFrames \ {<<>>} : Arrive(s)
  /\ read' = "none" /\ looping' = TRUE
  /\ UNCHANGED <<session, ending, write, output, app>>

ReadFrameFails ==
  /\ Free /\ read = "frame"
  /\ read' = "none"
  /\ Terminate(timer)
  /\ UNCHANGED <<m_internal_state, m_was_clean, calls, looping, m_buf, incoming, write, output, app>>

-----------------------------------------------------------------------------
(* send, by another thread: the state is looked at under one lock, the frame     *)
(* queued under another, write_frame posted under none.                        *)
SendCheck ==
  /\ sender = "idle" /\ outgoing > 0 /\ m_state = "open"
  /\ sender' = "checked" /\ outgoing' = outgoing - 1
  /\ UNCHANGED <<session, ending, input, write, output>>

NeedsWriting == ~m_write_flag

SendPush ==
  /\ sender = "checked"
  /\ m_send_queue' = Append(m_send_queue, "data") /\ pushed' = Append(pushed, "data")
  /\ sender' = IF NeedsWriting THEN "dispatch" ELSE "idle"
  /\ UNCHANGED <<session, ending, input, write, m_current_msgs, m_write_flag, posted, wire, outgoing>>

SendDispatch ==
  /\ sender = "dispatch"
  /\ sender' = "idle" /\ posted' = posted + 1
  /\ UNCHANGED <<session, ending, input, write, m_current_msgs, m_send_queue, m_write_flag, pushed, wire, outgoing>>

-----------------------------------------------------------------------------
(* Nothing is left to do but for what reads and writes of a closed socket say.   *)
Ended == m_state = "closed" /\ shutdown = "none" /\ UNCHANGED vars

Loop == ConsumeFrame \/ ReadFrame \/ HandleTerminate
Handshake == Accepted \/ AcceptFails \/ HandleReadHandshake \/ ReadHandshakeFails \/ Opens \/ ResponseEnds
Frames == Close \/ HandleReadFrame \/ ReadFrameFails \/ WriteFrame \/ FramesWritten \/ WriteFails
Timers == HandleShutdownTimeout \/ \E t \in Timer : Expire(t) \/ HandleTimeout(t)
Send == SendCheck \/ SendPush \/ SendDispatch

Next == \/ Loop \/ Handshake \/ Frames \/ Send
        \/ Timers \/ Ended

(* A handler runs on to its end; while timers run, one expires or the loop gets  *)
(* round to the handler of one.  Nothing is asked of the peer or the network.   *)
Spec == /\ Init /\ [][Next]_vars
        /\ WF_vars(Loop) /\ SF_vars(Timers)

-----------------------------------------------------------------------------
(* Properties.                                                               *)

(* What the program sees, by the handlers it was called with.                  *)
conn == CASE calls = <<"fail">> -> "failed"
          [] calls = <<"open">> -> m_state
          [] calls = <<"open", "close">> -> "gone"
          [] calls = <<>> -> IF m_state = "connecting" /\ m_internal_state = "USER_INIT"
                             THEN "none" ELSE "trying"
          [] OTHER -> "broken"

Life == INSTANCE ConnLife

(* Whatever timers, errors, frames and the other thread do to it, a connection  *)
(* has the life ConnLife promises: open or fail once, close once after open and  *)
(* only then, and every attempt and every closing handshake comes to an end       *)
(* (connection.hpp, lines 52-83).                                              *)
LifeSpec == Life!Spec

(* No frame waits in the queue of a connection without somebody who will write   *)
(* it: the wakeup that write_push leaves to m_write_flag's owner is not lost.    *)
NoStall ==
  /\ m_send_queue # <<>> /\ ~m_write_flag => posted > 0 \/ sender = "dispatch"
  /\ m_write_flag /\ m_state # "closed" => write = "frames"

(* Frames reach the wire in the order they were queued, none twice and none left *)
(* out, however the two threads' pushes fall between the writes.               *)
WrittenInOrder ==
  /\ m_state # "closed" => pushed = wire \o m_current_msgs \o m_send_queue
  /\ wire = SubSeq(pushed, 1, Len(wire))

(* Nothing is sent after a terminal close frame, although send looks at the state *)
(* and queues its message under different locks (lines 110-141); after another    *)
(* close frame only the one message whose send had looked before.               *)
NothingAfterClose ==
  \A i, j \in 1..Len(wire) : i < j =>
    /\ ~Terminal(wire[i])
    /\ wire[i] = "close" /\ ~Terminal(wire[j]) => wire[j] = "data" /\ j = i + 1

(* An open connection is always read from, or being processed: what the peer     *)
(* sends, a close frame for one, is noticed.                                   *)
NeverDeaf == m_state = "open" => looping \/ read = "frame"

(* What holds these together (the inductive invariant of WsConnectionProofs).    *)
ControlOK ==
  /\ m_state \in {"connecting", "open", "closing", "closed"}
  /\ m_handshake_timer \in {"null", "open", "close"}
  /\ timer \in [Timer -> {"off", "armed", "due"}]
  /\ shutdown \in {"none", "inline", "late"}
  /\ posted \in Nat
  /\ timer["shutdown"] # "off" => shutdown = "late"

(* The handlers that were called, and the one that a shutdown will call.        *)
HandlersMatch ==
  /\ m_state = "connecting" => calls = <<>> /\ shutdown = "none"
  /\ m_state \in {"open", "closing"} => calls = <<"open">> /\ shutdown = "none"
  /\ m_state = "closed" =>
       IF shutdown = "none" THEN calls \in {<<"fail">>, <<"open", "close">>}
       ELSE \/ tstat = "failed" /\ calls = <<>>
            \/ tstat = "closed" /\ calls = <<"open">>

(* Frames are read, queued and written only once the connection was open, and a  *)
(* handshake begins only once it was accepted.                                 *)
SessionBegun ==
  /\ m_state = "connecting" =>
       /\ ~looping /\ read # "frame" /\ write # "frames"
       /\ m_send_queue = <<>> /\ sender = "idle"
  /\ m_internal_state = "USER_INIT" => read # "handshake" /\ write # "101"

FlagOwned == write = "frames" => m_write_flag

(* Every frame queued is on the wire, being written or waiting, in this order,    *)
(* until a write fails, after which the write flag is kept and nothing is written.*)
QueueKept ==
  /\ m_current_msgs \in Seq(FrameOut) /\ m_send_queue \in Seq(FrameOut)
  /\ pushed \in Seq(FrameOut) /\ wire \in Seq(FrameOut)
  /\ \/ pushed = wire \o m_current_msgs \o m_send_queue
     \/ /\ m_state = "closed" /\ m_write_flag /\ write # "frames"
        /\ Len(wire) <= Len(pushed) /\ wire = SubSeq(pushed, 1, Len(wire))

(* What a terminal frame means for the writes: only the last frame of a batch is   *)
(* one, and once it is on the wire the write flag is kept for good.              *)
TerminalLast ==
  /\ write # "frames" => m_current_msgs = <<>>
  /\ \A i \in 1..(Len(m_current_msgs) - 1) : ~Terminal(m_current_msgs[i])
  /\ \A i \in 1..Len(wire) : Terminal(wire[i]) =>
       i = Len(wire) /\ m_state = "closed" /\ m_write_flag /\ write # "frames"

(* What may be queued after the close frame of close(): terminal frames, and the   *)
(* one message of the thread that had looked at the state before.               *)
QueuedAfterClose ==
  /\ m_state \in {"connecting", "open"} => \A i \in 1..Len(pushed) : pushed[i] # "close"
  /\ \A i, j \in 1..Len(pushed) : pushed[i] = "close" /\ i < j =>
       /\ pushed[j] \in {"data", "lastclose"}
       /\ pushed[j] = "data" =>
            sender # "checked" /\ \A k \in 1..Len(pushed) : i < k /\ pushed[k] = "data" => k = j

ConnInv == ControlOK /\ HandlersMatch /\ SessionBegun /\ FlagOwned /\ NoStall /\ NeverDeaf
=============================================================================
