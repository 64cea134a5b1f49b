------------------------- MODULE WsConnectionProofs -------------------------
(* Proofs about a websocketpp connection, for any number of frames in either    *)
(* direction: whatever timers, errors, frames and the other thread do, it never   *)
(* goes deaf, never strands a queued frame, and has the life ConnLife allows.     *)
(* The inductive invariant ConnInv ties the state to the handlers that were      *)
(* called (HandlersMatch), the shutdown timer to a shutdown (ControlOK), and the  *)
(* write flag to a write (FlagOwned): with these, a second Terminate or a late    *)
(* timer finds the connection closed and calls nothing again.                   *)
EXTENDS WsConnection, SequenceTheorems, TLAPS

LEMMA InitConn == Init => ConnInv
BY DEF Init, ConnInv, ControlOK, HandlersMatch, SessionBegun, FlagOwned, NoStall, NeverDeaf, Timer

-----------------------------------------------------------------------------
(* Cancelling stops a handshake timer or nothing; it leaves the one of a shutdown. *)
LEMMA CancelledTimers ==
  ASSUME m_handshake_timer \in {"null", "open", "close"},
         NEW tm \in [Timer -> {"off", "armed", "due"}]
  PROVE  /\ Cancelled(tm) \in [Timer -> {"off", "armed", "due"}]
         /\ Cancelled(tm)["shutdown"] = tm["shutdown"]
BY DEF Cancelled, Timer

(* Terminate keeps the handlers that were called and the one that is due in step. *)
LEMMA TerminateKeeps ==
  ASSUME ControlOK, HandlersMatch, shutdown # "inline",
         NEW tm \in [Timer -> {"off", "armed", "due"}], tm["shutdown"] = timer["shutdown"],
         Terminate(tm), calls' = calls, posted' = posted
  PROVE  ControlOK' /\ HandlersMatch' /\ m_state' = "closed"
<1>1. /\ Cancelled(tm) \in [Timer -> {"off", "armed", "due"}]
      /\ Cancelled(tm)["shutdown"] = tm["shutdown"]
  BY CancelledTimers DEF ControlOK
<1> DEFINE c == Cancelled(tm)
<1>2. c \in [Timer -> {"off", "armed", "due"}] /\ c["shutdown"] = tm["shutdown"]
  BY <1>1
<1>3. /\ m_state' = "closed" /\ m_handshake_timer' = "null"
      /\ \/ m_state = "closed" /\ timer' = c /\ shutdown' = shutdown /\ tstat' = tstat
         \/ /\ m_state # "closed"
            /\ tstat' = IF m_state = "connecting" THEN "failed" ELSE "closed"
            /\ \/ shutdown' = "inline" /\ timer' = c
               \/ shutdown' = "late" /\ timer' = [c EXCEPT !["shutdown"] = "armed"]
  BY DEF Terminate
<1> HIDE DEF c
<1>4. ControlOK'
  BY <1>2, <1>3 DEF ControlOK, HandlersMatch, Timer
<1>5. HandlersMatch'
  BY <1>3 DEF ControlOK, HandlersMatch
<1> QED
  BY <1>3, <1>4, <1>5

LEMMA AppendToOne == ASSUME NEW a, NEW b PROVE Append(<<a>>, b) = <<a, b>>
<1> DEFINE S == {a, b}  s == <<a>>  t == <<a, b>>  u == Append(s, b)
<1>1. s \in Seq(S) /\ Len(s) = 1 /\ s[1] = a /\ b \in S
  OBVIOUS
<1>2. t \in Seq(S) /\ Len(t) = 2 /\ t[1] = a /\ t[2] = b
  OBVIOUS
<1> HIDE DEF S, s, t
<1>3. u \in Seq(S) /\ Len(u) = Len(s) + 1
  BY <1>1, AppendProperties
<1>4. u[1] = a /\ u[2] = b
  <2>1. /\ \A i \in 1..Len(s) : u[i] = s[i]
        /\ u[Len(s) + 1] = b
    BY <1>1, AppendProperties
  <2> QED
    BY <1>1, <2>1
<1> HIDE DEF u
<1>5. u = t
  BY <1>1, <1>2, <1>3, <1>4, SeqEqual
<1> QED
  BY <1>5 DEF s, t, u

LEMMA AppendToNone == Append(<<>>, "fail") = <<"fail">> /\ Append(<<>>, "open") = <<"open">>
BY SMT

(* The handler a shutdown calls is the one that was still owed.                *)
LEMMA CallHandlerOwed ==
  ASSUME HandlersMatch, m_state = "closed", shutdown # "none", CallHandler
  PROVE  calls' \in {<<"fail">>, <<"open", "close">>}
<1>1. Append(<<>>, "fail") = <<"fail">> /\ Append(<<"open">>, "close") = <<"open", "close">>
  BY AppendToNone, AppendToOne
<1> QED
  BY <1>1 DEF HandlersMatch, CallHandler

(* A shutdown is under way only for a connection that is closed.               *)
LEMMA ShutdownIsClosed == ControlOK /\ HandlersMatch /\ shutdown # "none" => m_state = "closed"
BY DEF ControlOK, HandlersMatch

(* A step that changes nothing but what it is given of the input and the output.   *)
LEMMA SameEnding ==
  ASSUME ControlOK, HandlersMatch, UNCHANGED <<m_state, m_handshake_timer, timer>>, UNCHANGED ending,
         posted' \in Nat
  PROVE  ControlOK' /\ HandlersMatch'
BY DEF ControlOK, HandlersMatch, ending

(* The timer of the closing handshake leaves the one of a shutdown alone.        *)
LEMMA CloseTimerKeeps ==
  ASSUME ControlOK, StartCloseTimer
  PROVE  /\ m_handshake_timer' = "close"
         /\ timer' \in [Timer -> {"off", "armed", "due"}]
         /\ timer'["shutdown"] = timer["shutdown"]
BY DEF ControlOK, StartCloseTimer, Timer

(* Sending a close frame on an open or closing connection.                      *)
LEMMA SendCloseKeeps ==
  ASSUME ConnInv, m_state \in {"open", "closing"}, NEW f,
         m_state' = "closing", StartCloseTimer, Push(f),
         UNCHANGED <<ending, sender, write, m_internal_state, read>>
  PROVE  /\ ControlOK' /\ HandlersMatch' /\ SessionBegun' /\ FlagOwned' /\ NoStall'
         /\ m_state' = "closing"
<1> USE DEF ConnInv
<1>1. /\ m_state' = "closing"
      /\ m_write_flag' = m_write_flag
      /\ posted' = IF m_write_flag THEN posted ELSE posted + 1
  BY DEF Push
<1>2. ControlOK'
  BY <1>1, CloseTimerKeeps DEF ControlOK, ending
<1>3. HandlersMatch'
  BY <1>1 DEF HandlersMatch, ending
<1>4. SessionBegun' /\ FlagOwned'
  BY <1>1 DEF SessionBegun, FlagOwned
<1>5. NoStall'
  BY <1>1 DEF NoStall, ControlOK
<1> QED
  BY <1>1, <1>2, <1>3, <1>4, <1>5

-----------------------------------------------------------------------------
(* Every step keeps ConnInv; first the handlers that may end the connection.    *)
LEMMA TerminateInv ==
  ASSUME ConnInv, shutdown # "inline",
         NEW tm \in [Timer -> {"off", "armed", "due"}], tm["shutdown"] = timer["shutdown"],
         Terminate(tm),
         UNCHANGED <<calls, m_internal_state, m_send_queue, m_write_flag, posted, sender>>,
         read' \in {read, "none"}, write' \in {write, "none"}
  PROVE  ConnInv'
<1>1. ControlOK' /\ HandlersMatch' /\ m_state' = "closed"
  BY TerminateKeeps DEF ConnInv
<1>2. SessionBegun'
  BY <1>1 DEF ConnInv, SessionBegun
<1>3. FlagOwned'
  BY DEF ConnInv, FlagOwned
<1>4. NoStall'
  BY <1>1 DEF ConnInv, NoStall
<1>5. NeverDeaf'
  BY <1>1 DEF NeverDeaf
<1> QED
  BY <1>1, <1>2, <1>3, <1>4, <1>5 DEF ConnInv

LEMMA TimersInv == ConnInv /\ Timers => ConnInv'
<1> SUFFICES ASSUME ConnInv, Timers PROVE ConnInv'
  OBVIOUS
<1>1. CASE HandleShutdownTimeout
  <2>1. /\ shutdown = "late" /\ m_state = "closed" /\ m_state' = m_state
        /\ m_handshake_timer' = m_handshake_timer /\ shutdown' = "none"
        /\ timer' = [timer EXCEPT !["shutdown"] = "off"]
    BY <1>1, ShutdownIsClosed DEF HandleShutdownTimeout, ConnInv, ControlOK
  <2>2. calls' \in {<<"fail">>, <<"open", "close">>}
    BY <1>1, <2>1, CallHandlerOwed DEF HandleShutdownTimeout, ConnInv
  <2>3. ControlOK'
    BY <1>1, <2>1 DEF HandleShutdownTimeout, ConnInv, ControlOK, Timer, output
  <2>4. HandlersMatch'
    BY <2>1, <2>2 DEF HandlersMatch
  <2>5. SessionBegun' /\ FlagOwned' /\ NoStall' /\ NeverDeaf'
    BY <1>1, <2>1 DEF HandleShutdownTimeout, ConnInv, SessionBegun, FlagOwned, NoStall,
                      NeverDeaf, input, output, app
  <2> QED
    BY <2>3, <2>4, <2>5 DEF ConnInv
<1>2. ASSUME NEW t \in Timer, Expire(t) PROVE ConnInv'
  <2>1. timer' = [timer EXCEPT ![t] = "due"] /\ timer[t] = "armed"
    BY <1>2 DEF Expire
  <2>2. ControlOK'
    BY <1>2, <2>1 DEF Expire, ConnInv, ControlOK, ending, output
  <2>3. HandlersMatch'
    BY <1>2 DEF Expire, ConnInv, HandlersMatch, ending
  <2>4. SessionBegun' /\ FlagOwned' /\ NoStall' /\ NeverDeaf'
    BY <1>2 DEF Expire, ConnInv, SessionBegun, FlagOwned, NoStall, NeverDeaf, input, output, app
  <2> QED
    BY <2>2, <2>3, <2>4 DEF ConnInv
<1>3. ASSUME NEW t \in Timer, HandleTimeout(t) PROVE ConnInv'
  <2> DEFINE tm == [timer EXCEPT ![t] = "off"]
  <2>1. tm \in [Timer -> {"off", "armed", "due"}] /\ tm["shutdown"] = timer["shutdown"]
    BY <1>3 DEF HandleTimeout, ConnInv, ControlOK, Timer
  <2>2. Terminate(tm)
    BY <1>3 DEF HandleTimeout
  <2> HIDE DEF tm
  <2>3. /\ shutdown # "inline" /\ read' = read /\ write' = write
        /\ UNCHANGED <<calls, m_internal_state, m_send_queue, m_write_flag, posted, sender>>
    BY <1>3 DEF HandleTimeout, Free, input, output, app
  <2> QED
    BY <2>1, <2>2, <2>3, TerminateInv
<1> QED
  BY <1>1, <1>2, <1>3 DEF Timers

LEMMA HandshakeInv == ConnInv /\ Handshake => ConnInv'
<1> SUFFICES ASSUME ConnInv, Handshake PROVE ConnInv'
  OBVIOUS
<1>t. timer \in [Timer -> {"off", "armed", "due"}]
  BY DEF ConnInv, ControlOK
<1>1. CASE Accepted
  <2>1. /\ m_state' = m_state /\ m_internal_state' # "USER_INIT"
        /\ m_handshake_timer' \in {"open", m_handshake_timer}
        /\ timer' = [timer EXCEPT !["open"] = "armed"] \/ timer' = [timer EXCEPT !["init"] = "armed"]
        /\ read' \in {"handshake", read}
    BY <1>1 DEF Accepted
  <2>2. ControlOK'
    BY <1>1, <2>1 DEF Accepted, ConnInv, ControlOK, ending, output, Timer
  <2>3. HandlersMatch'
    BY <1>1, <2>1 DEF Accepted, ConnInv, HandlersMatch, ending
  <2>4. SessionBegun' /\ FlagOwned' /\ NoStall' /\ NeverDeaf'
    BY <1>1, <2>1 DEF Accepted, ConnInv, SessionBegun, FlagOwned, NoStall, NeverDeaf, output, app
  <2> QED
    BY <2>2, <2>3, <2>4 DEF ConnInv
<1>2. CASE AcceptFails
  <2>1. shutdown # "inline"
    BY <1>2 DEF AcceptFails, ConnInv, HandlersMatch
  <2> QED
    BY <1>2, <2>1, <1>t, TerminateInv DEF AcceptFails, input, output, app
<1>3. CASE HandleReadHandshake
  <2>1. /\ m_state' = m_state /\ m_internal_state' # "USER_INIT" /\ m_state = "connecting"
        /\ read' = "none" /\ write' \in {"101", "error"} /\ looping' = looping
    BY <1>3 DEF HandleReadHandshake
  <2>2. ControlOK' /\ HandlersMatch'
    BY <1>3 DEF HandleReadHandshake, ConnInv, ControlOK, HandlersMatch, ending, output
  <2>3. SessionBegun' /\ FlagOwned' /\ NoStall' /\ NeverDeaf'
    BY <1>3, <2>1 DEF HandleReadHandshake, ConnInv, SessionBegun, FlagOwned, NoStall, NeverDeaf,
                      output, app
  <2> QED
    BY <2>2, <2>3 DEF ConnInv
<1>4. CASE ReadHandshakeFails
  BY <1>4, <1>t, TerminateInv DEF ReadHandshakeFails, Free, output, app
<1>5. CASE Opens
  <2>1. /\ m_state = "connecting" /\ m_state' = "open" /\ m_internal_state' # "USER_INIT"
        /\ m_handshake_timer' = "null" /\ timer' = Cancelled(timer)
        /\ write' = "none" /\ looping' = TRUE /\ shutdown' = shutdown
    BY <1>5 DEF Opens
  <2>2. ControlOK'
    BY <1>5, <2>1, CancelledTimers DEF Opens, ConnInv, ControlOK, output
  <2>3. calls' = <<"open">>
    BY <1>5, <2>1, AppendToNone DEF Opens, ConnInv, HandlersMatch
  <2>4. HandlersMatch'
    BY <2>1, <2>3 DEF ConnInv, HandlersMatch
  <2>5. SessionBegun' /\ FlagOwned' /\ NoStall' /\ NeverDeaf'
    BY <1>5, <2>1 DEF Opens, ConnInv, SessionBegun, FlagOwned, NoStall, NeverDeaf, output, app
  <2> QED
    BY <2>2, <2>4, <2>5 DEF ConnInv
<1>6. CASE ResponseEnds
  BY <1>6, <1>t, TerminateInv DEF ResponseEnds, Free, input, output, app
<1> QED
  BY <1>1, <1>2, <1>3, <1>4, <1>5, <1>6 DEF Handshake

LEMMA FramesInv == ConnInv /\ Frames => ConnInv'
<1> SUFFICES ASSUME ConnInv, Frames PROVE ConnInv'
  OBVIOUS
<1>t. timer \in [Timer -> {"off", "armed", "due"}] /\ posted \in Nat
  BY DEF ConnInv, ControlOK
<1>1. CASE Close
  <2>1. /\ m_state = "open" /\ m_state' = "closing" /\ StartCloseTimer /\ Push("close")
        /\ UNCHANGED <<ending, sender, write, m_internal_state, read>>
        /\ looping' = looping
    BY <1>1 DEF Close, SendClose, input, app
  <2>2. /\ ControlOK' /\ HandlersMatch' /\ SessionBegun' /\ FlagOwned' /\ NoStall'
        /\ m_state' = "closing"
    BY <2>1, SendCloseKeeps
  <2>3. NeverDeaf'
    BY <2>2 DEF NeverDeaf
  <2> QED
    BY <2>2, <2>3 DEF ConnInv
<1>2. CASE HandleReadFrame
  <2>1. read = "frame" /\ m_state' = m_state /\ looping' = TRUE /\ read' = "none"
    BY <1>2 DEF HandleReadFrame, session
  <2>2. ControlOK' /\ HandlersMatch'
    BY <1>2, <1>t, SameEnding DEF HandleReadFrame, session, output, ConnInv
  <2>3. SessionBegun' /\ FlagOwned' /\ NoStall' /\ NeverDeaf'
    BY <1>2, <2>1 DEF HandleReadFrame, ConnInv, SessionBegun, FlagOwned, NoStall, NeverDeaf,
                      session, output, app
  <2> QED
    BY <2>2, <2>3 DEF ConnInv
<1>3. CASE ReadFrameFails
  BY <1>3, <1>t, TerminateInv DEF ReadFrameFails, Free, output, app
<1>4. CASE WriteFrame
  <2>1. /\ posted > 0 /\ posted' = posted - 1 /\ UNCHANGED <<session, ending, input, app>>
        /\ \/ /\ m_write_flag \/ m_send_queue = <<>>
              /\ UNCHANGED <<m_send_queue, m_write_flag, write>>
           \/ /\ m_send_queue # <<>> /\ m_write_flag' = TRUE /\ write' = "frames"
    BY <1>4 DEF WriteFrame
  <2>2. ControlOK' /\ HandlersMatch'
    BY <2>1, <1>t, SameEnding DEF session, ConnInv
  <2>3. SessionBegun' /\ FlagOwned' /\ NeverDeaf'
    BY <2>1 DEF ConnInv, SessionBegun, FlagOwned, NeverDeaf, session, input, app
  <2>4. NoStall'
    BY <2>1, <1>t DEF ConnInv, NoStall, session, app
  <2> QED
    BY <2>2, <2>3, <2>4 DEF ConnInv
<1>5. CASE FramesWritten
  <2>1. /\ write = "frames" /\ write' = "none" /\ shutdown # "inline"
        /\ UNCHANGED <<calls, m_internal_state, m_send_queue, sender, read, looping>>
    BY <1>5 DEF FramesWritten, Free, input, app
  <2>2. CASE Terminal(m_current_msgs[Len(m_current_msgs)])
    <3>1. Terminate(timer) /\ UNCHANGED <<m_write_flag, posted>>
      BY <1>5, <2>2 DEF FramesWritten
    <3> QED
      BY <2>1, <3>1, <1>t, TerminateInv
  <2>3. CASE ~Terminal(m_current_msgs[Len(m_current_msgs)])
    <3>1. /\ m_write_flag' = FALSE /\ posted' = IF m_send_queue = <<>> THEN posted ELSE posted + 1
          /\ UNCHANGED <<m_state, m_handshake_timer, timer, shutdown, tstat>>
      BY <1>5, <2>3 DEF FramesWritten, Recheck
    <3>2. ControlOK' /\ HandlersMatch'
      BY <2>1, <3>1, <1>t, SameEnding DEF ending, ConnInv
    <3>3. SessionBegun' /\ FlagOwned' /\ NeverDeaf'
      BY <2>1, <3>1 DEF ConnInv, SessionBegun, FlagOwned, NeverDeaf
    <3>4. NoStall'
      BY <2>1, <3>1, <1>t DEF NoStall
    <3> QED
      BY <3>2, <3>3, <3>4 DEF ConnInv
  <2> QED
    BY <2>2, <2>3
<1>6. CASE WriteFails
  BY <1>6, <1>t, TerminateInv DEF WriteFails, Free, input, app
<1> QED
  BY <1>1, <1>2, <1>3, <1>4, <1>5, <1>6 DEF Frames

LEMMA LoopInv == ConnInv /\ Loop => ConnInv'
<1> SUFFICES ASSUME ConnInv, Loop PROVE ConnInv'
  OBVIOUS
<1>t. timer \in [Timer -> {"off", "armed", "due"}] /\ posted \in Nat
  BY DEF ConnInv, ControlOK
<1>1. CASE ConsumeFrame
  <2>1. /\ looping /\ shutdown # "inline" /\ m_state # "connecting"
        /\ UNCHANGED <<m_internal_state, calls, read, write, app>>
    BY <1>1 DEF ConsumeFrame, ConnInv, SessionBegun
  <2>2. \/ looping' = looping
        \/ looping' = FALSE /\ GotGarbage
    BY <1>1 DEF ConsumeFrame
  <2>3. ASSUME NEW f, m_state \in {"open", "closing"},
               m_state' = "closing", StartCloseTimer, Push(f), UNCHANGED <<shutdown, tstat>>
        PROVE  ConnInv'
    <3>1. UNCHANGED <<ending, sender, write, m_internal_state, read>>
      BY <2>1, <2>3 DEF ending, app
    <3>2. /\ ControlOK' /\ HandlersMatch' /\ SessionBegun' /\ FlagOwned' /\ NoStall'
          /\ m_state' = "closing"
      BY <2>3, <3>1, SendCloseKeeps
    <3> QED
      BY <3>2 DEF ConnInv, NeverDeaf
  <2>4. ASSUME Terminate(timer), UNCHANGED output PROVE ConnInv'
    BY <2>1, <2>4, <1>t, TerminateInv DEF output, app
  <2>5. ASSUME UNCHANGED <<m_state, m_handshake_timer, timer, shutdown, tstat>>,
               UNCHANGED <<m_write_flag, m_send_queue, posted>> \/ Push("pong"),
               looping' = looping \/ m_state # "open"
        PROVE  ConnInv'
    <3>1. /\ m_write_flag' = m_write_flag
          /\ \/ posted' = posted /\ m_send_queue' = m_send_queue
             \/ posted' = IF m_write_flag THEN posted ELSE posted + 1
      BY <2>5 DEF Push
    <3>2. ControlOK' /\ HandlersMatch'
      BY <2>1, <2>5, <3>1, <1>t, SameEnding DEF ending, ConnInv
    <3>3. SessionBegun' /\ FlagOwned' /\ NeverDeaf'
      BY <2>1, <2>5, <3>1 DEF ConnInv, SessionBegun, FlagOwned, NeverDeaf
    <3>4. NoStall'
      BY <2>1, <2>5, <3>1, <1>t DEF ConnInv, NoStall, app
    <3> QED
      BY <3>2, <3>3, <3>4 DEF ConnInv
  <2>6. m_state \in {"open", "closing", "closed"}
    BY <2>1 DEF ConnInv, ControlOK
  <2>7. CASE Head(m_buf) = "close"
    <3>1. GotClose /\ looping' = looping
      BY <1>1, <2>7 DEF ConsumeFrame
    <3>2. CASE m_state = "open" /\ SendClose("lastclose", TRUE) /\ UNCHANGED <<shutdown, tstat>>
      BY <3>2, <2>3 DEF SendClose
    <3>3. CASE Terminate(timer) /\ UNCHANGED output
      BY <3>3, <2>4
    <3>4. CASE UNCHANGED <<m_state, m_was_clean, m_handshake_timer, timer, shutdown, tstat, output>>
      <4>1. UNCHANGED <<m_write_flag, m_send_queue, posted>>
        BY <3>4 DEF output
      <4> QED
        BY <3>1, <3>4, <4>1, <2>5
    <3> QED
      BY <3>1, <3>2, <3>3, <3>4 DEF GotClose
  <2>8. CASE Head(m_buf) = "badclose"
    <3>1. GotBadClose /\ looping' = looping
      BY <1>1, <2>8 DEF ConsumeFrame
    <3>2. CASE m_state # "closed" /\ SendClose("lastclose", TRUE) /\ UNCHANGED <<shutdown, tstat>>
      BY <3>2, <2>3, <2>6 DEF SendClose
    <3>3. CASE UNCHANGED <<m_state, m_was_clean, m_handshake_timer, timer, shutdown, tstat, output>>
      <4>1. UNCHANGED <<m_write_flag, m_send_queue, posted>>
        BY <3>3 DEF output
      <4> QED
        BY <3>1, <3>3, <4>1, <2>5
    <3> QED
      BY <3>1, <3>2, <3>3 DEF GotBadClose
  <2>9. CASE Head(m_buf) = "garbage"
    <3>1. GotGarbage
      BY <1>1, <2>9 DEF ConsumeFrame
    <3> QED
      BY <3>1, <2>3, <2>4 DEF GotGarbage, SendClose
  <2>10. CASE Head(m_buf) \notin {"close", "badclose", "garbage"}
    <3>1. /\ Push("pong") \/ UNCHANGED output
          /\ UNCHANGED <<m_state, m_handshake_timer, timer, shutdown, tstat>>
          /\ looping' = looping
      BY <1>1, <2>10 DEF ConsumeFrame
    <3> QED
      BY <3>1, <2>5 DEF output
  <2> QED
    BY <2>7, <2>8, <2>9, <2>10
<1>2. CASE ReadFrame
  <2>1. m_state # "connecting" /\ looping' = FALSE /\ read' = "frame" /\ m_state' = m_state
    BY <1>2 DEF ReadFrame, ReadAgain, ConnInv, SessionBegun, session
  <2>2. ControlOK' /\ HandlersMatch'
    BY <1>2, <1>t, SameEnding DEF ReadFrame, session, output, ConnInv
  <2>3. SessionBegun' /\ FlagOwned' /\ NoStall' /\ NeverDeaf'
    BY <1>2, <2>1 DEF ReadFrame, ConnInv, SessionBegun, FlagOwned, NoStall, NeverDeaf,
                      session, output, app
  <2> QED
    BY <2>2, <2>3 DEF ConnInv
<1>3. CASE HandleTerminate
  <2>1. /\ shutdown = "inline" /\ m_state = "closed" /\ shutdown' = "none"
        /\ UNCHANGED <<session, input, write, output, app>>
    BY <1>3, ShutdownIsClosed DEF HandleTerminate, ConnInv
  <2>2. calls' \in {<<"fail">>, <<"open", "close">>}
    BY <1>3, <2>1, CallHandlerOwed DEF HandleTerminate, ConnInv
  <2>3. ControlOK'
    BY <2>1 DEF ConnInv, ControlOK, session, output
  <2>4. HandlersMatch'
    BY <2>1, <2>2 DEF HandlersMatch, session
  <2>5. SessionBegun' /\ FlagOwned' /\ NoStall' /\ NeverDeaf'
    BY <2>1 DEF ConnInv, SessionBegun, FlagOwned, NoStall, NeverDeaf, session, input, output, app
  <2> QED
    BY <2>3, <2>4, <2>5 DEF ConnInv
<1> QED
  BY <1>1, <1>2, <1>3 DEF Loop

LEMMA SendInv == ConnInv /\ Send => ConnInv'
<1> SUFFICES ASSUME ConnInv, Send PROVE ConnInv'
  OBVIOUS
<1>1. /\ UNCHANGED <<session, ending, input, write>>
      /\ m_write_flag' = m_write_flag
      /\ \/ /\ m_state = "open" /\ sender = "idle" /\ sender' = "checked"
            /\ UNCHANGED <<m_send_queue, posted>>
         \/ /\ sender = "checked" /\ posted' = posted
            /\ sender' = IF ~m_write_flag THEN "dispatch" ELSE "idle"
         \/ /\ sender = "dispatch" /\ sender' = "idle" /\ posted' = posted + 1
            /\ m_send_queue' = m_send_queue
  BY DEF Send, SendCheck, SendPush, SendDispatch, NeedsWriting, output
<1>t. posted \in Nat
  BY DEF ConnInv, ControlOK
<1>2. ControlOK' /\ HandlersMatch'
  BY <1>1, <1>t, SameEnding DEF session, ConnInv
<1>3. SessionBegun' /\ FlagOwned' /\ NeverDeaf'
  BY <1>1 DEF ConnInv, SessionBegun, FlagOwned, NeverDeaf, session, input
<1>4. NoStall'
  BY <1>1, <1>t DEF ConnInv, NoStall, session
<1> QED
  BY <1>2, <1>3, <1>4 DEF ConnInv

LEMMA StepConn == ConnInv /\ [Next]_vars => ConnInv'
<1> SUFFICES ASSUME ConnInv, [Next]_vars PROVE ConnInv'
  OBVIOUS
<1>1. ASSUME UNCHANGED vars PROVE ConnInv'
  BY <1>1 DEF vars, session, ending, input, output, app, ConnInv, ControlOK, HandlersMatch,
              SessionBegun, FlagOwned, NoStall, NeverDeaf
<1> QED
  BY <1>1, LoopInv, HandshakeInv, FramesInv, TimersInv, SendInv DEF Next, Ended

(* The control of a connection: its timers, shutdown, handlers, flag and queue     *)
(* always fit together.                                                        *)
THEOREM ConnectionConsistent == Spec => []ConnInv
BY InitConn, StepConn, PTL DEF Spec

(* No frame waits in the queue without somebody who will write it                *)
(* (connection_impl.hpp, write_push and handle_write_frame).                    *)
THEOREM NothingStalls == Spec => []NoStall
<1>1. ConnInv => NoStall
  BY DEF ConnInv
<1> QED
  BY <1>1, ConnectionConsistent, PTL

(* An open connection always has a read outstanding or is processing frames       *)
(* (handle_read_frame and read_frame).                                         *)
THEOREM AlwaysReading == Spec => []NeverDeaf
<1>1. ConnInv => NeverDeaf
  BY DEF ConnInv
<1> QED
  BY <1>1, ConnectionConsistent, PTL

-----------------------------------------------------------------------------
(* The refinement: what a program sees of the connection is a life of ConnLife.   *)
LEMMA LifeMoves ==
  ASSUME \/ conn = "none" /\ conn' = "trying"
         \/ conn = "trying" /\ conn' \in {"open", "failed"}
         \/ conn = "open" /\ conn' \in {"closing", "closed"}
         \/ conn = "closing" /\ conn' = "closed"
         \/ conn = "closed" /\ conn' = "gone"
         \/ conn' = conn
  PROVE  [Life!Next]_conn
<1> DEFINE table == Life!Becomes
<1>1. /\ DOMAIN table = {"none", "trying", "failed", "open", "closing", "closed", "gone"}
      /\ table["none"] = {"trying"} /\ table["trying"] = {"open", "failed"}
      /\ table["open"] = {"closing", "closed"} /\ table["closing"] = {"closed"}
      /\ table["closed"] = {"gone"}
  BY DEF Life!Becomes
<1> HIDE DEF table
<1>2. conn' = conn \/ \E from \in DOMAIN table : conn = from /\ conn' \in table[from]
  BY <1>1
<1> QED
  BY <1>2 DEF Life!Next, Life!Step, table

(* Steps that the program does not see.                                        *)
LEMMA SeenNothing ==
  ASSUME UNCHANGED <<m_state, calls>>,
         m_state = "connecting" /\ calls = <<>> =>
           (m_internal_state' = "USER_INIT" <=> m_internal_state = "USER_INIT")
  PROVE  conn' = conn
BY DEF conn

(* A connection that ends: an attempt is still one until fail is called.         *)
LEMMA SeenClosed ==
  ASSUME ControlOK, HandlersMatch, m_state' = "closed", calls' = calls,
         m_internal_state' = m_internal_state
  PROVE  [Life!Next]_conn
<1>1. CASE m_state = "connecting"
  <2>1. calls = <<>>
    BY <1>1 DEF HandlersMatch
  <2>2. conn \in {"none", "trying"} /\ conn' = "trying"
    BY <1>1, <2>1 DEF conn
  <2> QED
    BY <2>2, LifeMoves
<1>2. CASE m_state \in {"open", "closing"}
  <2>1. calls = <<"open">>
    BY <1>2 DEF HandlersMatch
  <2>2. conn = m_state /\ conn' = "closed"
    BY <2>1 DEF conn
  <2> QED
    BY <1>2, <2>2, LifeMoves
<1>3. CASE m_state = "closed"
  <2>1. conn' = conn
    BY <1>3 DEF conn
  <2> QED
    BY <2>1, LifeMoves
<1> QED
  BY <1>1, <1>2, <1>3 DEF ControlOK

(* A shutdown that ends calls the handler that ends the life.                   *)
LEMMA SeenHandler ==
  ASSUME ControlOK, HandlersMatch, shutdown # "none", CallHandler, m_state' = m_state
  PROVE  [Life!Next]_conn
<1>1. m_state = "closed" /\ m_state' = "closed"
  BY ShutdownIsClosed
<1>2. \/ tstat = "failed" /\ calls = <<>> /\ calls' = <<"fail">>
      \/ tstat = "closed" /\ calls = <<"open">> /\ calls' = <<"open", "close">>
  <2>1. Append(<<>>, "fail") = <<"fail">> /\ Append(<<"open">>, "close") = <<"open", "close">>
    BY AppendToNone, AppendToOne
  <2> QED
    BY <1>1, <2>1 DEF HandlersMatch, CallHandler
<1>3. CASE tstat = "failed" /\ calls = <<>> /\ calls' = <<"fail">>
  <2>1. conn = "trying" /\ conn' = "failed"
    BY <1>1, <1>3 DEF conn
  <2> QED
    BY <2>1, LifeMoves
<1>4. CASE tstat = "closed" /\ calls = <<"open">> /\ calls' = <<"open", "close">>
  <2>1. conn = "closed" /\ conn' = "gone"
    BY <1>1, <1>4 DEF conn
  <2> QED
    BY <2>1, LifeMoves
<1> QED
  BY <1>2, <1>3, <1>4

(* The closing handshake begins.                                              *)
LEMMA SeenClosing ==
  ASSUME HandlersMatch, m_state \in {"open", "closing"}, m_state' = "closing", calls' = calls
  PROVE  [Life!Next]_conn
<1>1. calls = <<"open">> /\ calls' = <<"open">>
  BY DEF HandlersMatch
<1>2. conn = m_state /\ conn' = m_state'
  BY <1>1 DEF conn
<1> QED
  BY <1>2, LifeMoves

LEMMA LifeStep == ConnInv /\ [Next]_vars => [Life!Next]_conn
<1> SUFFICES ASSUME ConnInv, [Next]_vars PROVE [Life!Next]_conn
  OBVIOUS
<1>c. ControlOK /\ HandlersMatch /\ SessionBegun
  BY DEF ConnInv
<1>1. ASSUME UNCHANGED <<m_state, m_internal_state, calls>> PROVE [Life!Next]_conn
  BY <1>1, SeenNothing, LifeMoves
<1>2. CASE Loop
  <2>1. CASE ConsumeFrame
    <3>1. m_state # "connecting" /\ calls' = calls /\ m_internal_state' = m_internal_state
      BY <1>c, <2>1 DEF ConsumeFrame, SessionBegun
    <3>2. \/ m_state' = m_state
          \/ m_state' = "closing" /\ m_state # "closed"
          \/ m_state' = "closed"
      BY <2>1 DEF ConsumeFrame, GotClose, GotBadClose, GotGarbage, SendClose, Terminate
    <3>3. CASE m_state' = "closing" /\ m_state # "closed"
      BY <1>c, <3>1, <3>3, SeenClosing DEF ControlOK
    <3> QED
      BY <1>c, <1>1, <3>1, <3>2, <3>3, SeenClosed
  <2>2. CASE HandleTerminate
    BY <1>c, <2>2, SeenHandler DEF HandleTerminate, session
  <2>3. CASE ReadFrame
    BY <1>1, <2>3 DEF ReadFrame, session, ending
  <2> QED
    BY <1>2, <2>1, <2>2, <2>3 DEF Loop
<1>3. CASE Handshake
  <2>1. CASE Accepted
    <3>1. /\ m_state = "connecting" /\ m_internal_state = "USER_INIT" /\ m_state' = "connecting"
          /\ m_internal_state' # "USER_INIT" /\ calls = <<>> /\ calls' = <<>>
      BY <1>c, <2>1 DEF Accepted, HandlersMatch, ending
    <3>2. conn = "none" /\ conn' = "trying"
      BY <3>1 DEF conn
    <3> QED
      BY <3>2, LifeMoves
  <2>2. CASE HandleReadHandshake
    <3>1. /\ m_internal_state # "USER_INIT" /\ m_internal_state' # "USER_INIT"
          /\ UNCHANGED <<m_state, calls>>
      BY <1>c, <2>2 DEF HandleReadHandshake, SessionBegun, ending
    <3> QED
      BY <3>1, SeenNothing, LifeMoves
  <2>3. CASE Opens
    <3>1. /\ m_state = "connecting" /\ m_internal_state # "USER_INIT" /\ m_state' = "open"
          /\ calls = <<>> /\ calls' = <<"open">>
      BY <1>c, <2>3, AppendToNone DEF Opens, SessionBegun, HandlersMatch
    <3>2. conn = "trying" /\ conn' = "open"
      BY <3>1 DEF conn
    <3> QED
      BY <3>2, LifeMoves
  <2>4. CASE AcceptFails \/ ReadHandshakeFails \/ ResponseEnds
    <3>1. m_state' = "closed" /\ calls' = calls /\ m_internal_state' = m_internal_state
      BY <2>4 DEF AcceptFails, ReadHandshakeFails, ResponseEnds, Terminate
    <3> QED
      BY <1>c, <3>1, SeenClosed
  <2> QED
    BY <1>3, <2>1, <2>2, <2>3, <2>4 DEF Handshake
<1>4. CASE Frames
  <2>1. CASE Close
    <3>1. m_state = "open" /\ m_state' = "closing" /\ calls' = calls
      BY <2>1 DEF Close, SendClose, ending
    <3> QED
      BY <1>c, <3>1, SeenClosing
  <2>2. CASE HandleReadFrame \/ WriteFrame
    BY <1>1, <2>2 DEF HandleReadFrame, WriteFrame, session, ending
  <2>3. CASE ReadFrameFails \/ WriteFails \/ FramesWritten
    <3>1. /\ m_state' \in {"closed", m_state} /\ calls' = calls
          /\ m_internal_state' = m_internal_state
      BY <2>3 DEF ReadFrameFails, WriteFails, FramesWritten, Terminate
    <3> QED
      BY <1>c, <1>1, <3>1, SeenClosed
  <2> QED
    BY <1>4, <2>1, <2>2, <2>3 DEF Frames
<1>5. CASE Send
  BY <1>1, <1>5 DEF Send, SendCheck, SendPush, SendDispatch, session, ending
<1>6. CASE Timers
  <2>1. CASE HandleShutdownTimeout
    <3>1. shutdown # "none" /\ CallHandler /\ m_state' = m_state
      BY <1>c, <2>1 DEF HandleShutdownTimeout, ControlOK
    <3> QED
      BY <1>c, <3>1, SeenHandler
  <2>2. ASSUME NEW t \in Timer, Expire(t) PROVE [Life!Next]_conn
    BY <1>1, <2>2 DEF Expire, ending
  <2>3. ASSUME NEW t \in Timer, HandleTimeout(t) PROVE [Life!Next]_conn
    <3>1. m_state' = "closed" /\ calls' = calls /\ m_internal_state' = m_internal_state
      BY <2>3 DEF HandleTimeout, Terminate
    <3> QED
      BY <1>c, <3>1, SeenClosed
  <2> QED
    BY <1>6, <2>1, <2>2, <2>3 DEF Timers
<1>7. CASE Ended \/ UNCHANGED vars
  BY <1>1, <1>7 DEF Ended, vars, session, ending
<1> QED
  BY <1>2, <1>3, <1>4, <1>5, <1>6, <1>7 DEF Next

LEMMA LifeInit == Init => Life!Init
BY DEF Init, Life!Init, conn

(* The connection implements ConnLife, but for its liveness: open or fail is       *)
(* called once, close once after open and only then (terminate, handle_terminate  *)
(* and the handlers of connection.hpp, lines 52-83).                            *)
THEOREM ImplementsLife == Spec => Life!Init /\ [][Life!Next]_conn
BY LifeInit, LifeStep, ConnectionConsistent, PTL DEF Spec

=============================================================================
