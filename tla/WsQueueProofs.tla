---------------------------- MODULE WsQueueProofs ----------------------------
(* Proofs about the write queue of a websocketpp connection, for any number of   *)
(* messages: what is queued, by either thread, is written in this order, none     *)
(* twice and none left out.  The inductive invariant is QueueKept: every frame    *)
(* ever queued is on the wire, being written or waiting, in order, until a write   *)
(* fails; then the connection is closed and the write flag is never given back.  *)
(* QuietAfterClose says that nothing follows a close frame on the wire that must    *)
(* not: TerminalLast, that a terminal frame ends its batch and that the flag is     *)
(* kept once it was written, and QueuedAfterClose, that what is queued after a      *)
(* close() is a terminal frame or the message of a send that had seen the           *)
(* connection open, carry it.  ConnectionTyped is the type correctness of the whole *)
(* module.                                                                      *)
EXTENDS WsConnectionProofs, WellFoundedInduction

-----------------------------------------------------------------------------
(* Sequences.                                                                *)
LEMMA PrefixOfConcat ==
  ASSUME NEW S, NEW s \in Seq(S), NEW t \in Seq(S)
  PROVE  /\ s \o t \in Seq(S) /\ Len(s) <= Len(s \o t)
         /\ s = SubSeq(s \o t, 1, Len(s))
<1> DEFINE u == s \o t
<1>1. /\ u \in Seq(S) /\ Len(u) = Len(s) + Len(t)
      /\ \A i \in 1..Len(s) + Len(t) : u[i] = IF i <= Len(s) THEN s[i] ELSE t[i - Len(s)]
  BY ConcatProperties
<1>2. Len(s) \in Nat /\ Len(t) \in Nat
  BY LenProperties
<1> HIDE DEF u
<1>3. \A i \in 1..Len(s) : u[i] = s[i] /\ u[i] \in S
  BY <1>1, <1>2, ElementOfSeq
<1> DEFINE p == SubSeq(u, 1, Len(s))
<1>4. p \in Seq(S) /\ Len(p) = Len(s) /\ \A i \in 1..Len(s) : p[i] = u[i]
  <2>1. 1 \in Int /\ Len(s) \in Int
    BY <1>2
  <2>2. /\ p \in Seq(S)
        /\ Len(p) = IF 1 <= Len(s) THEN Len(s) - 1 + 1 ELSE 0
        /\ \A i \in 1..Len(s) - 1 + 1 : p[i] = u[1 + i - 1]
    BY <1>3, <2>1, SubSeqProperties
  <2> HIDE DEF p
  <2> QED
    BY <1>2, <2>2
<1> HIDE DEF p
<1>5. s = p
  BY <1>3, <1>4, SeqEqual
<1>6. u \in Seq(S) /\ Len(s) <= Len(u)
  BY <1>1, <1>2
<1> QED
  BY <1>5, <1>6 DEF u, p

LEMMA SplitAt ==
  ASSUME NEW S, NEW s \in Seq(S), NEW n \in 0..Len(s)
  PROVE  /\ SubSeq(s, 1, n) \in Seq(S) /\ SubSeq(s, n + 1, Len(s)) \in Seq(S)
         /\ SubSeq(s, 1, n) \o SubSeq(s, n + 1, Len(s)) = s
<1>1. Len(s) \in Nat /\ n \in Int
  BY LenProperties
<1>2. \A i \in 1..n : s[i] \in S
  BY <1>1, ElementOfSeq
<1>3. \A i \in (n + 1)..Len(s) : s[i] \in S
  BY <1>1, ElementOfSeq
<1>4. SubSeq(s, 1, n) \in Seq(S)
  BY <1>1, <1>2, SubSeqProperties
<1>5. SubSeq(s, n + 1, Len(s)) \in Seq(S)
  BY <1>1, <1>3, SubSeqProperties
<1>6. SubSeq(s, 1, n) \o SubSeq(s, n + 1, Len(s)) = SubSeq(s, 1, Len(s))
  <2>1. 1 \in 1..Len(s) + 1 /\ n \in 1 - 1..Len(s) /\ Len(s) \in n..Len(s)
    BY <1>1
  <2> QED
    BY <2>1, ConcatAdjacentSubSeq
<1> QED
  BY <1>4, <1>5, <1>6, SubSeqFull

LEMMA Joined ==
  \A a, b, c \in Seq(FrameOut) : (a \o b) \o c = a \o (b \o c) /\ b \o c \in Seq(FrameOut)
BY ConcatAssociative, ConcatProperties

(* What stands between two sequences may go to either.                         *)
LEMMA JoinedFour ==
  ASSUME NEW a \in Seq(FrameOut), NEW b \in Seq(FrameOut), NEW c \in Seq(FrameOut),
         NEW d \in Seq(FrameOut),
         NEW ab, ab = a \o b, NEW bc, bc = b \o c, NEW cd, cd = c \o d
  PROVE  ab \o cd = (a \o bc) \o d
<1>1. ab \in Seq(FrameOut)
  BY Joined
<1>2. ab \o cd = (ab \o c) \o d
  BY <1>1, Joined
<1>3. ab \o c = a \o bc
  BY Joined
<1> QED
  BY <1>2, <1>3

(* A non-empty set of naturals has a least element.                            *)
LEMMA LeastNat ==
  ASSUME NEW T, T \subseteq Nat, T # {}
  PROVE  \E x \in T : \A y \in T : x <= y
<1> DEFINE R == OpToRel(<, Nat)
<1>1. \E x \in T : \A y \in T : ~(<<y, x>> \in R)
  BY NatLessThanWellFounded, WFMin
<1>2. \A x, y \in Nat : y < x => <<y, x>> \in R
  BY DEF OpToRel
<1> HIDE DEF R
<1>3. PICK x \in T : \A y \in T : ~(<<y, x>> \in R)
  BY <1>1
<1>4. \A y \in T : x <= y
  <2>1. ASSUME NEW y \in T PROVE x <= y
    <3>1. x \in Nat /\ y \in Nat /\ ~(y < x)
      BY <1>2, <1>3, <2>1
    <3> QED
      BY <3>1
  <2> QED
    BY <2>1
<1> QED
  BY <1>4

(* There is something write_frame may take: all, or up to the first terminal frame. *)
LEMMA BatchInQueue ==
  ASSUME m_send_queue \in Seq(FrameOut)
  PROVE  /\ Batch \in 0..Len(m_send_queue)
         /\ \A i \in 1..(Batch - 1) : ~Terminal(m_send_queue[i])
<1> DEFINE q == m_send_queue
           T == {i \in 1..Len(q) : Terminal(q[i])}
           Good(n) == /\ \A i \in 1..(n - 1) : ~Terminal(q[i])
                      /\ n < Len(q) => n > 0 /\ Terminal(q[n])
<1>1. Len(q) \in Nat
  BY LenProperties
<1>2. \E n \in 0..Len(q) : Good(n)
  <2>1. CASE T = {}
    <3>1. Good(Len(q))
      BY <1>1, <2>1
    <3> QED
      BY <1>1, <3>1
  <2>2. CASE T # {}
    <3>1. T \subseteq Nat
      BY <1>1
    <3>2. \E x \in T : \A y \in T : x <= y
      <4> HIDE DEF T
      <4> QED
        BY <2>2, <3>1, LeastNat
    <3>3. PICK x \in T : \A y \in T : x <= y
      BY <3>2
    <3>4. Good(x) /\ x \in 0..Len(q)
      BY <1>1, <3>3
    <3> QED
      BY <3>4
  <2> QED
    BY <2>1, <2>2
<1>3. Batch = CHOOSE n \in 0..Len(q) : Good(n)
  BY DEF Batch
<1>4. Batch \in 0..Len(q) /\ Good(Batch)
  <2> HIDE DEF Good
  <2> QED
    BY <1>2, <1>3
<1> QED
  BY <1>4

-----------------------------------------------------------------------------
(* The steps, by what they do to the queue.                                    *)
LEMMA ClosedStays == ConnInv /\ [Next]_vars /\ m_state = "closed" => m_state' = "closed"
<1> SUFFICES ASSUME ConnInv, [Next]_vars, m_state = "closed" PROVE m_state' = "closed"
  OBVIOUS
<1>1. CASE Loop
  BY <1>1 DEF Loop, ConsumeFrame, ReadFrame, HandleTerminate, GotClose, GotBadClose, GotGarbage,
              Terminate, session
<1>2. CASE Handshake
  BY <1>2 DEF Handshake, Accepted, AcceptFails, HandleReadHandshake, ReadHandshakeFails, Opens,
              ResponseEnds, Terminate
<1>3. CASE Frames
  BY <1>3 DEF Frames, Close, HandleReadFrame, ReadFrameFails, WriteFrame, FramesWritten, WriteFails,
              Terminate, session
<1>4. CASE Send
  BY <1>4 DEF Send, SendCheck, SendPush, SendDispatch, session
<1>5. CASE Timers
  BY <1>5 DEF Timers, HandleShutdownTimeout, Expire, HandleTimeout, Terminate
<1>6. CASE Ended \/ UNCHANGED vars
  BY <1>6 DEF Ended, vars, session
<1> QED
  BY <1>1, <1>2, <1>3, <1>4, <1>5, <1>6 DEF Next

LEMMA SameKeeps ==
  ASSUME QueueKept, m_state = "closed" => m_state' = "closed",
         UNCHANGED <<m_current_msgs, m_send_queue, m_write_flag, pushed, wire>>,
         write' = write \/ write' # "frames"
  PROVE  QueueKept'
BY DEF QueueKept

LEMMA PushKeeps ==
  ASSUME QueueKept, m_state = "closed" => m_state' = "closed", NEW f \in FrameOut,
         m_send_queue' = Append(m_send_queue, f), pushed' = Append(pushed, f),
         UNCHANGED <<m_current_msgs, m_write_flag, write, wire>>
  PROVE  QueueKept'
<1> DEFINE one == <<f>>
<1>1. one \in Seq(FrameOut)
  OBVIOUS
<1>2. m_send_queue' = m_send_queue \o one /\ pushed' = pushed \o one
  BY AppendIsConcat DEF QueueKept
<1> HIDE DEF one
<1>3. m_send_queue' \in Seq(FrameOut) /\ pushed' \in Seq(FrameOut)
  BY <1>1, <1>2, ConcatProperties DEF QueueKept
<1>4. ASSUME pushed = wire \o m_current_msgs \o m_send_queue
      PROVE  pushed' = wire' \o m_current_msgs' \o m_send_queue'
  <2>1. wire \o m_current_msgs \in Seq(FrameOut)
    BY ConcatProperties DEF QueueKept
  <2>2. (wire \o m_current_msgs) \o m_send_queue \o one
          = (wire \o m_current_msgs) \o (m_send_queue \o one)
    BY <1>1, <2>1, ConcatAssociative DEF QueueKept
  <2> QED
    BY <1>2, <1>4, <2>2
<1>5. ASSUME Len(wire) <= Len(pushed), wire = SubSeq(pushed, 1, Len(wire))
      PROVE  Len(wire') <= Len(pushed') /\ wire' = SubSeq(pushed', 1, Len(wire'))
  <2> DEFINE rest == SubSeq(pushed, Len(wire) + 1, Len(pushed))
  <2>1. Len(wire) \in 0..Len(pushed)
    BY <1>5, LenProperties DEF QueueKept
  <2>2. rest \in Seq(FrameOut) /\ wire \o rest = pushed
    BY <1>5, <2>1, SplitAt DEF QueueKept
  <2> HIDE DEF rest
  <2>3. rest \o one \in Seq(FrameOut) /\ (wire \o rest) \o one = wire \o (rest \o one)
    <3>1. /\ wire \in Seq(FrameOut) /\ m_current_msgs \in Seq(FrameOut)
          /\ m_send_queue \in Seq(FrameOut)
      BY DEF QueueKept
    <3>2. rest \in Seq(FrameOut) /\ one \in Seq(FrameOut)
      BY <1>1, <2>2
    <3> QED
      BY <3>1, <3>2, Joined
  <2>4. wire' = wire /\ wire \in Seq(FrameOut)
    BY DEF QueueKept
  <2>5. pushed' = wire \o (rest \o one)
    BY <1>2, <2>2, <2>3
  <2> QED
    BY <2>3, <2>4, <2>5, PrefixOfConcat
<1> QED
  BY <1>3, <1>4, <1>5 DEF QueueKept

LEMMA WriteFrameKeeps ==
  ASSUME QueueKept, WriteFrame PROVE QueueKept'
<1>1. CASE m_write_flag \/ m_send_queue = <<>>
  <2>1. /\ UNCHANGED <<m_current_msgs, m_send_queue, m_write_flag, write, pushed, wire>>
        /\ m_state' = m_state
    BY <1>1 DEF WriteFrame, session
  <2> QED
    BY <2>1, SameKeeps
<1>2. CASE ~(m_write_flag \/ m_send_queue = <<>>)
  <2> DEFINE taken == SubSeq(m_send_queue, 1, Batch)
             left == SubSeq(m_send_queue, Batch + 1, Len(m_send_queue))
  <2>1. /\ m_current_msgs' = m_current_msgs \o taken /\ m_send_queue' = left
        /\ pushed' = pushed /\ wire' = wire
    BY <1>2 DEF WriteFrame
  <2>2. taken \in Seq(FrameOut) /\ left \in Seq(FrameOut) /\ taken \o left = m_send_queue
    BY BatchInQueue, SplitAt DEF QueueKept
  <2> HIDE DEF taken, left
  <2>3. m_current_msgs' \in Seq(FrameOut)
    BY <2>1, <2>2, ConcatProperties DEF QueueKept
  <2>4. pushed = wire \o m_current_msgs \o m_send_queue
    BY <1>2 DEF QueueKept
  <2>5. wire \o m_current_msgs \o (taken \o left) = wire \o (m_current_msgs \o taken) \o left
    <3>1. /\ wire \in Seq(FrameOut) /\ m_current_msgs \in Seq(FrameOut)
          /\ m_send_queue \in Seq(FrameOut)
      BY DEF QueueKept
    <3>2. taken \in Seq(FrameOut) /\ left \in Seq(FrameOut)
      BY <2>2
    <3> QED
      BY <3>1, <3>2, JoinedFour
  <2>6. pushed' = wire' \o m_current_msgs' \o m_send_queue'
    BY <2>1, <2>2, <2>4, <2>5
  <2> QED
    BY <2>1, <2>2, <2>3, <2>6 DEF QueueKept
<1> QED
  BY <1>1, <1>2

LEMMA FramesWrittenKeeps ==
  ASSUME QueueKept, FramesWritten PROVE QueueKept'
<1>1. /\ wire' = wire \o m_current_msgs /\ m_current_msgs' = <<>>
      /\ m_send_queue' = m_send_queue /\ pushed' = pushed /\ write = "frames"
  BY DEF FramesWritten, ForgetWritten
<1>2. pushed = wire \o m_current_msgs \o m_send_queue
  BY <1>1 DEF QueueKept
<1>3. wire' \in Seq(FrameOut) /\ m_current_msgs' \in Seq(FrameOut)
  BY <1>1, ConcatProperties, EmptySeq DEF QueueKept
<1>4. wire' \o m_current_msgs' = wire'
  BY <1>1, <1>3, ConcatEmptySeq
<1> QED
  BY <1>1, <1>2, <1>3, <1>4 DEF QueueKept

LEMMA WriteFailsKeeps ==
  ASSUME QueueKept, ConnInv, WriteFails PROVE QueueKept'
<1>1. PICK n \in 0..(Len(m_current_msgs) - 1) : wire' = wire \o SubSeq(m_current_msgs, 1, n)
  BY DEF WriteFails
<1>2. /\ m_state' = "closed" /\ m_write_flag' /\ write' # "frames"
      /\ m_current_msgs' = <<>> /\ m_send_queue' = m_send_queue /\ pushed' = pushed
      /\ write = "frames"
  BY DEF WriteFails, Terminate, ForgetWritten, ConnInv, FlagOwned
<1>3. pushed = wire \o m_current_msgs \o m_send_queue
  BY <1>2 DEF QueueKept
<1> DEFINE out == SubSeq(m_current_msgs, 1, n)
           lost == SubSeq(m_current_msgs, n + 1, Len(m_current_msgs))
<1>4. out \in Seq(FrameOut) /\ lost \in Seq(FrameOut) /\ out \o lost = m_current_msgs
  <2>1. n \in 0..Len(m_current_msgs)
    BY LenProperties DEF QueueKept
  <2> QED
    BY <2>1, SplitAt DEF QueueKept
<1> HIDE DEF out, lost
<1>5. wire' = wire \o out /\ wire' \in Seq(FrameOut)
  BY <1>1, <1>4, ConcatProperties DEF QueueKept, out
<1>6. lost \o m_send_queue \in Seq(FrameOut)
  BY <1>4, ConcatProperties DEF QueueKept
<1>7. pushed = wire' \o (lost \o m_send_queue)
  <2>1. (wire \o out) \o (lost \o m_send_queue) = (wire \o (out \o lost)) \o m_send_queue
    <3>1. /\ wire \in Seq(FrameOut) /\ m_current_msgs \in Seq(FrameOut)
          /\ m_send_queue \in Seq(FrameOut)
      BY DEF QueueKept
    <3>2. out \in Seq(FrameOut) /\ lost \in Seq(FrameOut)
      BY <1>4
    <3> QED
      BY <3>1, <3>2, JoinedFour
  <2> QED
    BY <1>3, <1>4, <1>5, <2>1
<1>8. Len(wire') <= Len(pushed') /\ wire' = SubSeq(pushed', 1, Len(wire'))
  BY <1>2, <1>5, <1>6, <1>7, PrefixOfConcat
<1>9. m_current_msgs' \in Seq(FrameOut)
  BY <1>2, EmptySeq
<1> QED
  BY <1>2, <1>5, <1>8, <1>9 DEF QueueKept

LEMMA StepQueue == QueueKept /\ ConnInv /\ [Next]_vars => QueueKept'
<1> SUFFICES ASSUME QueueKept, ConnInv, [Next]_vars PROVE QueueKept'
  OBVIOUS
<1>c. m_state = "closed" => m_state' = "closed"
  BY ClosedStays
<1>f. {"data", "pong", "close", "lastclose"} \subseteq FrameOut
  BY DEF FrameOut
<1>1. ASSUME UNCHANGED output, write' = write \/ write' # "frames" PROVE QueueKept'
  BY <1>c, <1>1, SameKeeps DEF output
<1>2. ASSUME NEW f \in FrameOut, Push(f), UNCHANGED write PROVE QueueKept'
  BY <1>c, <1>2, PushKeeps DEF Push
<1>3. CASE Loop
  <2>1. CASE ConsumeFrame
    <3>1. /\ UNCHANGED write
          /\ UNCHANGED output \/ Push("pong") \/ Push("lastclose")
      BY <2>1 DEF ConsumeFrame, GotClose, GotBadClose, GotGarbage, SendClose
    <3> QED
      BY <1>1, <1>2, <1>f, <3>1
  <2>2. CASE ReadFrame \/ HandleTerminate
    BY <1>1, <2>2 DEF ReadFrame, HandleTerminate
  <2> QED
    BY <1>3, <2>1, <2>2 DEF Loop
<1>4. CASE Handshake
  <2>1. UNCHANGED output /\ (write' = write \/ write' # "frames")
    BY <1>4 DEF Handshake, Accepted, AcceptFails, HandleReadHandshake, ReadHandshakeFails, Opens,
                ResponseEnds
  <2> QED
    BY <1>1, <2>1
<1>5. CASE Frames
  <2>1. CASE Close
    BY <1>2, <1>f, <2>1 DEF Close, SendClose
  <2>2. CASE HandleReadFrame \/ ReadFrameFails
    BY <1>1, <2>2 DEF HandleReadFrame, ReadFrameFails
  <2> QED
    BY <1>5, <2>1, <2>2, WriteFrameKeeps, FramesWrittenKeeps, WriteFailsKeeps DEF Frames
<1>6. CASE Send
  <2>1. CASE SendPush
    BY <1>c, <1>f, <2>1, PushKeeps DEF SendPush
  <2>2. CASE SendCheck \/ SendDispatch
    BY <1>c, <2>2, SameKeeps DEF SendCheck, SendDispatch, output
  <2> QED
    BY <1>6, <2>1, <2>2 DEF Send
<1>7. CASE Timers
  BY <1>1, <1>7 DEF Timers, HandleShutdownTimeout, Expire, HandleTimeout
<1>8. CASE Ended \/ UNCHANGED vars
  BY <1>1, <1>8 DEF Ended, vars
<1> QED
  BY <1>3, <1>4, <1>5, <1>6, <1>7, <1>8 DEF Next

LEMMA InitQueue == Init => QueueKept
<1> SUFFICES ASSUME Init PROVE QueueKept
  OBVIOUS
<1>1. <<>> \in Seq(FrameOut) /\ <<>> \o <<>> = <<>>
  BY EmptySeq, ConcatEmptySeq
<1> QED
  BY <1>1 DEF Init, QueueKept

LEMMA KeptIsInOrder == QueueKept => WrittenInOrder
<1> SUFFICES ASSUME QueueKept PROVE WrittenInOrder
  OBVIOUS
<1>1. ASSUME pushed = wire \o m_current_msgs \o m_send_queue
      PROVE  wire = SubSeq(pushed, 1, Len(wire))
  <2>1. m_current_msgs \o m_send_queue \in Seq(FrameOut)
    BY ConcatProperties DEF QueueKept
  <2>2. pushed = wire \o (m_current_msgs \o m_send_queue)
    BY <1>1, ConcatAssociative DEF QueueKept
  <2> QED
    BY <2>1, <2>2, PrefixOfConcat DEF QueueKept
<1> QED
  BY <1>1 DEF QueueKept, WrittenInOrder

(* Frames are written in the order they were queued, none twice and none left out  *)
(* (write_push, write_frame and handle_write_frame of connection_impl.hpp).      *)
THEOREM QueueInOrder == Spec => []WrittenInOrder
<1>1. Spec => []QueueKept
  BY InitQueue, StepQueue, ConnectionConsistent, PTL DEF Spec
<1> QED
  BY <1>1, KeptIsInOrder, PTL

-----------------------------------------------------------------------------
(* Types: those that neither ConnInv nor QueueKept implies.                    *)
PhaseTypes ==
  /\ m_internal_state \in {"USER_INIT", "TRANSPORT_INIT", "READ_HTTP_REQUEST",
                           "PROCESS_HTTP_REQUEST", "PROCESS_CONNECTION"}
  /\ m_was_clean \in BOOLEAN /\ m_write_flag \in BOOLEAN /\ looping \in BOOLEAN
  /\ tstat \in {"unknown", "failed", "closed"}
  /\ read \in {"none", "handshake", "frame"}
  /\ write \in {"none", "101", "error", "frames"}
  /\ sender \in {"idle", "checked", "dispatch"}
InputTypes ==
  /\ m_buf \in Seq(FrameIn) /\ incoming \in 0..Incoming /\ outgoing \in 0..Outgoing

LEMMA PhaseNext == ASSUME PhaseTypes, [Next]_vars PROVE PhaseTypes'
<1> USE DEF PhaseTypes
<1>1. CASE UNCHANGED vars \/ Ended
  BY <1>1 DEF vars, session, ending, input, output, app, Ended
<1>2. CASE Loop
  <2>1. CASE ConsumeFrame
    <3>1. /\ UNCHANGED <<m_internal_state, read, write, sender>>
          /\ looping' \in BOOLEAN
      BY <2>1 DEF ConsumeFrame, app
    <3>2. m_was_clean' \in BOOLEAN /\ m_write_flag' = m_write_flag
      BY <2>1 DEF ConsumeFrame, GotClose, GotBadClose, GotGarbage, SendClose, Push, output
    <3>3. tstat' \in {"unknown", "failed", "closed"}
      BY <2>1 DEF ConsumeFrame, GotClose, GotBadClose, GotGarbage, Terminate
    <3> QED
      BY <3>1, <3>2, <3>3
  <2>2. CASE ReadFrame \/ HandleTerminate
    BY <2>2 DEF ReadFrame, ReadAgain, HandleTerminate, session, ending, input, output, app
  <2> QED
    BY <1>2, <2>1, <2>2 DEF Loop
<1>3. CASE Handshake
  <2>1. CASE Accepted \/ HandleReadHandshake \/ Opens
    BY <2>1 DEF Accepted, HandleReadHandshake, Opens, ending, output, app
  <2>2. CASE AcceptFails \/ ReadHandshakeFails \/ ResponseEnds
    BY <2>2 DEF AcceptFails, ReadHandshakeFails, ResponseEnds, Terminate, input, output, app
  <2> QED
    BY <1>3, <2>1, <2>2 DEF Handshake
<1>4. CASE Frames
  <2>1. CASE Close \/ HandleReadFrame \/ WriteFrame
    BY <2>1 DEF Close, SendClose, Push, HandleReadFrame, WriteFrame, session, ending, input, output, app
  <2>2. CASE ReadFrameFails \/ FramesWritten \/ WriteFails
    BY <2>2 DEF ReadFrameFails, FramesWritten, WriteFails, Terminate, input, output, app
  <2> QED
    BY <1>4, <2>1, <2>2 DEF Frames
<1>5. CASE Send
  BY <1>5 DEF Send, SendCheck, SendPush, SendDispatch, session, ending, input, output
<1>6. CASE Timers
  <2>1. CASE HandleShutdownTimeout
    BY <2>1 DEF HandleShutdownTimeout, input, output, app
  <2>2. ASSUME NEW t \in Timer, Expire(t) \/ HandleTimeout(t) PROVE PhaseTypes'
    BY <2>2 DEF Expire, HandleTimeout, Terminate, ending, input, output, app
  <2> QED
    BY <1>6, <2>1, <2>2 DEF Timers
<1> QED
  BY <1>1, <1>2, <1>3, <1>4, <1>5, <1>6 DEF Next

(* The frames that arrive are among those the peer may still send.             *)
LEMMA ArriveTypes ==
  ASSUME InputTypes, NEW s \in SomeFrames, Arrive(s)
  PROVE  m_buf' \in Seq(FrameIn) /\ incoming' \in 0..Incoming
<1>1. PICK n \in 0..incoming : s \in [1..n -> FrameIn]
  BY DEF SomeFrames
<1>2. n \in Nat /\ n <= incoming /\ incoming \in Nat /\ incoming <= Incoming
  BY BoundsAssumption DEF InputTypes
<1>3. s \in Seq(FrameIn) /\ Len(s) = n
  <2>1. s \in Seq(FrameIn)
    BY <1>1, <1>2, SeqDef
  <2>2. Len(s) \in Nat /\ 1..Len(s) = 1..n
    BY <1>1, <2>1, LenProperties
  <2>3. Len(s) = n
    BY <1>2, <2>2
  <2> QED
    BY <2>1, <2>3
<1> QED
  BY <1>2, <1>3, BoundsAssumption DEF Arrive

LEMMA InputNext == ASSUME InputTypes, [Next]_vars PROVE InputTypes'
<1>1. CASE UNCHANGED <<m_buf, incoming, outgoing>>
  BY <1>1 DEF InputTypes
<1>2. ASSUME NEW s \in SomeFrames, Arrive(s), UNCHANGED outgoing PROVE InputTypes'
  BY <1>2, ArriveTypes DEF InputTypes
<1>3. CASE ConsumeFrame
  <2>1. m_buf \in Seq(FrameIn) /\ m_buf # <<>>
    BY <1>3 DEF ConsumeFrame, InputTypes
  <2>2. Tail(m_buf) \in Seq(FrameIn) /\ <<>> \in Seq(FrameIn)
    BY <2>1, HeadTailProperties, EmptySeq
  <2> QED
    BY <1>3, <2>2 DEF ConsumeFrame, InputTypes, app
<1>4. CASE SendCheck
  BY <1>4, BoundsAssumption DEF SendCheck, InputTypes, input
<1>5. CASE HandleReadHandshake \/ HandleReadFrame
  BY <1>1, <1>2, <1>5 DEF HandleReadHandshake, HandleReadFrame, app
<1>6. CASE ReadFrame \/ HandleTerminate \/ (Handshake /\ ~HandleReadHandshake)
  BY <1>1, <1>6 DEF ReadFrame, HandleTerminate, Handshake, Accepted, AcceptFails, ReadHandshakeFails,
                    Opens, ResponseEnds, input, app
<1>7. CASE Frames /\ ~HandleReadFrame
  BY <1>1, <1>7 DEF Frames, Close, ReadFrameFails, WriteFrame, FramesWritten, WriteFails, input, app
<1>8. CASE Timers \/ SendPush \/ SendDispatch
  BY <1>1, <1>8 DEF Timers, HandleShutdownTimeout, Expire, HandleTimeout, SendPush, SendDispatch, input, app
<1>9. CASE UNCHANGED vars \/ Ended
  BY <1>1, <1>9 DEF vars, input, app, Ended
<1> QED
  BY <1>3, <1>4, <1>5, <1>6, <1>7, <1>8, <1>9 DEF Next, Loop, Send, Handshake, Frames

(* Type correctness of a connection, for any number of frames (connection.hpp,    *)
(* the members of a connection).                                              *)
THEOREM ConnectionTyped == Spec => []TypeOK
<1>1. Init => PhaseTypes /\ InputTypes
  <2>1. Init => PhaseTypes
    BY DEF Init, PhaseTypes
  <2>2. Init => InputTypes
    <3>1. <<>> \in Seq(FrameIn)
      BY EmptySeq
    <3> QED
      BY <3>1, BoundsAssumption DEF Init, InputTypes
  <2> QED
    BY <2>1, <2>2
<1>2. PhaseTypes /\ InputTypes /\ [Next]_vars => PhaseTypes' /\ InputTypes'
  BY PhaseNext, InputNext
<1>3. ConnInv => calls \in {<<>>, <<"fail">>, <<"open">>, <<"open", "close">>}
  BY DEF ConnInv, ControlOK, HandlersMatch
<1>4. ConnInv /\ QueueKept /\ PhaseTypes /\ InputTypes => TypeOK
  BY <1>3 DEF TypeOK, ConnInv, ControlOK, QueueKept, PhaseTypes, InputTypes
<1>5. Spec => []QueueKept
  BY InitQueue, StepQueue, ConnectionConsistent, PTL DEF Spec
<1> QED
  BY <1>1, <1>2, <1>4, <1>5, ConnectionConsistent, PTL DEF Spec

-----------------------------------------------------------------------------
(* Writes.                                                                    *)

LEMMA TerminalInit == Init => TerminalLast
BY DEF Init, TerminalLast

(* Steps that write nothing and neither open the connection again nor give the    *)
(* flag back.                                                                  *)
LEMMA TerminalSame ==
  ASSUME TerminalLast, ConnInv, m_state = "closed" => m_state' = "closed",
         UNCHANGED <<m_current_msgs, m_write_flag, wire>>,
         write' = write \/ (write # "frames" /\ write' # "frames")
  PROVE  TerminalLast'
BY DEF TerminalLast

LEMMA TerminalWriteFrame ==
  ASSUME TerminalLast, QueueKept, ConnInv, WriteFrame PROVE TerminalLast'
<1>1. CASE m_write_flag \/ m_send_queue = <<>>
  BY <1>1, TerminalSame DEF WriteFrame, session
<1>2. CASE ~(m_write_flag \/ m_send_queue = <<>>)
  <2>1. m_current_msgs = <<>>
    BY <1>2 DEF TerminalLast, ConnInv, FlagOwned
  <2>2. /\ m_send_queue \in Seq(FrameOut) /\ Len(m_send_queue) \in Nat
        /\ Batch \in 0..Len(m_send_queue)
        /\ \A i \in 1..(Batch - 1) : ~Terminal(m_send_queue[i])
    BY BatchInQueue, LenProperties DEF QueueKept
  <2> DEFINE taken == SubSeq(m_send_queue, 1, Batch)
  <2>3. taken \in Seq(FrameOut) /\ Len(taken) = Batch /\ \A i \in 1..Batch : taken[i] = m_send_queue[i]
    <3>1. \A i \in 1..Batch : m_send_queue[i] \in FrameOut
      BY <2>2, ElementOfSeq
    <3>2. 1 \in Int /\ Batch \in Int
      BY <2>2
    <3> HIDE DEF taken
    <3>3. /\ taken \in Seq(FrameOut)
          /\ Len(taken) = IF 1 <= Batch THEN Batch - 1 + 1 ELSE 0
          /\ \A i \in 1..Batch - 1 + 1 : taken[i] = m_send_queue[1 + i - 1]
      BY <3>1, <3>2, SubSeqProperties DEF taken
    <3> QED
      BY <2>2, <3>3
  <2>4. m_current_msgs' = <<>> \o taken /\ wire' = wire /\ write' = "frames"
    BY <1>2, <2>1 DEF WriteFrame
  <2> HIDE DEF taken
  <2>5. m_current_msgs' = taken
    BY <2>3, <2>4, ConcatEmptySeq
  <2>6. \A i \in 1..(Len(m_current_msgs') - 1) : ~Terminal(m_current_msgs'[i])
    BY <2>2, <2>3, <2>5
  <2>7. \A i \in 1..Len(wire') : ~Terminal(wire'[i])
    BY <1>2, <2>4 DEF TerminalLast
  <2> QED
    BY <2>4, <2>6, <2>7 DEF TerminalLast
<1> QED
  BY <1>1, <1>2

LEMMA TerminalWritten ==
  ASSUME TerminalLast, QueueKept, ConnInv, FramesWritten PROVE TerminalLast'
<1> DEFINE c == m_current_msgs
<1>1. /\ wire' = wire \o c /\ m_current_msgs' = <<>> /\ write = "frames" /\ write' = "none"
      /\ m_write_flag
  BY DEF FramesWritten, ForgetWritten, ConnInv, FlagOwned
<1>2. /\ wire \in Seq(FrameOut) /\ c \in Seq(FrameOut) /\ Len(wire) \in Nat /\ Len(c) \in Nat
  BY LenProperties DEF QueueKept
<1>3. /\ Len(wire') = Len(wire) + Len(c)
      /\ \A i \in 1..Len(wire) + Len(c) :
           wire'[i] = IF i <= Len(wire) THEN wire[i] ELSE c[i - Len(wire)]
  BY <1>1, <1>2, ConcatProperties
<1>4. \A i \in 1..Len(wire) : ~Terminal(wire[i])
  BY <1>1 DEF TerminalLast
<1>5. \A i \in 1..(Len(c) - 1) : ~Terminal(c[i])
  BY DEF TerminalLast
<1>6. ASSUME NEW i \in 1..Len(wire'), Terminal(wire'[i])
      PROVE  i = Len(wire') /\ Terminal(c[Len(c)])
  <2>1. i > Len(wire)
    BY <1>2, <1>3, <1>4, <1>6
  <2>2. i - Len(wire) \in 1..Len(c) /\ Terminal(c[i - Len(wire)])
    BY <1>2, <1>3, <1>6, <2>1
  <2>3. i - Len(wire) = Len(c)
    BY <1>2, <1>5, <2>2
  <2> QED
    BY <1>2, <1>3, <2>2, <2>3
<1>7. Terminal(c[Len(c)]) => m_state' = "closed" /\ m_write_flag'
  BY <1>1 DEF FramesWritten, Terminate
<1> HIDE DEF c
<1>8. \A i \in 1..(Len(m_current_msgs') - 1) : ~Terminal(m_current_msgs'[i])
  BY <1>1
<1>9. \A i \in 1..Len(wire') : Terminal(wire'[i]) =>
        i = Len(wire') /\ m_state' = "closed" /\ m_write_flag' /\ write' # "frames"
  BY <1>1, <1>6, <1>7
<1> QED
  BY <1>1, <1>8, <1>9 DEF TerminalLast

LEMMA TerminalWriteFails ==
  ASSUME TerminalLast, QueueKept, WriteFails PROVE TerminalLast'
<1> DEFINE c == m_current_msgs
<1>1. PICK n \in 0..(Len(c) - 1) : wire' = wire \o SubSeq(c, 1, n)
  BY DEF WriteFails
<1>2. m_current_msgs' = <<>> /\ write = "frames" /\ write' = "none"
  BY DEF WriteFails, ForgetWritten
<1>3. /\ wire \in Seq(FrameOut) /\ c \in Seq(FrameOut) /\ Len(wire) \in Nat /\ Len(c) \in Nat
  BY LenProperties DEF QueueKept
<1>4. \A i \in 1..Len(wire) : ~Terminal(wire[i])
  BY <1>2 DEF TerminalLast
<1>5. \A i \in 1..(Len(c) - 1) : ~Terminal(c[i])
  BY DEF TerminalLast
<1> DEFINE out == SubSeq(c, 1, n)
<1>6. out \in Seq(FrameOut) /\ Len(out) = n /\ \A i \in 1..n : out[i] = c[i]
  <2>1. \A i \in 1..n : c[i] \in FrameOut
    BY <1>3, ElementOfSeq
  <2>2. 1 \in Int /\ n \in Int
    OBVIOUS
  <2> HIDE DEF out
  <2>3. /\ out \in Seq(FrameOut)
        /\ Len(out) = IF 1 <= n THEN n - 1 + 1 ELSE 0
        /\ \A i \in 1..n - 1 + 1 : out[i] = c[1 + i - 1]
    BY <2>1, <2>2, SubSeqProperties DEF out
  <2> QED
    BY <1>3, <2>3
<1>7. wire' = wire \o out
  BY <1>1
<1> HIDE DEF out
<1>8. /\ Len(wire') = Len(wire) + Len(out)
      /\ \A i \in 1..Len(wire) + Len(out) :
           wire'[i] = IF i <= Len(wire) THEN wire[i] ELSE out[i - Len(wire)]
  BY <1>3, <1>6, <1>7, ConcatProperties
<1>9. \A i \in 1..Len(wire') : ~Terminal(wire'[i])
  <2>1. ASSUME NEW i \in 1..Len(wire') PROVE ~Terminal(wire'[i])
    <3>1. CASE i <= Len(wire)
      BY <1>3, <1>4, <1>6, <1>8, <3>1
    <3>2. CASE i > Len(wire)
      <4>1. i - Len(wire) \in 1..n /\ wire'[i] = out[i - Len(wire)]
        BY <1>3, <1>6, <1>8, <3>2
      <4>2. out[i - Len(wire)] = c[i - Len(wire)] /\ i - Len(wire) \in 1..(Len(c) - 1)
        BY <1>3, <1>6, <4>1
      <4> QED
        BY <1>5, <4>1, <4>2
    <3> QED
      BY <1>3, <1>6, <1>8, <3>1, <3>2
  <2> QED
    BY <2>1
<1> QED
  BY <1>2, <1>9 DEF TerminalLast

LEMMA TerminalNext == TerminalLast /\ QueueKept /\ ConnInv /\ [Next]_vars => TerminalLast'
<1> SUFFICES ASSUME TerminalLast, QueueKept, ConnInv, [Next]_vars PROVE TerminalLast'
  OBVIOUS
<1>c. m_state = "closed" => m_state' = "closed"
  BY ClosedStays
<1>1. ASSUME UNCHANGED <<m_current_msgs, m_write_flag, wire>>,
             write' = write \/ (write # "frames" /\ write' # "frames")
      PROVE  TerminalLast'
  BY <1>c, <1>1, TerminalSame
<1>2. CASE Loop
  BY <1>1, <1>2 DEF Loop, ConsumeFrame, ReadFrame, HandleTerminate, GotClose, GotBadClose, GotGarbage,
                    SendClose, Push, output
<1>3. CASE Handshake
  BY <1>1, <1>3 DEF Handshake, Accepted, AcceptFails, HandleReadHandshake, ReadHandshakeFails, Opens,
                    ResponseEnds, output, ConnInv, SessionBegun
<1>4. CASE Frames
  <2>1. CASE Close \/ HandleReadFrame \/ ReadFrameFails
    BY <1>1, <2>1 DEF Close, HandleReadFrame, ReadFrameFails, SendClose, Push, output
  <2> QED
    BY <1>4, <2>1, TerminalWriteFrame, TerminalWritten, TerminalWriteFails DEF Frames
<1>5. CASE Send
  BY <1>1, <1>5 DEF Send, SendCheck, SendPush, SendDispatch, output
<1>6. CASE Timers
  BY <1>1, <1>6 DEF Timers, HandleShutdownTimeout, Expire, HandleTimeout, output
<1>7. CASE Ended \/ UNCHANGED vars
  BY <1>1, <1>7 DEF Ended, vars, output
<1> QED
  BY <1>2, <1>3, <1>4, <1>5, <1>6, <1>7 DEF Next

-----------------------------------------------------------------------------
(* The queue.                                                                 *)

LEMMA AfterCloseInit == Init => QueuedAfterClose
BY DEF Init, QueuedAfterClose

LEMMA AfterCloseSame ==
  ASSUME QueuedAfterClose, UNCHANGED pushed,
         m_state' \in {"connecting", "open"} => m_state \in {"connecting", "open"},
         sender' = "checked" => sender = "checked" \/ m_state \in {"connecting", "open"}
  PROVE  QueuedAfterClose'
BY DEF QueuedAfterClose

(* A frame is queued: a close or a pong by an open connection, a message by a     *)
(* send that is past its look at the state, or a terminal frame.                *)
LEMMA AfterClosePush ==
  ASSUME QueuedAfterClose, pushed \in Seq(FrameOut), NEW f \in FrameOut,
         pushed' = Append(pushed, f),
         m_state' \in {"connecting", "open"} => m_state \in {"connecting", "open"} /\ f # "close",
         f \in {"close", "pong"} => m_state = "open",
         f = "data" => sender = "checked" /\ sender' # "checked",
         sender' = "checked" => sender = "checked"
  PROVE  QueuedAfterClose'
<1> DEFINE n == Len(pushed)
<1>1. n \in Nat
  BY LenProperties
<1>2. Len(pushed') = n + 1 /\ pushed'[n + 1] = f /\ \A i \in 1..n : pushed'[i] = pushed[i]
  BY AppendProperties
<1>3. m_state' \in {"connecting", "open"} => \A i \in 1..Len(pushed') : pushed'[i] # "close"
  BY <1>1, <1>2 DEF QueuedAfterClose
<1>4. ASSUME NEW i \in 1..Len(pushed'), NEW j \in 1..Len(pushed'), pushed'[i] = "close", i < j
      PROVE  /\ pushed'[j] \in {"data", "lastclose"}
             /\ pushed'[j] = "data" =>
                  sender' # "checked" /\ \A k \in 1..Len(pushed') : i < k /\ pushed'[k] = "data" => k = j
  <2>1. i \in 1..n /\ pushed[i] = "close" /\ m_state # "open"
    BY <1>1, <1>2, <1>4 DEF QueuedAfterClose
  <2>2. CASE f = "data"
    <3>1. \A k \in 1..n : i < k => pushed[k] = "lastclose"
      BY <2>1, <2>2 DEF QueuedAfterClose
    <3>2. \A k \in 1..n : i < k => pushed'[k] = "lastclose"
      BY <1>2, <3>1
    <3> QED
      BY <1>1, <1>2, <1>4, <2>2, <3>2
  <2>3. CASE f = "lastclose"
    <3>1. pushed'[n + 1] = "lastclose"
      BY <1>2, <2>3
    <3>2. CASE j = n + 1
      BY <3>1, <3>2
    <3>3. CASE j \in 1..n
      <4>1. pushed'[j] = pushed[j]
        BY <1>2, <3>3
      <4>2. /\ pushed[j] \in {"data", "lastclose"}
            /\ pushed[j] = "data" =>
                 sender # "checked" /\ \A k \in 1..n : i < k /\ pushed[k] = "data" => k = j
        BY <1>4, <2>1, <3>3 DEF QueuedAfterClose
      <4>3. ASSUME pushed[j] = "data", NEW k \in 1..Len(pushed'), i < k, pushed'[k] = "data"
            PROVE  k = j
        BY <1>1, <1>2, <3>1, <4>2, <4>3
      <4> QED
        BY <4>1, <4>2, <4>3
    <3> QED
      BY <1>1, <1>2, <3>2, <3>3
  <2> QED
    BY <2>1, <2>2, <2>3 DEF FrameOut
<1> QED
  BY <1>3, <1>4 DEF QueuedAfterClose

LEMMA AfterCloseNext == QueuedAfterClose /\ QueueKept /\ ConnInv /\ [Next]_vars => QueuedAfterClose'
<1> SUFFICES ASSUME QueuedAfterClose, QueueKept, ConnInv, [Next]_vars PROVE QueuedAfterClose'
  OBVIOUS
<1>p. pushed \in Seq(FrameOut) /\ {"data", "pong", "close", "lastclose"} \subseteq FrameOut
  BY DEF QueueKept, FrameOut
<1>1. ASSUME UNCHANGED <<pushed, sender>>, m_state' = m_state \/ m_state' = "closed"
      PROVE  QueuedAfterClose'
  BY <1>1, AfterCloseSame
<1>2. ASSUME NEW f \in FrameOut, SendClose(f, m_was_clean') \/ SendClose(f, TRUE),
             UNCHANGED sender, f = "lastclose" \/ (f = "close" /\ m_state = "open")
      PROVE  QueuedAfterClose'
  BY <1>2, <1>p, AfterClosePush DEF SendClose, Push
<1>3. CASE Loop
  <2>1. CASE ConsumeFrame
    <3>1. CASE Head(m_buf) = "close"
      BY <1>1, <1>2, <1>p, <2>1, <3>1 DEF ConsumeFrame, GotClose, Terminate, app, output
    <3>2. CASE Head(m_buf) = "badclose"
      BY <1>1, <1>2, <1>p, <2>1, <3>2 DEF ConsumeFrame, GotBadClose, app, output
    <3>3. CASE Head(m_buf) = "garbage"
      BY <1>1, <1>2, <1>p, <2>1, <3>3 DEF ConsumeFrame, GotGarbage, SendClose, Terminate, app, output
    <3>4. CASE Head(m_buf) \notin {"close", "badclose", "garbage"}
      <4>1. /\ UNCHANGED <<m_state, sender>>
            /\ UNCHANGED pushed \/ (m_state = "open" /\ pushed' = Append(pushed, "pong"))
        BY <2>1, <3>4 DEF ConsumeFrame, Push, app, output
      <4> QED
        BY <1>1, <1>p, <4>1, AfterClosePush
    <3> QED
      BY <3>1, <3>2, <3>3, <3>4
  <2>2. CASE ReadFrame \/ HandleTerminate
    BY <1>1, <2>2 DEF ReadFrame, HandleTerminate, session, output, app
  <2> QED
    BY <1>3, <2>1, <2>2 DEF Loop
<1>4. CASE Handshake
  <2>1. /\ UNCHANGED <<pushed, sender>>
        /\ m_state' \in {"connecting", "open"} => m_state \in {"connecting", "open"}
    BY <1>4 DEF Handshake, Accepted, AcceptFails, HandleReadHandshake, ReadHandshakeFails, Opens,
                ResponseEnds, Terminate, output, app
  <2> QED
    BY <2>1, AfterCloseSame
<1>5. CASE Frames
  <2>1. CASE Close
    BY <1>2, <1>p, <2>1 DEF Close, SendClose, app
  <2>2. /\ ~Close => UNCHANGED <<pushed, sender>>
        /\ ~Close => m_state' = m_state \/ m_state' = "closed"
    BY <1>5 DEF Frames, HandleReadFrame, ReadFrameFails, WriteFrame, FramesWritten, WriteFails,
                Terminate, session, output, app
  <2> QED
    BY <1>1, <2>1, <2>2
<1>6. CASE Send
  <2>1. CASE SendCheck
    BY <2>1, AfterCloseSame DEF SendCheck, session, output
  <2>2. CASE SendPush
    <3>1. /\ pushed' = Append(pushed, "data") /\ m_state' = m_state
          /\ sender = "checked" /\ sender' # "checked"
      BY <2>2 DEF SendPush, session
    <3> QED
      BY <1>p, <3>1, AfterClosePush
  <2>3. CASE SendDispatch
    BY <2>3, AfterCloseSame DEF SendDispatch, session, output
  <2> QED
    BY <1>6, <2>1, <2>2, <2>3 DEF Send
<1>7. CASE Timers
  BY <1>1, <1>7 DEF Timers, HandleShutdownTimeout, Expire, HandleTimeout, Terminate, output, app
<1>8. CASE Ended \/ UNCHANGED vars
  BY <1>1, <1>8 DEF Ended, vars, session, output, app
<1> QED
  BY <1>3, <1>4, <1>5, <1>6, <1>7, <1>8 DEF Next

-----------------------------------------------------------------------------
LEMMA WireIsQueued ==
  ASSUME QueueKept
  PROVE  /\ Len(wire) \in Nat /\ Len(pushed) \in Nat /\ Len(wire) <= Len(pushed)
         /\ \A i \in 1..Len(wire) : wire[i] = pushed[i]
<1>1. /\ wire \in Seq(FrameOut) /\ pushed \in Seq(FrameOut)
      /\ m_current_msgs \in Seq(FrameOut) /\ m_send_queue \in Seq(FrameOut)
      /\ Len(wire) \in Nat /\ Len(pushed) \in Nat
  BY LenProperties DEF QueueKept
<1>2. Len(wire) <= Len(pushed) /\ wire = SubSeq(pushed, 1, Len(wire))
  <2>1. CASE pushed = wire \o m_current_msgs \o m_send_queue
    <3>1. m_current_msgs \o m_send_queue \in Seq(FrameOut)
          /\ pushed = wire \o (m_current_msgs \o m_send_queue)
      BY <1>1, <2>1, Joined
    <3> QED
      BY <1>1, <3>1, PrefixOfConcat
  <2> QED
    BY <2>1 DEF QueueKept
<1>3. \A i \in 1..Len(wire) : pushed[i] \in FrameOut
  BY <1>1, <1>2, ElementOfSeq
<1> DEFINE p == SubSeq(pushed, 1, Len(wire))
<1>4. 1 \in Int /\ Len(wire) \in Int
  BY <1>1
<1>5. \A i \in 1..Len(wire) - 1 + 1 : p[i] = pushed[1 + i - 1]
  BY <1>3, <1>4, SubSeqProperties
<1> HIDE DEF p
<1>6. \A i \in 1..Len(wire) : p[i] = pushed[i]
  BY <1>1, <1>5
<1>7. p = wire
  BY <1>2 DEF p
<1> QED
  BY <1>1, <1>2, <1>6, <1>7

LEMMA KeptIsQuiet == QueueKept /\ TerminalLast /\ QueuedAfterClose => NothingAfterClose
<1> SUFFICES ASSUME QueueKept, TerminalLast, QueuedAfterClose,
                    NEW i \in 1..Len(wire), NEW j \in 1..Len(wire), i < j
             PROVE  /\ ~Terminal(wire[i])
                    /\ wire[i] = "close" /\ ~Terminal(wire[j]) => wire[j] = "data" /\ j = i + 1
  BY DEF NothingAfterClose
<1>1. /\ Len(wire) \in Nat /\ Len(pushed) \in Nat /\ Len(wire) <= Len(pushed)
      /\ \A k \in 1..Len(wire) : wire[k] = pushed[k]
  BY WireIsQueued
<1>2. \A k \in 1..(j - 1) : ~Terminal(wire[k])
  BY <1>1 DEF TerminalLast
<1>3. ASSUME wire[i] = "close", ~Terminal(wire[j])
      PROVE  wire[j] = "data" /\ j = i + 1
  <2>1. i \in 1..Len(pushed) /\ j \in 1..Len(pushed) /\ i + 1 \in 1..Len(pushed) /\ i + 1 \in 1..Len(wire)
    BY <1>1
  <2>2. pushed[j] = "data" /\ wire[j] = "data"
    BY <1>1, <1>3, <2>1 DEF QueuedAfterClose, Terminal
  <2>3. j = i + 1
    <3>1. SUFFICES ASSUME i + 1 < j PROVE FALSE
      BY <1>1
    <3>2. ~Terminal(wire[i + 1])
      BY <1>1, <1>2, <3>1
    <3>3. pushed[i + 1] = "data"
      BY <1>1, <1>3, <2>1, <3>2 DEF QueuedAfterClose, Terminal
    <3>4. i + 1 = j
      BY <1>1, <1>3, <2>1, <2>2, <3>3 DEF QueuedAfterClose
    <3> QED
      BY <1>1, <3>1, <3>4
  <2> QED
    BY <2>2, <2>3
<1> QED
  BY <1>1, <1>2, <1>3

(* Nothing is sent after a terminal close frame; after another close frame only the *)
(* one message whose send had seen the connection open (send and send_close_frame   *)
(* of connection_impl.hpp, which take different locks).                          *)
THEOREM QuietAfterClose == Spec => []NothingAfterClose
<1>1. Spec => []QueueKept
  BY InitQueue, StepQueue, ConnectionConsistent, PTL DEF Spec
<1>2. Spec => []TerminalLast
  BY <1>1, TerminalInit, TerminalNext, ConnectionConsistent, PTL DEF Spec
<1>3. Spec => []QueuedAfterClose
  BY <1>1, AfterCloseInit, AfterCloseNext, ConnectionConsistent, PTL DEF Spec
<1> QED
  BY <1>1, <1>2, <1>3, KeptIsQuiet, PTL

=============================================================================
