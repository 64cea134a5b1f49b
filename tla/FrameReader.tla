----------------------------- MODULE FrameReader -----------------------------
(* How a server reads frames: hybi13::consume (processors/hybi13.hpp, lines      *)
(* 382-508) with the loop of handle_read_frame around it.  The peer's bytes come  *)
(* in chunks cut anywhere; consume goes through header, masking key and payload  *)
(* with what it has, and keeps the rest of its state for the next chunk.         *)
(*                                                                              *)
(* A byte on the wire is <<k, j>>, the j-th byte of the k-th frame.  What a header  *)
(* says is a field of its frame; a payload is made of "a", a character of one     *)
(* byte, "l" and "t", the two bytes of another, and "x", not UTF-8 anywhere.     *)
(* permessage_deflate is off, as config::asio has it.                           *)
EXTENDS Naturals, Sequences

CONSTANTS Frames,                      \* the frames a peer may send
          MaxFrames,                   \* bound of the model on their number
          connection_read_buffer_size,
          m_max_message_size,
          SizeT                        \* size_t counts modulo this

Control == {"PING", "CLOSE"}
Data == {"TEXT", "BINARY", "CONTINUATION"}
Op == Control \cup Data \cup {"reserved"}
Byte == {"a", "l", "t", "x"}

ASSUME ReaderAssumption ==
  /\ Frames \subseteq [op : Op, fin : BOOLEAN, masked : BOOLEAN, rsv : BOOLEAN,
                      payload : Seq(Byte), size : {"basic", "16bit", "64bit"}, minimal : BOOLEAN]
  /\ \A f \in Frames : f.size = "basic" => f.minimal
  /\ MaxFrames \in Nat /\ connection_read_buffer_size \in Nat \ {0}
  /\ SizeT \in Nat /\ m_max_message_size \in Nat /\ m_max_message_size < SizeT
  /\ \A f \in Frames : Len(f.payload) < SizeT

VARIABLES
  frames,              \* what the peer sends
  unread, len,         \* the bytes not yet consumed; those among them in the buffer
  m_state, m_bytes_needed,
  m_basic_header, m_extended_header,    \* the bytes of them that were read
  m_data_msg, m_control_msg,
  m_current_msg,       \* "data" or "control"
  ec,                  \* consume returned an error
  delivered            \* messages handed to handle_read_frame, and whether each was in a
                       \* single frame (history)

stream == <<frames, unread, len>>
header == <<m_basic_header, m_extended_header>>
msgs   == <<m_data_msg, m_control_msg, m_current_msg>>
vars   == <<stream, m_state, m_bytes_needed, header, msgs, ec, delivered>>

(* get_header_len: the size field has 0, 2 or 8 bytes beyond the basic header.   *)
HeaderLen(f) == 2 + (CASE f.size = "basic" -> 0 [] f.size = "16bit" -> 2 [] f.size = "64bit" -> 8)
                  + (IF f.masked THEN 4 ELSE 0)
BytesOf(k, f) == [j \in 1..(HeaderLen(f) + Len(f.payload)) |-> <<k, j>>]

(* The bytes of the frames from the k-th on.                                   *)
BytesFrom(fs, k) ==
  LET from[n \in 1..(Len(fs) + 1)] ==
        IF n > Len(fs) THEN <<>> ELSE BytesOf(n, fs[n]) \o from[n + 1]
  IN  from[k]

(* The frame whose header was read.                                            *)
Header == frames[m_basic_header[1][1]]
HeaderIsWhole ==
  m_basic_header \o m_extended_header
    = [j \in 1..HeaderLen(Header) |-> <<m_basic_header[1][1], j>>]

(* The validator, byte by byte, and what a message's metadata holds.            *)
Utf8State == {"accept", "lead", "reject"}
Decode(state, b) == CASE state = "accept" /\ b = "a" -> "accept"
                      [] state = "accept" /\ b = "l" -> "lead"
                      [] state = "lead" /\ b = "t"   -> "accept"
                      [] OTHER                       -> "reject"
DecodeFrom(state, bytes) ==
  LET after[n \in 0..Len(bytes)] == IF n = 0 THEN state ELSE Decode(after[n - 1], bytes[n])
  IN  after[Len(bytes)]
Utf8(payload) == DecodeFrom("accept", payload)

Metadata == [op : Op \cup {"none"}, payload : Seq(Byte), prepared_key : 0..3, validator : Utf8State]
NoMsg == [op |-> "none", payload |-> <<>>, prepared_key |-> 0, validator |-> "accept"]
NewMsg(op) == [NoMsg EXCEPT !.op = op]

TypeOK ==
  /\ frames \in Seq(Frames) /\ len \in 0..Len(unread) /\ len <= connection_read_buffer_size
  /\ m_state \in {"HEADER_BASIC", "HEADER_EXTENDED", "APPLICATION", "READY"}
  /\ m_bytes_needed \in Nat
  /\ Len(m_basic_header) <= 2
  /\ m_state # "HEADER_BASIC" => HeaderLen(Header) <= 14 /\ Len(m_extended_header) <= HeaderLen(Header) - 2
  /\ {m_data_msg, m_control_msg} \subseteq Metadata
  /\ m_data_msg.op \in {"none", "TEXT", "BINARY"} /\ m_control_msg.op \in {"none"} \cup Control
  /\ m_current_msg \in {"data", "control"}
  /\ ec \in BOOLEAN

Init ==
  /\ frames \in UNION {[1..n -> Frames] : n \in 1..MaxFrames}
  /\ unread = BytesFrom(frames, 1) /\ len = 0
  /\ m_state = "HEADER_BASIC" /\ m_bytes_needed = 2
  /\ m_basic_header = <<>> /\ m_extended_header = <<>>
  /\ m_data_msg = NoMsg /\ m_control_msg = NoMsg /\ m_current_msg = "data"
  /\ ec = FALSE /\ delivered = <<>>

-----------------------------------------------------------------------------
(* The loop of consume goes on, over the empty payload of a frame too.          *)
BytesLeft == len > 0                             \* slip: an empty payload waits
MoreToDo == len > 0 \/ m_bytes_needed = 0
Consuming == ~ec /\ m_state # "READY" /\ MoreToDo

(* handle_read_frame is called with the next chunk.                            *)
Read ==
  /\ ~ec /\ m_state # "READY" /\ ~MoreToDo
  /\ len' \in {n \in 1..connection_read_buffer_size : n <= Len(unread)}
  /\ UNCHANGED <<frames, unread, m_state, m_bytes_needed, header, msgs, ec, delivered>>

Take(n) == /\ unread' = SubSeq(unread, n + 1, Len(unread))
           /\ len' = len - n
           /\ UNCHANGED frames
ToReadAll == len                                 \* slip: no minimum
ToRead == IF m_bytes_needed <= len THEN m_bytes_needed ELSE len

(* validate_incoming_basic_header and validate_incoming_extended_header.        *)
BasicHeaderOk(f, new_msg) ==
  /\ f.op \in Control => f.size = "basic" /\ f.fin
  /\ ~f.rsv
  /\ f.op # "reserved"
  /\ f.op \in Data => (f.op = "CONTINUATION" <=> ~new_msg)
  /\ f.masked
ExtendedHeaderOk(f) == f.minimal

CopyBasicHeader ==
  /\ Consuming /\ m_state = "HEADER_BASIC"
  /\ Take(ToRead)
  /\ m_basic_header' = m_basic_header \o SubSeq(unread, 1, ToRead)
  /\ IF ToRead < m_bytes_needed
     THEN m_bytes_needed' = m_bytes_needed - ToRead /\ UNCHANGED <<m_state, ec>>
     ELSE LET f == frames[m_basic_header'[1][1]] IN
          /\ ec' = ~BasicHeaderOk(f, m_data_msg = NoMsg)
          /\ m_state' = IF ec' THEN m_state ELSE "HEADER_EXTENDED"
          /\ m_bytes_needed' = IF ec' THEN 0 ELSE HeaderLen(f) - 2
  /\ UNCHANGED <<m_extended_header, msgs, delivered>>

(* The message that a frame begins or goes on with.  The sum of what the message  *)
(* has and the length in the header, any of 64 bits, is a size_t and wraps.      *)
NewKey(msg) == [msg EXCEPT !.prepared_key = 0]
SizeSum(a, b) == (a + b) % SizeT
TooBigAlone(f) == Len(f.payload) > m_max_message_size       \* slip: not the sum
TooBig(f) == SizeSum(Len(m_data_msg.payload), Len(f.payload)) > m_max_message_size

BeginFrame(f) ==
  IF f.op \in Control
  THEN /\ m_control_msg' = NewMsg(f.op) /\ m_current_msg' = "control"
       /\ UNCHANGED <<m_data_msg, ec>>
  ELSE /\ ec' = TooBig(f)
       /\ m_data_msg' = IF ec' THEN m_data_msg
                        ELSE IF m_data_msg = NoMsg THEN NewMsg(f.op) ELSE NewKey(m_data_msg)
       /\ m_current_msg' = IF ec' THEN m_current_msg ELSE "data"
       /\ UNCHANGED m_control_msg

CopyExtendedHeader ==
  /\ Consuming /\ m_state = "HEADER_EXTENDED"
  /\ Take(ToRead)
  /\ m_extended_header' = m_extended_header \o SubSeq(unread, 1, ToRead)
  /\ IF ToRead < m_bytes_needed
     THEN m_bytes_needed' = m_bytes_needed - ToRead /\ UNCHANGED <<m_state, msgs, ec>>
     ELSE IF ~ExtendedHeaderOk(Header)
     THEN ec' = TRUE /\ m_bytes_needed' = 0 /\ UNCHANGED <<m_state, msgs>>
     ELSE /\ m_state' = "APPLICATION" /\ m_bytes_needed' = Len(Header.payload)
          /\ BeginFrame(Header)
  /\ UNCHANGED <<m_basic_header, delivered>>

(* process_payload_bytes: a byte comes out right when it is unmasked with the     *)
(* part of the frame's key that it was masked with.                            *)
Unmasked(b, key) ==
  LET offset == b[2] - HeaderLen(Header) - 1 IN
  IF HeaderIsWhole /\ b[1] = m_basic_header[1][1] /\ offset >= 0 /\ key % 4 = offset % 4
  THEN Header.payload[offset + 1] ELSE "garbled"

Rotated(key, n) == (key + n) % 4

Received(msg, n) ==
  LET bytes == [j \in 1..n |-> Unmasked(unread[j], msg.prepared_key + j - 1)] IN
  [msg EXCEPT !.payload = @ \o bytes,
              !.prepared_key = Rotated(@, n),
              !.validator = IF msg.op = "TEXT" THEN DecodeFrom(@, bytes) ELSE @]

Current == IF m_current_msg = "control" THEN m_control_msg ELSE m_data_msg

(* finalize_message asks for a whole last character when the frame, not the      *)
(* message, is a text.                                                         *)
FinalizedAnyway(msg) == TRUE                     \* slip
Finalized(msg) == Header.op = "TEXT" => msg.validator = "accept"

ProcessPayload ==
  /\ Consuming /\ m_state = "APPLICATION"
  /\ LET msg == Received(Current, ToRead) IN
     /\ IF m_current_msg = "control" THEN m_control_msg' = msg /\ UNCHANGED m_data_msg
                                     ELSE m_data_msg' = msg /\ UNCHANGED m_control_msg
     /\ IF msg.validator = "reject"
        THEN /\ ec' = TRUE
             /\ UNCHANGED <<stream, m_state, m_bytes_needed, header>>
        ELSE /\ Take(ToRead)
             /\ IF ToRead < m_bytes_needed
                THEN m_bytes_needed' = m_bytes_needed - ToRead /\ UNCHANGED <<m_state, header, ec>>
                ELSE IF Header.fin
                THEN /\ ec' = ~Finalized(msg)
                     /\ m_state' = IF ec' THEN m_state ELSE "READY"
                     /\ m_bytes_needed' = 0
                     /\ UNCHANGED header
                ELSE /\ m_state' = "HEADER_BASIC" /\ m_bytes_needed' = 2
                     /\ m_basic_header' = <<>> /\ m_extended_header' = <<>>
                     /\ UNCHANGED ec
  /\ UNCHANGED <<m_current_msg, delivered>>

(* get_message: only the message that is whole is given up.                     *)
Forget == IF Current.op \in Control THEN m_control_msg' = NoMsg /\ UNCHANGED m_data_msg
                                    ELSE m_data_msg' = NoMsg /\ UNCHANGED m_control_msg

GetMessage ==
  /\ m_state = "READY"
  /\ delivered' = Append(delivered, [op |-> Current.op, payload |-> Current.payload,
                                       single |-> Header.op # "CONTINUATION"])
  /\ Forget
  /\ m_state' = "HEADER_BASIC" /\ m_bytes_needed' = 2
  /\ m_basic_header' = <<>> /\ m_extended_header' = <<>>
  /\ UNCHANGED <<stream, m_current_msg, ec>>

(* All is read, or nothing more is after an error.                             *)
Ended ==
  /\ ~ec => unread = <<>> /\ ~Consuming /\ m_state # "READY"
  /\ UNCHANGED vars

Next == Read \/ CopyBasicHeader \/ CopyExtendedHeader \/ ProcessPayload \/ GetMessage \/ Ended
Spec == Init /\ [][Next]_vars

-----------------------------------------------------------------------------
(* What a stream of whole frames means.                                      *)

(* One more frame after what the frames before it came to.                      *)
Begun(before, f) == IF f.op = "CONTINUATION" THEN before.msg ELSE [op |-> f.op, payload |-> <<>>]
Longer(before, f) == [Begun(before, f) EXCEPT !.payload = @ \o f.payload]
Acceptable(before, f) ==
  LET msg == Longer(before, f) IN
  /\ BasicHeaderOk(f, before.msg.op = "none") /\ ExtendedHeaderOk(f)
  /\ f.op \in Data => SizeSum(Len(Begun(before, f).payload), Len(f.payload)) <= m_max_message_size
  /\ msg.op = "TEXT" => Utf8(msg.payload) # "reject"
  /\ f.op = "TEXT" /\ f.fin => Utf8(msg.payload) = "accept"
Whole(msg, f) == [op |-> msg.op, payload |-> msg.payload, single |-> f.op # "CONTINUATION"]
Meaning(before, f) ==
  LET msg == Longer(before, f) IN
  IF ~(before.ok /\ Acceptable(before, f)) THEN [before EXCEPT !.ok = FALSE]
  ELSE [ok  |-> TRUE,
        out |-> IF f.fin THEN Append(before.out, Whole(msg, f)) ELSE before.out,
        msg |-> IF f.op \in Control THEN before.msg
                ELSE IF f.fin THEN [op |-> "none", payload |-> <<>>] ELSE msg]
Nothing == [ok |-> TRUE, out |-> <<>>, msg |-> [op |-> "none", payload |-> <<>>]]

(* What the first n frames come to; there may be fewer.                         *)
Meant(fs, n) ==
  LET meant[i \in 0..Len(fs)] == IF i = 0 THEN Nothing ELSE Meaning(meant[i - 1], fs[i])
  IN  meant[IF n <= Len(fs) THEN n ELSE Len(fs)]

WholeFrames == IF unread = <<>> THEN Len(frames) ELSE Head(unread)[1] - 1

(* Wherever the chunks end, in a header, in a key, in a character, between or    *)
(* after frames, and with control frames between the fragments of a message: when *)
(* consume has used up a chunk, just the messages of the frames that are whole    *)
(* were handed over, and an error is raised exactly for what has one.          *)
ChunksDoNotMatter ==
  /\ ~ec /\ ~Consuming /\ m_state # "READY" =>
       Meant(frames, WholeFrames).ok /\ delivered = Meant(frames, WholeFrames).out
  /\ ec => LET meant == Meant(frames, WholeFrames + 1) IN ~meant.ok /\ delivered = meant.out

(* What is held or handed over of a data message never exceeds the limit, no      *)
(* matter into how many frames it is split (lines 439, 457), as long as no length  *)
(* that a continuation announces is so great that the sum of line 457 can wrap.    *)
NoneWraps ==
  \A i \in DOMAIN frames :
    frames[i].op = "CONTINUATION" => m_max_message_size + Len(frames[i].payload) < SizeT
MessageBounded ==
  NoneWraps =>
    /\ Len(m_data_msg.payload) <= m_max_message_size
    /\ \A k \in DOMAIN delivered :
         delivered[k].op \in {"TEXT", "BINARY"} => Len(delivered[k].payload) <= m_max_message_size

(* A text handed over is UTF-8 as far as it goes, wherever its frames cut its       *)
(* characters and whatever comes between them; one in a single frame does not end   *)
(* inside a character (process_payload_bytes, finalize_message).                  *)
TextValid ==
  \A k \in DOMAIN delivered : delivered[k].op = "TEXT" =>
    /\ Utf8(delivered[k].payload) # "reject"
    /\ delivered[k].single => Utf8(delivered[k].payload) = "accept"

(* finalize_message: "ensure that text messages end on a valid UTF8 code point"    *)
(* (line 536).                                                                 *)
TextIsUtf8 ==
  \A k \in DOMAIN delivered :
    delivered[k].op = "TEXT" => Utf8(delivered[k].payload) = "accept"
=============================================================================
