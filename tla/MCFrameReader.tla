---------------------------- MODULE MCFrameReader ----------------------------
(* Frames for FrameReader: fragments that cut a character in two, control frames *)
(* that may come between them, empty payloads, a payload longer than a masking    *)
(* key, long size fields, a length that makes the sum with the limit wrap, and one *)
(* of each kind that consume refuses.                                          *)
EXTENDS FrameReader

F(op, fin, payload) == [op |-> op, fin |-> fin, masked |-> TRUE, rsv |-> FALSE,
                        size |-> "basic", minimal |-> TRUE, payload |-> payload]
MCFrames == {
  F("TEXT", TRUE, <<"a", "l", "t">>),
  F("TEXT", TRUE, <<"a", "l">>),
  F("TEXT", FALSE, <<"l">>),
  F("CONTINUATION", FALSE, <<"t", "a">>),
  F("CONTINUATION", TRUE, <<"t", "a", "l", "t", "a">>),
  F("CONTINUATION", TRUE, <<>>),
  F("BINARY", FALSE, <<"x", "x">>),
  F("PING", TRUE, <<"x">>),
  F("CLOSE", TRUE, <<>>),
  [F("PING", TRUE, <<>>) EXCEPT !.masked = FALSE],
  [F("CONTINUATION", TRUE, [i \in 1..11 |-> "a"]) EXCEPT !.size = "64bit"],
  [F("BINARY", TRUE, <<"a">>) EXCEPT !.rsv = TRUE],
  [F("BINARY", TRUE, <<"a">>) EXCEPT !.size = "16bit", !.minimal = FALSE],
  F("PING", FALSE, <<>>)}
=============================================================================
