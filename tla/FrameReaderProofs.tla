-------------------------- MODULE FrameReaderProofs --------------------------
(* Proofs about the reading of frames, for all frames that a peer may send, every    *)
(* size of the buffer and every limit on messages.                              *)
(*                                                                              *)
(* ReaderInv says that the reader stands behind the j-th byte of some k-th frame and  *)
(* that all it holds is what the bytes up to there say: the messages handed over are  *)
(* those of the first k - 1 frames (Place), the headers are the bytes they should be,  *)
(* and the metadata hold the message with the first bytes of the frame's payload,     *)
(* unmasked and validated (InPayload).  After an error it is the k-th frame that is    *)
(* not acceptable (Failed).  Nothing in it speaks of chunks, and it implies each of   *)
(* the module's invariants.                                                     *)
EXTENDS FrameReader, SequenceTheorems, WellFoundedInduction, TLAPS

-----------------------------------------------------------------------------
(* Recursive functions.  Each of the model's goes from a value on, one step for   *)
(* each number up to a bound: Iterates says that there is such a function, SameRun *)
(* that there is one only.                                                     *)
LEMMA LeastNat ==
  ASSUME NEW T, T \subseteq Nat, T # {}
  PROVE  \E x \in T : \A y \in T : x <= y
<1> DEFINE R == OpToRel(<, Nat)
<1>1. \E x \in T : \A y \in T : ~(<<y, x>> \in R)
  BY NatLessThanWellFounded, WFMin
<1>2. \A x, y \in Nat : y < x => <<y, x>> \in R
  BY DEF OpToRel
<1> HIDE DEF R
<1>3. PICK x \in T : \A y \in T : ~(<<y, x>> \in R)
  BY <1>1
<1>4. ASSUME NEW y \in T PROVE x <= y
  <2>1. x \in Nat /\ y \in Nat /\ ~(y < x)
    BY <1>2, <1>3, <1>4
  <2> QED
    BY <2>1
<1> QED
  BY <1>4

Run(g, b, st, n) == g[0] = b /\ \A i \in 1..n : g[i] = st[i][g[i - 1]]

LEMMA Iterates ==
  ASSUME NEW S, NEW b \in S, NEW N \in Nat, NEW st \in [1..N -> [S -> S]]
  PROVE  \E g \in [0..N -> S] : Run(g, b, st, N)
<1> DEFINE Has(n) == \E g \in [0..n -> S] : Run(g, b, st, n)
           Bad == {n \in 0..N : ~Has(n)}
<1>1. Has(0)
  <2>1. [i \in 0..0 |-> b] \in [0..0 -> S] /\ Run([i \in 0..0 |-> b], b, st, 0)
    BY DEF Run
  <2> QED
    BY <2>1
<1>2. ASSUME NEW n \in 0..N, n < N, Has(n) PROVE Has(n + 1)
  <2>1. PICK g \in [0..n -> S] : Run(g, b, st, n)
    BY <1>2
  <2>2. st[n + 1] \in [S -> S] /\ n + 1 \in 1..N /\ g[n] \in S
    BY <1>2
  <2>3. st[n + 1][g[n]] \in S
    BY <2>2
  <2> DEFINE h == [i \in 0..(n + 1) |-> IF i = n + 1 THEN st[n + 1][g[n]] ELSE g[i]]
  <2>4. h \in [0..(n + 1) -> S]
    BY <2>3
  <2>5. h[n + 1] = st[n + 1][g[n]] /\ \A i \in 0..n : h[i] = g[i]
    OBVIOUS
  <2> HIDE DEF h
  <2>6. ASSUME NEW i \in 1..(n + 1) PROVE h[i] = st[i][h[i - 1]]
    <3>1. CASE i = n + 1
      BY <2>5, <3>1
    <3>2. CASE i # n + 1
      <4>1. i \in 1..n /\ i \in 0..n /\ i - 1 \in 0..n
        BY <3>2
      <4>2. g[i] = st[i][g[i - 1]]
        BY <2>1, <4>1 DEF Run
      <4> QED
        BY <2>5, <4>1, <4>2
    <3> QED
      BY <3>1, <3>2
  <2>7. h[0] = b
    BY <2>1, <2>5 DEF Run
  <2>8. Run(h, b, st, n + 1)
    BY <2>6, <2>7 DEF Run
  <2> QED
    BY <2>4, <2>8
<1> HIDE DEF Has
<1>3. Bad = {}
  <2> SUFFICES ASSUME Bad # {} PROVE FALSE
    OBVIOUS
  <2>1. Bad \subseteq Nat
    OBVIOUS
  <2> HIDE DEF Bad
  <2>2. PICK n \in Bad : \A m \in Bad : n <= m
    BY <2>1, LeastNat
  <2> USE DEF Bad
  <2>3. n # 0 /\ n \in 0..N /\ ~Has(n)
    BY <1>1
  <2>4. n - 1 \in 0..N /\ n - 1 < N /\ ~(n <= n - 1)
    BY <2>3
  <2>5. Has(n - 1)
    BY <2>2, <2>4
  <2>6. Has((n - 1) + 1)
    BY <1>2, <2>4, <2>5
  <2>7. (n - 1) + 1 = n
    BY <2>3
  <2> QED
    BY <2>3, <2>6, <2>7
<1>4. Has(N)
  BY <1>3
<1> QED
  BY <1>4 DEF Has

LEMMA SameRun ==
  ASSUME NEW b, NEW N \in Nat, NEW st, NEW g, NEW h, Run(g, b, st, N), Run(h, b, st, N)
  PROVE  \A n \in 0..N : g[n] = h[n]
<1> DEFINE Bad == {n \in 0..N : g[n] # h[n]}
<1> SUFFICES ASSUME Bad # {} PROVE FALSE
  OBVIOUS
<1>1. Bad \subseteq Nat
  OBVIOUS
<1> HIDE DEF Bad
<1>2. PICK n \in Bad : \A m \in Bad : n <= m
  BY <1>1, LeastNat
<1>3. n \in 0..N /\ g[n] # h[n] /\ \A m \in 0..N : g[m] # h[m] => n <= m
  BY <1>2 DEF Bad
<1>4. n # 0
  BY <1>3 DEF Run
<1>5. n \in 1..N /\ n - 1 \in 0..N /\ ~(n <= n - 1)
  BY <1>3, <1>4
<1>6. g[n - 1] = h[n - 1]
  BY <1>3, <1>5
<1>7. g[n] = st[n][g[n - 1]] /\ h[n] = st[n][h[n - 1]]
  BY <1>5 DEF Run
<1> QED
  BY <1>3, <1>6, <1>7

-----------------------------------------------------------------------------
(* The validator.                                                            *)
LEMMA DecodeType ==
  ASSUME NEW s, NEW b
  PROVE  Decode(s, b) \in Utf8State /\ (s = "reject" => Decode(s, b) = "reject")
BY DEF Decode, Utf8State

(* The validator's steps over a payload, as functions.                          *)
Decoder(p) == [i \in 1..Len(p) |-> [s \in Utf8State |-> Decode(s, p[i])]]

LEMMA DecoderRuns ==
  ASSUME NEW s \in Utf8State, NEW p \in Seq(Byte)
  PROVE  \E g \in [0..Len(p) -> Utf8State] :
           Run(g, s, Decoder(p), Len(p)) /\ DecodeFrom(s, p) = g[Len(p)]
<1> DEFINE n == Len(p)
<1>1. n \in Nat
  BY LenProperties
<1>2. Decoder(p) \in [1..n -> [Utf8State -> Utf8State]]
  BY DecodeType DEF Decoder
<1>3. PICK f \in [0..n -> Utf8State] : Run(f, s, Decoder(p), n)
  BY <1>1, <1>2, Iterates
<1>4. \A i \in 1..n : f[i - 1] \in Utf8State /\ f[i] = Decode(f[i - 1], p[i])
  BY <1>1, <1>3, SMTT(30) DEF Run, Decoder
<1>5. f = [i \in 0..n |-> IF i = 0 THEN s ELSE Decode(f[i - 1], p[i])]
  BY <1>1, <1>3, <1>4 DEF Run
<1> DEFINE after == CHOOSE g : g = [i \in 0..n |-> IF i = 0 THEN s ELSE Decode(g[i - 1], p[i])]
<1>6. after = [i \in 0..n |-> IF i = 0 THEN s ELSE Decode(after[i - 1], p[i])]
  BY <1>5
<1>7. DecodeFrom(s, p) = after[n]
  BY DEF DecodeFrom
<1> HIDE DEF after, n
<1>8. after \in [0..n -> Utf8State]
  BY <1>1, <1>6, DecodeType
<1>9. Run(after, s, Decoder(p), n)
  <2>1. after[0] = s
    BY <1>1, <1>6
  <2>2. ASSUME NEW i \in 1..n PROVE after[i] = Decoder(p)[i][after[i - 1]]
    <3>1. i - 1 \in 0..n /\ i \in 0..n /\ i # 0
      BY <1>1
    <3>2. after[i - 1] \in Utf8State
      BY <1>8, <3>1
    <3>3. after[i] = Decode(after[i - 1], p[i])
      BY <1>6, <3>1
    <3>4. Decoder(p)[i] = [t \in Utf8State |-> Decode(t, p[i])]
      BY DEF Decoder, n
    <3> QED
      BY <3>2, <3>3, <3>4
  <2> QED
    BY <2>1, <2>2 DEF Run
<1> QED
  BY <1>7, <1>8, <1>9 DEF n

LEMMA DecodeOfNone == ASSUME NEW s \in Utf8State PROVE DecodeFrom(s, <<>>) = s
<1>1. <<>> \in Seq(Byte) /\ Len(<<>>) = 0
  BY EmptySeq
<1>2. PICK g \in [0..Len(<<>>) -> Utf8State] :
        Run(g, s, Decoder(<<>>), Len(<<>>)) /\ DecodeFrom(s, <<>>) = g[Len(<<>>)]
  BY <1>1, DecoderRuns
<1> QED
  BY <1>1, <1>2 DEF Run

LEMMA DecodeFromType ==
  ASSUME NEW s \in Utf8State, NEW p \in Seq(Byte) PROVE DecodeFrom(s, p) \in Utf8State
<1>1. Len(p) \in Nat
  BY LenProperties
<1>2. PICK g \in [0..Len(p) -> Utf8State] : DecodeFrom(s, p) = g[Len(p)]
  BY DecoderRuns
<1> QED
  BY <1>1, <1>2

(* What is rejected stays so.                                                 *)
LEMMA RejectStays == ASSUME NEW p \in Seq(Byte) PROVE DecodeFrom("reject", p) = "reject"
<1> DEFINE n == Len(p)
           h == [i \in 0..n |-> "reject"]
<1>1. n \in Nat /\ "reject" \in Utf8State
  BY LenProperties DEF Utf8State
<1>2. PICK g \in [0..n -> Utf8State] :
        Run(g, "reject", Decoder(p), n) /\ DecodeFrom("reject", p) = g[n]
  BY <1>1, DecoderRuns
<1>3. Run(h, "reject", Decoder(p), n)
  <2>1. h[0] = "reject"
    BY <1>1
  <2>2. ASSUME NEW i \in 1..n PROVE h[i] = Decoder(p)[i][h[i - 1]]
    <3>1. h[i] = "reject" /\ h[i - 1] = "reject"
      BY <1>1
    <3>2. Decoder(p)[i]["reject"] = Decode("reject", p[i])
      BY <1>1 DEF Decoder
    <3> QED
      BY <3>1, <3>2, DecodeType
  <2> QED
    BY <2>1, <2>2 DEF Run
<1>4. g[n] = h[n]
  <2> HIDE DEF h
  <2> QED
    BY <1>1, <1>2, <1>3, SameRun
<1> QED
  BY <1>1, <1>2, <1>4

(* A payload in two parts is validated part by part.                            *)
LEMMA DecodeInParts ==
  ASSUME NEW s \in Utf8State, NEW p \in Seq(Byte), NEW q \in Seq(Byte)
  PROVE  DecodeFrom(s, p \o q) = DecodeFrom(DecodeFrom(s, p), q)
<1> DEFINE m == Len(p)
           n == Len(q)
           r == p \o q
<1>1. m \in Nat /\ n \in Nat
  BY LenProperties
<1>2. /\ r \in Seq(Byte) /\ Len(r) = m + n
      /\ \A i \in 1..(m + n) : r[i] = IF i <= m THEN p[i] ELSE q[i - m]
  BY ConcatProperties
<1>3. PICK f \in [0..m -> Utf8State] : Run(f, s, Decoder(p), m) /\ DecodeFrom(s, p) = f[m]
  BY DecoderRuns
<1>4. f[m] \in Utf8State
  BY <1>1
<1>5. PICK g \in [0..n -> Utf8State] : Run(g, f[m], Decoder(q), n) /\ DecodeFrom(f[m], q) = g[n]
  BY <1>4, DecoderRuns
<1> HIDE DEF r
<1>6. PICK k \in [0..Len(r) -> Utf8State] : Run(k, s, Decoder(r), Len(r)) /\ DecodeFrom(s, r) = k[Len(r)]
  BY <1>2, DecoderRuns
<1> DEFINE h == [i \in 0..(m + n) |-> IF i <= m THEN f[i] ELSE g[i - m]]
<1>7. /\ \A i \in 0..m : h[i] = f[i]
      /\ \A i \in 0..n : h[m + i] = g[i]
  <2>1. \A i \in 0..m : h[i] = f[i]
    BY <1>1
  <2>2. h[m + 0] = g[0]
    BY <1>1, <1>5 DEF Run
  <2>3. \A i \in 1..n : h[m + i] = g[i]
    <3>1. \A i \in 1..n : m + i \in 0..(m + n) /\ ~(m + i <= m) /\ (m + i) - m = i
      BY <1>1
    <3> QED
      BY <3>1
  <2>4. ASSUME NEW i \in 0..n PROVE h[m + i] = g[i]
    <3> HIDE DEF h, m, n
    <3>1. CASE i = 0
      BY <2>2, <3>1
    <3>2. CASE i # 0
      BY <1>1, <2>3, <3>2
    <3> QED
      BY <3>1, <3>2
  <2> HIDE DEF h
  <2> QED
    BY <2>1, <2>4
<1>8. \A i \in 0..(m + n) : h[i] \in Utf8State
  <2>1. ASSUME NEW i \in 0..(m + n) PROVE h[i] \in Utf8State
    <3>1. CASE i <= m
      BY <1>1, <3>1
    <3>2. CASE i > m
      <4>1. i - m \in 0..n /\ h[i] = g[i - m]
        BY <1>1, <3>2
      <4>2. g[i - m] \in Utf8State
        <5> HIDE DEF h, n, m
        <5> QED
          BY <4>1
      <4> QED
        BY <4>1, <4>2
    <3> QED
      BY <1>1, <3>1, <3>2
  <2> HIDE DEF h
  <2> QED
    BY <2>1
<1> HIDE DEF h, m, n
<1>9. Run(h, s, Decoder(r), m + n)
  <2>1. h[0] = s
    BY <1>1, <1>3, <1>7 DEF Run
  <2>2. ASSUME NEW i \in 1..(m + n) PROVE h[i] = Decoder(r)[i][h[i - 1]]
    <3>1. i - 1 \in 0..(m + n) /\ h[i - 1] \in Utf8State
      BY <1>1, <1>8
    <3>2. Decoder(r)[i][h[i - 1]] = Decode(h[i - 1], r[i])
      BY <1>2, <3>1 DEF Decoder
    <3>3. CASE i <= m
      <4>1. i \in 1..m /\ i - 1 \in 0..m /\ i \in 0..m
        BY <1>1, <3>3
      <4>2. h[i] = f[i] /\ h[i - 1] = f[i - 1] /\ r[i] = p[i] /\ f[i - 1] \in Utf8State
        BY <1>2, <1>7, <3>3, <4>1
      <4>3. f[i] = Decoder(p)[i][f[i - 1]]
        BY <1>3, <4>1 DEF Run
      <4>4. Decoder(p)[i] = [t \in Utf8State |-> Decode(t, p[i])]
        BY <4>1 DEF Decoder, m
      <4> QED
        BY <3>2, <4>2, <4>3, <4>4
    <3>4. CASE i > m
      <4>1. PICK j \in 1..n : i = m + j
        <5>1. i - m \in 1..n /\ i = m + (i - m)
          BY <1>1, <3>4
        <5> QED
          BY <5>1
      <4>2. j - 1 \in 0..n /\ j \in 0..n /\ i - 1 = m + (j - 1) /\ i - m = j
        BY <1>1, <4>1
      <4>3. h[i] = g[j] /\ h[i - 1] = g[j - 1] /\ r[i] = q[j] /\ g[j - 1] \in Utf8State
        <5>1. h[i] = g[j] /\ h[i - 1] = g[j - 1]
          BY <1>7, <4>1, <4>2
        <5>2. r[i] = q[j]
          BY <1>1, <1>2, <3>4, <4>2
        <5>3. g[j - 1] \in Utf8State
          BY <4>2
        <5> QED
          BY <5>1, <5>2, <5>3
      <4>4. g[j] = Decoder(q)[j][g[j - 1]]
        BY <1>5, <4>1 DEF Run
      <4>5. Decoder(q)[j] = [t \in Utf8State |-> Decode(t, q[j])]
        BY <4>1 DEF Decoder, n
      <4> QED
        BY <3>2, <4>3, <4>4, <4>5
    <3> QED
      BY <1>1, <3>3, <3>4
  <2> QED
    BY <2>1, <2>2 DEF Run
<1>10. k[m + n] = h[m + n]
  BY <1>1, <1>2, <1>6, <1>9, SameRun
<1>11. h[m + n] = g[n]
  BY <1>1, <1>7
<1> QED
  BY <1>2, <1>3, <1>5, <1>6, <1>10, <1>11 DEF r

-----------------------------------------------------------------------------
(* The bytes on the wire.                                                     *)
Wire == Seq(Nat \X Nat)
FrameLen(f) == HeaderLen(f) + Len(f.payload)

(* The n bytes of the k-th frame that follow the first j ones.                   *)
Span(k, j, n) == [i \in 1..n |-> <<k, j + i>>]

(* What is on the wire when j bytes of the k-th frame were read.                  *)
At(fs, k, j) ==
  IF k > Len(fs) THEN <<>> ELSE Span(k, j, FrameLen(fs[k]) - j) \o BytesFrom(fs, k + 1)

LEMMA FunctionIsSeq ==
  ASSUME NEW S, NEW n \in Nat, NEW s \in [1..n -> S] PROVE s \in Seq(S) /\ Len(s) = n
<1>1. s \in Seq(S)
  BY SeqDef
<1>2. Len(s) \in Nat /\ 1..Len(s) = 1..n
  BY <1>1, LenProperties
<1> QED
  BY <1>1, <1>2

LEMMA FrameType ==
  ASSUME NEW f \in Frames
  PROVE  /\ f \in [op : Op, fin : BOOLEAN, masked : BOOLEAN, rsv : BOOLEAN, payload : Seq(Byte),
                   size : {"basic", "16bit", "64bit"}, minimal : BOOLEAN]
         /\ HeaderLen(f) \in 2..14 /\ (f.masked => HeaderLen(f) > 2)
         /\ Len(f.payload) \in Nat /\ FrameLen(f) \in Nat
<1>1. f \in [op : Op, fin : BOOLEAN, masked : BOOLEAN, rsv : BOOLEAN, payload : Seq(Byte),
             size : {"basic", "16bit", "64bit"}, minimal : BOOLEAN]
  BY ReaderAssumption
<1>2. Len(f.payload) \in Nat
  BY <1>1, LenProperties
<1>3. HeaderLen(f) \in 2..14 /\ (f.masked => HeaderLen(f) > 2)
  BY <1>1 DEF HeaderLen
<1> QED
  BY <1>1, <1>2, <1>3 DEF FrameLen

LEMMA SpanIsWire ==
  ASSUME NEW k \in Nat, NEW j \in Nat, NEW n \in Nat
  PROVE  /\ Span(k, j, n) \in Wire /\ Len(Span(k, j, n)) = n
         /\ \A i \in 1..n : Span(k, j, n)[i] = <<k, j + i>>
<1>1. Span(k, j, n) \in [1..n -> Nat \X Nat]
  BY DEF Span
<1> QED
  BY <1>1, FunctionIsSeq DEF Span, Wire

(* The bytes w are n of the k-th frame and then those of t.                        *)
SpanAnd(w, k, j, n, t) ==
  /\ w \in Wire /\ Len(w) = n + Len(t) /\ Len(t) \in Nat
  /\ \A i \in 1..n : w[i] = <<k, j + i>>
  /\ \A i \in 1..Len(t) : w[n + i] = t[i]

LEMMA SpanThen ==
  ASSUME NEW k \in Nat, NEW j \in Nat, NEW n \in Nat, NEW t \in Wire
  PROVE  SpanAnd(Span(k, j, n) \o t, k, j, n, t)
<1> DEFINE s == Span(k, j, n)
           w == s \o t
<1>1. s \in Wire /\ Len(s) = n /\ \A i \in 1..n : s[i] = <<k, j + i>>
  BY SpanIsWire
<1>2. Len(t) \in Nat
  BY LenProperties DEF Wire
<1> HIDE DEF s
<1>3. /\ w \in Wire /\ Len(w) = Len(s) + Len(t)
      /\ \A i \in 1..(Len(s) + Len(t)) : w[i] = IF i <= Len(s) THEN s[i] ELSE t[i - Len(s)]
  BY <1>1, ConcatProperties DEF Wire
<1> HIDE DEF w
<1>4. \A i \in 1..n : w[i] = <<k, j + i>>
  BY <1>1, <1>2, <1>3
<1>5. \A i \in 1..Len(t) : w[n + i] = t[i]
  <2>1. \A i \in 1..Len(t) : n + i \in 1..(n + Len(t)) /\ ~(n + i <= n) /\ (n + i) - n = i
    BY <1>2
  <2> QED
    BY <1>1, <1>3, <2>1
<1> QED
  BY <1>1, <1>2, <1>3, <1>4, <1>5 DEF w, s, SpanAnd

LEMMA BytesAreSpan ==
  ASSUME NEW k \in Nat, NEW f \in Frames PROVE BytesOf(k, f) = Span(k, 0, FrameLen(f))
BY FrameType DEF BytesOf, Span, FrameLen

LEMMA BytesFromRecursion ==
  ASSUME NEW fs \in Seq(Frames)
  PROVE  \A k \in 1..(Len(fs) + 1) :
           /\ BytesFrom(fs, k) \in Wire
           /\ BytesFrom(fs, k) = IF k > Len(fs) THEN <<>> ELSE BytesOf(k, fs[k]) \o BytesFrom(fs, k + 1)
<1> DEFINE N == Len(fs)
           st == [i \in 1..N |-> [s \in Wire |-> BytesOf(N + 1 - i, fs[N + 1 - i]) \o s]]
<1>1. N \in Nat /\ <<>> \in Wire
  BY LenProperties, EmptySeq DEF Wire
<1>2. ASSUME NEW k \in 1..N, NEW s \in Wire PROVE BytesOf(k, fs[k]) \o s \in Wire
  <2>1. fs[k] \in Frames
    BY ElementOfSeq
  <2>2. BytesOf(k, fs[k]) \in Wire
    <3>1. k \in Nat /\ 0 \in Nat /\ FrameLen(fs[k]) \in Nat
      BY <1>1, <2>1, FrameType
    <3>2. BytesOf(k, fs[k]) = Span(k, 0, FrameLen(fs[k]))
      BY <2>1, <3>1, BytesAreSpan
    <3>3. Span(k, 0, FrameLen(fs[k])) \in Wire
      BY <3>1, SpanIsWire
    <3> QED
      BY <3>2, <3>3
  <2> QED
    BY <2>2, ConcatProperties DEF Wire
<1>3. st \in [1..N -> [Wire -> Wire]]
  <2>1. \A i \in 1..N : N + 1 - i \in 1..N
    BY <1>1
  <2> QED
    BY <1>2, <2>1
<1> HIDE DEF st
<1>4. PICK g \in [0..N -> Wire] : Run(g, <<>>, st, N)
  BY <1>1, <1>3, Iterates
<1> DEFINE f == [n \in 1..(N + 1) |-> g[N + 1 - n]]
<1>5. f = [n \in 1..(N + 1) |-> IF n > N THEN <<>> ELSE BytesOf(n, fs[n]) \o f[n + 1]]
  <2>1. \A n \in 1..N : N + 1 - n \in 1..N /\ N + 1 - (n + 1) = (N + 1 - n) - 1 /\ N + 1 - (N + 1 - n) = n
                        /\ (N + 1 - n) - 1 \in 0..N
    BY <1>1
  <2>2. \A n \in 1..N : g[N + 1 - n] = st[N + 1 - n][g[(N + 1 - n) - 1]]
    BY <1>4, <2>1 DEF Run
  <2>3. ASSUME NEW n \in 1..N PROVE g[N + 1 - n] = BytesOf(n, fs[n]) \o g[N + 1 - (n + 1)]
    <3>1. g[(N + 1 - n) - 1] \in Wire
      BY <2>1
    <3>2. st[N + 1 - n][g[(N + 1 - n) - 1]] = BytesOf(n, fs[n]) \o g[(N + 1 - n) - 1]
      BY <2>1, <3>1 DEF st
    <3> QED
      BY <2>1, <2>2, <3>2
  <2>4. g[0] = <<>>
    BY <1>4 DEF Run
  <2>5. \A n \in 1..(N + 1) : f[n] = IF n > N THEN <<>> ELSE BytesOf(n, fs[n]) \o f[n + 1]
    <3>1. f[N + 1] = <<>> /\ N + 1 > N
      BY <1>1, <2>4
    <3>2. ASSUME NEW n \in 1..N PROVE f[n] = BytesOf(n, fs[n]) \o f[n + 1] /\ ~(n > N)
      <4>1. n \in 1..(N + 1) /\ n + 1 \in 1..(N + 1) /\ ~(n > N)
        BY <1>1
      <4>2. f[n] = g[N + 1 - n] /\ f[n + 1] = g[N + 1 - (n + 1)]
        BY <4>1
      <4> HIDE DEF f
      <4> QED
        BY <2>3, <4>1, <4>2
    <3>3. \A n \in 1..(N + 1) : n = N + 1 \/ n \in 1..N
      BY <1>1
    <3> HIDE DEF f
    <3> QED
      BY <3>1, <3>2, <3>3
  <2> QED
    BY <2>5
<1> HIDE DEF f
<1> DEFINE from == CHOOSE h : h = [n \in 1..(N + 1) |-> IF n > N THEN <<>> ELSE BytesOf(n, fs[n]) \o h[n + 1]]
<1>6. from = [n \in 1..(N + 1) |-> IF n > N THEN <<>> ELSE BytesOf(n, fs[n]) \o from[n + 1]]
  BY <1>5
<1>7. \A k : BytesFrom(fs, k) = from[k]
  BY DEF BytesFrom
<1> HIDE DEF from
<1>8. \A k \in 1..(N + 1) :
        BytesFrom(fs, k) = IF k > N THEN <<>> ELSE BytesOf(k, fs[k]) \o BytesFrom(fs, k + 1)
  BY <1>6, <1>7
<1> DEFINE Bad == {n \in 0..N : BytesFrom(fs, N + 1 - n) \notin Wire}
<1>9. Bad = {}
  <2> SUFFICES ASSUME Bad # {} PROVE FALSE
    OBVIOUS
  <2>1. Bad \subseteq Nat
    OBVIOUS
  <2> HIDE DEF Bad
  <2>2. PICK n \in Bad : \A m \in Bad : n <= m
    BY <2>1, LeastNat
  <2> USE DEF Bad
  <2>3. n \in 0..N /\ BytesFrom(fs, N + 1 - n) \notin Wire
    OBVIOUS
  <2>4. n # 0
    BY <1>1, <1>8, <2>3
  <2>5. n - 1 \in 0..N /\ ~(n <= n - 1) /\ N + 1 - n \in 1..N /\ N + 1 - (n - 1) = (N + 1 - n) + 1
        /\ ~(N + 1 - n > N) /\ N + 1 - n \in 1..(N + 1)
    BY <1>1, <2>3, <2>4
  <2>6. BytesFrom(fs, (N + 1 - n) + 1) \in Wire
    BY <2>2, <2>5
  <2>7. BytesFrom(fs, N + 1 - n) = BytesOf(N + 1 - n, fs[N + 1 - n]) \o BytesFrom(fs, (N + 1 - n) + 1)
    BY <1>8, <2>5
  <2> QED
    BY <1>2, <2>3, <2>5, <2>6, <2>7
<1>10. ASSUME NEW k \in 1..(N + 1) PROVE BytesFrom(fs, k) \in Wire
  <2>1. N + 1 - k \in 0..N /\ N + 1 - (N + 1 - k) = k
    BY <1>1
  <2> QED
    BY <1>9, <2>1
<1> QED
  BY <1>8, <1>10

LEMMA AtFrame ==
  ASSUME NEW fs \in Seq(Frames), NEW k \in 1..Len(fs), NEW j \in 0..FrameLen(fs[k])
  PROVE  LET rest == FrameLen(fs[k]) - j
             w    == At(fs, k, j)
             t    == BytesFrom(fs, k + 1)
         IN /\ rest \in Nat /\ w \in Wire /\ t \in Wire /\ Len(t) \in Nat
            /\ w = Span(k, j, rest) \o t /\ Len(w) = rest + Len(t)
            /\ \A i \in 1..rest : w[i] = <<k, j + i>>
            /\ \A i \in 1..Len(t) : w[rest + i] = t[i]
<1> DEFINE rest == FrameLen(fs[k]) - j
<1>1. Len(fs) \in Nat /\ fs[k] \in Frames
  BY LenProperties, ElementOfSeq
<1>2. rest \in Nat /\ k \in Nat /\ j \in Nat
  BY <1>1, FrameType
<1> DEFINE w == At(fs, k, j)
           t == BytesFrom(fs, k + 1)
<1>3. t \in Wire
  BY <1>1, BytesFromRecursion
<1>4. w = Span(k, j, rest) \o t
  BY <1>1 DEF At
<1> HIDE DEF rest, w, t
<1>5. /\ w \in Wire /\ Len(w) = rest + Len(t) /\ Len(t) \in Nat
      /\ \A i \in 1..rest : w[i] = <<k, j + i>>
      /\ \A i \in 1..Len(t) : w[rest + i] = t[i]
  <2>1. SpanAnd(Span(k, j, rest) \o t, k, j, rest, t)
    BY <1>2, <1>3, SpanThen
  <2>2. SpanAnd(w, k, j, rest, t)
    BY <1>4, <2>1
  <2> QED
    BY <2>2 DEF SpanAnd
<1> QED
  BY <1>2, <1>3, <1>4, <1>5 DEF rest, w, t

(* Reading n more bytes of a frame.                                           *)
LEMMA AtTake ==
  ASSUME NEW fs \in Seq(Frames), NEW k \in 1..Len(fs), NEW j \in 0..FrameLen(fs[k]),
         NEW n \in 0..(FrameLen(fs[k]) - j)
  PROVE  LET w == At(fs, k, j) IN
         /\ SubSeq(w, 1, n) = Span(k, j, n)
         /\ SubSeq(w, n + 1, Len(w)) = At(fs, k, j + n)
         /\ Len(At(fs, k, j + n)) = Len(w) - n
<1> DEFINE L == FrameLen(fs[k]) - j
           M == FrameLen(fs[k]) - (j + n)
           w == At(fs, k, j)
           v == At(fs, k, j + n)
           t == BytesFrom(fs, k + 1)
<1>1. /\ FrameLen(fs[k]) \in Nat /\ k \in Nat /\ j \in Nat /\ n \in Nat
      /\ j + n \in 0..FrameLen(fs[k]) /\ L = n + M /\ M \in Nat
  BY LenProperties, ElementOfSeq, FrameType
<1>2. /\ w \in Wire /\ t \in Wire /\ Len(t) \in Nat /\ Len(w) = L + Len(t)
      /\ \A i \in 1..L : w[i] = <<k, j + i>>
      /\ \A i \in 1..Len(t) : w[L + i] = t[i]
  BY AtFrame
<1>3. /\ v \in Wire /\ Len(v) = M + Len(t)
      /\ \A i \in 1..M : v[i] = <<k, (j + n) + i>>
      /\ \A i \in 1..Len(t) : v[M + i] = t[i]
  BY <1>1, AtFrame
<1>4. Span(k, j, n) \in Wire /\ Len(Span(k, j, n)) = n /\ \A i \in 1..n : Span(k, j, n)[i] = <<k, j + i>>
  BY <1>1, SpanIsWire
<1> HIDE DEF L, M, w, v, t
<1>5. Len(w) \in Nat /\ Len(v) \in Nat /\ Len(v) = Len(w) - n
  BY <1>1, <1>2, <1>3
<1>6. \A i \in 1..Len(w) : w[i] \in Nat \X Nat
  BY <1>2, ElementOfSeq DEF Wire
<1>7. SubSeq(w, 1, n) = Span(k, j, n)
  <2> DEFINE a == SubSeq(w, 1, n)
  <2>1. 1 \in Int /\ n \in Int /\ \A i \in 1..n : w[i] \in Nat \X Nat
    <3>1. \A i \in 1..n : i \in 1..Len(w)
      BY <1>1, <1>2
    <3> QED
      BY <1>1, <1>6, <3>1
  <2>2. /\ a \in Wire /\ Len(a) = IF 1 <= n THEN n - 1 + 1 ELSE 0
        /\ \A i \in 1..(n - 1 + 1) : a[i] = w[1 + i - 1]
    BY <2>1, SubSeqProperties DEF Wire
  <2> HIDE DEF a
  <2>3. Len(a) = n
    BY <1>1, <2>2
  <2>4. \A i \in 1..n : a[i] = Span(k, j, n)[i]
    <3>1. \A i \in 1..n : i \in 1..(n - 1 + 1) /\ 1 + i - 1 = i /\ i \in 1..L
      BY <1>1
    <3> QED
      BY <1>2, <1>4, <2>2, <3>1
  <2>5. a = Span(k, j, n)
    BY <1>4, <2>2, <2>3, <2>4, SeqEqual DEF Wire
  <2> QED
    BY <2>5 DEF a
<1>8. SubSeq(w, n + 1, Len(w)) = v
  <2> DEFINE b == SubSeq(w, n + 1, Len(w))
  <2>1. n + 1 \in Int /\ Len(w) \in Int /\ \A i \in (n + 1)..Len(w) : w[i] \in Nat \X Nat
    BY <1>1, <1>5, <1>6
  <2>2. /\ b \in Wire /\ Len(b) = IF n + 1 <= Len(w) THEN Len(w) - (n + 1) + 1 ELSE 0
        /\ \A i \in 1..(Len(w) - (n + 1) + 1) : b[i] = w[(n + 1) + i - 1]
    BY <2>1, SubSeqProperties DEF Wire
  <2> HIDE DEF b
  <2>3. Len(b) = Len(v)
    BY <1>1, <1>5, <2>2
  <2>4. \A i \in 1..Len(v) : i \in 1..(Len(w) - (n + 1) + 1) /\ (n + 1) + i - 1 = n + i
    BY <1>1, <1>5
  <2>5. ASSUME NEW i \in 1..Len(v) PROVE b[i] = v[i]
    <3>1. b[i] = w[n + i]
      BY <2>2, <2>4
    <3>2. CASE i <= M
      <4>1. i \in 1..M /\ n + i \in 1..L /\ j + (n + i) = (j + n) + i
        BY <1>1, <3>2
      <4>2. w[n + i] = <<k, j + (n + i)>>
        BY <1>2, <4>1
      <4> QED
        BY <1>3, <3>1, <4>1, <4>2
    <3>3. CASE ~(i <= M)
      <4>1. i - M \in 1..Len(t) /\ n + i = L + (i - M) /\ i = M + (i - M)
        BY <1>1, <1>2, <1>3, <3>3
      <4>2. w[L + (i - M)] = t[i - M] /\ v[M + (i - M)] = t[i - M]
        BY <1>2, <1>3, <4>1
      <4> QED
        BY <3>1, <4>1, <4>2
    <3> QED
      BY <3>2, <3>3
  <2>6. b = v
    BY <1>3, <2>2, <2>3, <2>5, SeqEqual DEF Wire
  <2> QED
    BY <2>6 DEF b
<1> QED
  BY <1>5, <1>7, <1>8 DEF w, v

LEMMA AtStart ==
  ASSUME NEW fs \in Seq(Frames), NEW k \in 1..(Len(fs) + 1) PROVE BytesFrom(fs, k) = At(fs, k, 0)
<1>1. Len(fs) \in Nat
  BY LenProperties
<1>2. CASE k > Len(fs)
  BY <1>2, BytesFromRecursion DEF At
<1>3. CASE ~(k > Len(fs))
  <2>1. k \in 1..Len(fs) /\ k \in Nat
    BY <1>1, <1>3
  <2>2. fs[k] \in Frames
    BY <2>1, ElementOfSeq
  <2>3. FrameLen(fs[k]) - 0 = FrameLen(fs[k])
    BY <2>2, FrameType
  <2>4. BytesFrom(fs, k) = BytesOf(k, fs[k]) \o BytesFrom(fs, k + 1)
    BY <1>3, BytesFromRecursion
  <2> QED
    BY <1>3, <2>1, <2>2, <2>3, <2>4, BytesAreSpan DEF At
<1> QED
  BY <1>2, <1>3

LEMMA AtEnd ==
  ASSUME NEW fs \in Seq(Frames), NEW k \in 1..Len(fs)
  PROVE  At(fs, k, FrameLen(fs[k])) = At(fs, k + 1, 0)
<1>1. Len(fs) \in Nat /\ fs[k] \in Frames
  BY LenProperties, ElementOfSeq
<1>2. FrameLen(fs[k]) \in 0..FrameLen(fs[k]) /\ FrameLen(fs[k]) - FrameLen(fs[k]) = 0 /\ k + 1 \in 1..(Len(fs) + 1)
  BY <1>1, FrameType
<1>3. /\ At(fs, k, FrameLen(fs[k])) = Span(k, FrameLen(fs[k]), 0) \o BytesFrom(fs, k + 1)
      /\ BytesFrom(fs, k + 1) \in Wire
  BY <1>2, AtFrame
<1>4. Span(k, FrameLen(fs[k]), 0) = <<>>
  <2>1. Span(k, FrameLen(fs[k]), 0) \in Wire /\ Len(Span(k, FrameLen(fs[k]), 0)) = 0
    <3>1. k \in Nat /\ FrameLen(fs[k]) \in Nat /\ 0 \in Nat
      BY <1>1, FrameType
    <3> QED
      BY <3>1, SpanIsWire
  <2> QED
    BY <2>1, EmptySeq DEF Wire
<1>5. <<>> \o BytesFrom(fs, k + 1) = BytesFrom(fs, k + 1)
  BY <1>3, ConcatEmptySeq DEF Wire
<1> QED
  BY <1>2, <1>3, <1>4, <1>5, AtStart

-----------------------------------------------------------------------------
(* What frames mean.                                                          *)
Message == [op : Op \cup {"none"}, payload : Seq(Byte)]
Delivered == [op : Op \cup {"none"}, payload : Seq(Byte), single : BOOLEAN]
Outcome == [ok : BOOLEAN, out : Seq(Delivered), msg : Message]

LEMMA LongerType ==
  ASSUME NEW m, m.msg \in Message, NEW f \in Frames
  PROVE  /\ Begun(m, f) \in Message /\ Longer(m, f) \in Message
         /\ Longer(m, f).op = Begun(m, f).op
         /\ Longer(m, f).payload = Begun(m, f).payload \o f.payload
         /\ Begun(m, f).op = IF f.op = "CONTINUATION" THEN m.msg.op ELSE f.op
         /\ Begun(m, f).payload = IF f.op = "CONTINUATION" THEN m.msg.payload ELSE <<>>
         /\ Len(Longer(m, f).payload) = Len(Begun(m, f).payload) + Len(f.payload)
<1>1. f.op \in Op /\ f.payload \in Seq(Byte) /\ <<>> \in Seq(Byte)
  BY FrameType, EmptySeq
<1>2. /\ Begun(m, f) \in Message
      /\ Begun(m, f).op = IF f.op = "CONTINUATION" THEN m.msg.op ELSE f.op
      /\ Begun(m, f).payload = IF f.op = "CONTINUATION" THEN m.msg.payload ELSE <<>>
  BY <1>1 DEF Begun, Message
<1>3. Begun(m, f).payload \in Seq(Byte)
  BY <1>2 DEF Message
<1>4. /\ Begun(m, f).payload \o f.payload \in Seq(Byte)
      /\ Len(Begun(m, f).payload \o f.payload) = Len(Begun(m, f).payload) + Len(f.payload)
  BY <1>1, <1>3, ConcatProperties
<1> DEFINE b == Begun(m, f)
           p == b.payload \o f.payload
<1>5. Longer(m, f) = [b EXCEPT !.payload = p]
  BY DEF Longer
<1> HIDE DEF b, p
<1>6. [b EXCEPT !.payload = p] = [op |-> b.op, payload |-> p] /\ b.op \in Op \cup {"none"}
  BY <1>2 DEF Message, b
<1>7. Longer(m, f) \in Message /\ Longer(m, f).op = b.op /\ Longer(m, f).payload = p
  BY <1>4, <1>5, <1>6 DEF Message, b, p
<1> QED
  BY <1>2, <1>4, <1>7 DEF b, p

LEMMA MeaningType ==
  ASSUME NEW m \in Outcome, NEW f \in Frames PROVE Meaning(m, f) \in Outcome
<1>1. m.msg \in Message /\ m.out \in Seq(Delivered)
  BY DEF Outcome
<1>2. Longer(m, f) \in Message /\ [op |-> "none", payload |-> <<>>] \in Message
  BY <1>1, LongerType, EmptySeq DEF Message
<1>3. Append(m.out, Whole(Longer(m, f), f)) \in Seq(Delivered)
  <2>1. Whole(Longer(m, f), f) \in Delivered
    BY <1>2 DEF Whole, Message, Delivered
  <2> QED
    BY <1>1, <2>1, AppendProperties
<1> QED
  BY <1>1, <1>2, <1>3 DEF Meaning, Outcome

LEMMA MeantRecursion ==
  ASSUME NEW fs \in Seq(Frames)
  PROVE  /\ Meant(fs, 0) = Nothing
         /\ \A n \in 0..Len(fs) : Meant(fs, n) \in Outcome
         /\ \A n \in 1..Len(fs) : Meant(fs, n) = Meaning(Meant(fs, n - 1), fs[n])
<1> DEFINE N == Len(fs)
           st == [i \in 1..N |-> [m \in Outcome |-> Meaning(m, fs[i])]]
<1>1. N \in Nat /\ Nothing \in Outcome
  BY LenProperties, EmptySeq DEF Nothing, Outcome, Message
<1>2. \A i \in 1..N : fs[i] \in Frames
  BY ElementOfSeq
<1>3. st \in [1..N -> [Outcome -> Outcome]]
  BY <1>2, MeaningType
<1>4. PICK g \in [0..N -> Outcome] : Run(g, Nothing, st, N)
  BY <1>1, <1>3, Iterates
<1>5. \A i \in 1..N : g[i - 1] \in Outcome /\ g[i] = Meaning(g[i - 1], fs[i])
  BY <1>1, <1>4 DEF Run
<1>6. g = [i \in 0..N |-> IF i = 0 THEN Nothing ELSE Meaning(g[i - 1], fs[i])]
  BY <1>1, <1>4, <1>5 DEF Run
<1> DEFINE meant == CHOOSE h : h = [i \in 0..N |-> IF i = 0 THEN Nothing ELSE Meaning(h[i - 1], fs[i])]
<1>7. meant = [i \in 0..N |-> IF i = 0 THEN Nothing ELSE Meaning(meant[i - 1], fs[i])]
  BY <1>6
<1>8. \A n : Meant(fs, n) = meant[IF n <= N THEN n ELSE N]
  BY DEF Meant
<1> HIDE DEF meant, st
<1>9. \A n \in 0..N : Meant(fs, n) = meant[n]
  BY <1>1, <1>8
<1>10. meant[0] = Nothing /\ \A n \in 1..N : meant[n] = Meaning(meant[n - 1], fs[n])
  BY <1>1, <1>7
<1>11. \A n \in 0..N : meant[n] \in Outcome
  <2> DEFINE Bad == {n \in 0..N : meant[n] # g[n]}
  <2>1. Bad = {}
    <3> SUFFICES ASSUME Bad # {} PROVE FALSE
      OBVIOUS
    <3>1. Bad \subseteq Nat
      OBVIOUS
    <3> HIDE DEF Bad
    <3>2. PICK n \in Bad : \A i \in Bad : n <= i
      BY <3>1, LeastNat
    <3> USE DEF Bad
    <3>3. n \in 0..N /\ meant[n] # g[n] /\ n # 0
      BY <1>4, <1>10 DEF Run
    <3>4. n \in 1..N /\ n - 1 \in 0..N /\ ~(n <= n - 1)
      BY <1>1, <3>3
    <3>5. meant[n - 1] = g[n - 1]
      BY <3>2, <3>4
    <3> QED
      BY <1>5, <1>10, <3>3, <3>4, <3>5
  <2> QED
    BY <2>1
<1>12. \A n \in 1..N : n - 1 \in 0..N /\ n \in 0..N
  BY <1>1
<1>13. 0 \in 0..N
  BY <1>1
<1> QED
  BY <1>9, <1>10, <1>11, <1>12, <1>13

(* After a frame that is not acceptable nothing changes.                        *)
LEMMA NotAcceptable ==
  ASSUME NEW m \in Outcome, NEW f, ~(m.ok /\ Acceptable(m, f))
  PROVE  ~Meaning(m, f).ok /\ Meaning(m, f).out = m.out
BY DEF Meaning, Outcome

LEMMA IsAcceptable ==
  ASSUME NEW m \in Outcome, NEW f, m.ok, Acceptable(m, f)
  PROVE  /\ Meaning(m, f).ok
         /\ Meaning(m, f).out = IF f.fin THEN Append(m.out, Whole(Longer(m, f), f)) ELSE m.out
         /\ Meaning(m, f).msg = IF f.op \in Control THEN m.msg
                                ELSE IF f.fin THEN [op |-> "none", payload |-> <<>>] ELSE Longer(m, f)
BY DEF Meaning

LEMMA Utf8Facts ==
  /\ Utf8(<<>>) = "accept"
  /\ \A p \in Seq(Byte) : Utf8(p) \in Utf8State
  /\ \A p, q \in Seq(Byte) : Utf8(p \o q) = DecodeFrom(Utf8(p), q)
<1>1. "accept" \in Utf8State
  BY DEF Utf8State
<1> QED
  BY <1>1, DecodeOfNone, DecodeFromType, DecodeInParts DEF Utf8

(* No length that a continuation announces can make the sum of line 457 wrap.       *)
Unwrapped(fs) ==
  \A i \in DOMAIN fs : fs[i].op = "CONTINUATION" => m_max_message_size + Len(fs[i].payload) < SizeT

(* What is true of a message that is handed over, and of what frames came to.      *)
Fine(fs, msg) ==
  /\ Unwrapped(fs) /\ msg.op \in {"TEXT", "BINARY"} => Len(msg.payload) <= m_max_message_size
  /\ msg.op = "TEXT" => /\ Utf8(msg.payload) # "reject"
                        /\ msg.single => Utf8(msg.payload) = "accept"
Good(fs, m) ==
  /\ \A i \in 1..Len(m.out) : Fine(fs, m.out[i])
  /\ m.msg.op \in {"none", "TEXT", "BINARY"}
  /\ Unwrapped(fs) => Len(m.msg.payload) <= m_max_message_size
  /\ m.msg.op = "none" => m.msg.payload = <<>>
  /\ m.msg.op = "TEXT" => Utf8(m.msg.payload) # "reject"

LEMMA SizeSumType ==
  ASSUME NEW a \in Nat, NEW b \in Nat
  PROVE  SizeSum(a, b) \in Nat /\ (a + b < SizeT => SizeSum(a, b) = a + b)
<1>1. SizeT \in Nat /\ SizeT > 0
  BY ReaderAssumption
<1>2. a + b \in Nat
  OBVIOUS
<1>3. (a + b) % SizeT \in Nat /\ (a + b < SizeT => (a + b) % SizeT = a + b)
  BY <1>1, <1>2, SMTT(30)
<1> QED
  BY <1>3 DEF SizeSum

(* A sum that does not wrap and passed the check is within the limit.              *)
LEMMA SumFits ==
  ASSUME NEW fs \in Seq(Frames), NEW k \in 1..Len(fs), NEW m, m.msg \in Message, Good(fs, m),
         Unwrapped(fs),
         SizeSum(Len(Begun(m, fs[k]).payload), Len(fs[k].payload)) <= m_max_message_size
  PROVE  Len(Begun(m, fs[k]).payload) + Len(fs[k].payload) <= m_max_message_size
<1>1. fs[k] \in Frames /\ k \in DOMAIN fs
  BY ElementOfSeq, LenProperties
<1> DEFINE f == fs[k]
<1> HIDE DEF f
<1>2. f \in Frames /\ Len(f.payload) \in Nat /\ Len(f.payload) < SizeT
  BY <1>1, FrameType, ReaderAssumption DEF f
<1>3. Begun(m, f).payload = IF f.op = "CONTINUATION" THEN m.msg.payload ELSE <<>>
  BY <1>2, LongerType
<1>4. Len(m.msg.payload) \in Nat /\ Len(m.msg.payload) <= m_max_message_size
  BY LenProperties DEF Message, Good
<1>5. f.op = "CONTINUATION" => m_max_message_size + Len(f.payload) < SizeT
  BY <1>1 DEF Unwrapped, f
<1>6. Len(<<>>) = 0 /\ m_max_message_size \in Nat /\ SizeT \in Nat
  BY EmptySeq, ReaderAssumption
<1>7. /\ Len(Begun(m, f).payload) \in Nat
      /\ Len(Begun(m, f).payload) + Len(f.payload) < SizeT
  <2>1. CASE f.op = "CONTINUATION"
    <3>1. Len(Begun(m, f).payload) = Len(m.msg.payload)
      BY <1>3, <2>1
    <3>2. \A x, y, z, w \in Nat : x <= y /\ y + z < w => x + z < w
      OBVIOUS
    <3> QED
      BY <1>2, <1>4, <1>5, <1>6, <2>1, <3>1, <3>2
  <2>2. CASE f.op # "CONTINUATION"
    <3>1. Len(Begun(m, f).payload) = 0
      BY <1>3, <1>6, <2>2
    <3> QED
      BY <1>2, <3>1
  <2> QED
    BY <2>1, <2>2
<1>8. SizeSum(Len(Begun(m, f).payload), Len(f.payload)) = Len(Begun(m, f).payload) + Len(f.payload)
  BY <1>2, <1>7, SizeSumType
<1> QED
  BY <1>8 DEF f

LEMMA GoodNothing == ASSUME NEW fs PROVE Good(fs, Nothing)
<1>1. Len(<<>>) = 0 /\ 0 <= m_max_message_size
  BY EmptySeq, ReaderAssumption
<1>2. Nothing.out = <<>> /\ Nothing.msg = [op |-> "none", payload |-> <<>>]
  BY DEF Nothing
<1>3. \A i \in 1..Len(Nothing.out) : Fine(fs, Nothing.out[i])
  BY <1>1, <1>2
<1>4. Nothing.msg.op = "none" /\ Nothing.msg.payload = <<>>
  BY <1>2
<1> QED
  BY <1>1, <1>3, <1>4 DEF Good

LEMMA GoodMeaning ==
  ASSUME NEW fs \in Seq(Frames), NEW k \in 1..Len(fs), NEW m \in Outcome, Good(fs, m)
  PROVE  Good(fs, Meaning(m, fs[k]))
<1> DEFINE f == fs[k]
           msg == Longer(m, f)
<1>1. f \in Frames /\ k \in DOMAIN fs /\ f.fin \in BOOLEAN /\ f.op \in Op
  BY ElementOfSeq, LenProperties, FrameType
<1>2. m.msg \in Message /\ m.out \in Seq(Delivered)
  BY DEF Outcome
<1>3. CASE ~(m.ok /\ Acceptable(m, f))
  <2>1. Meaning(m, f).out = m.out /\ Meaning(m, f).msg = m.msg
    BY <1>3 DEF Meaning, Outcome
  <2> QED
    BY <2>1 DEF Good
<1>4. CASE m.ok /\ Acceptable(m, f)
  <2>1. /\ msg \in Message
        /\ msg.op = IF f.op = "CONTINUATION" THEN m.msg.op ELSE f.op
    <3> HIDE DEF f
    <3> QED
      BY <1>1, <1>2, LongerType, ZenonT(60)
  <2>2. /\ Meaning(m, f).out = IF f.fin THEN Append(m.out, Whole(msg, f)) ELSE m.out
        /\ Meaning(m, f).msg = IF f.op \in Control THEN m.msg
                               ELSE IF f.fin THEN [op |-> "none", payload |-> <<>>] ELSE msg
    BY <1>4, IsAcceptable
  <2> HIDE DEF f, msg
  <2>3. /\ f.op \in Control \/ f.op \in Data
        /\ f.op \in Control => f.fin /\ msg.op \in Control
        /\ f.op \in Data => /\ f.op = "CONTINUATION" <=> m.msg.op # "none"
                            /\ msg.op \in {"TEXT", "BINARY"}
                            /\ Unwrapped(fs) => Len(msg.payload) <= m_max_message_size
    <3>1. /\ f.op \in Control => f.fin
          /\ f.op # "reserved"
          /\ f.op \in Data => (f.op = "CONTINUATION" <=> ~(m.msg.op = "none"))
      BY <1>4 DEF Acceptable, BasicHeaderOk
    <3>2. f.op \in Data /\ Unwrapped(fs) => Len(msg.payload) <= m_max_message_size
      <4>1. f.op \in Data => SizeSum(Len(Begun(m, f).payload), Len(f.payload)) <= m_max_message_size
        BY <1>4 DEF Acceptable
      <4>2. f.op \in Data /\ Unwrapped(fs) =>
              Len(Begun(m, f).payload) + Len(f.payload) <= m_max_message_size
        BY <1>2, <4>1, SumFits DEF f
      <4>3. Len(msg.payload) = Len(Begun(m, f).payload) + Len(f.payload)
        BY <1>1, <1>2, LongerType DEF msg
      <4> QED
        BY <4>2, <4>3
    <3> QED
      BY <1>1, <2>1, <3>1, <3>2 DEF Op, Control, Data, Good
  <2>4. msg.op = "TEXT" =>
          /\ Utf8(msg.payload) \in {"accept", "lead"}
          /\ f.fin /\ f.op = "TEXT" => Utf8(msg.payload) = "accept"
          /\ f.op = "TEXT" \/ (f.op = "CONTINUATION" /\ m.msg.op = "TEXT")
    <3>1. msg.payload \in Seq(Byte)
      BY <2>1 DEF Message
    <3>2. /\ msg.op = "TEXT" => Utf8(msg.payload) # "reject"
          /\ f.op = "TEXT" /\ f.fin => Utf8(msg.payload) = "accept"
      BY <1>4 DEF Acceptable, msg
    <3>3. Utf8(msg.payload) \in {"accept", "lead", "reject"}
      BY <3>1, Utf8Facts DEF Utf8State
    <3>4. msg.op = "TEXT" => f.op = "TEXT" \/ (f.op = "CONTINUATION" /\ m.msg.op = "TEXT")
      BY <2>1
    <3> HIDE DEF msg
    <3> QED
      BY <3>2, <3>3, <3>4
  <2>5. f.fin => Fine(fs, Whole(msg, f))
    <3>1. Unwrapped(fs) /\ msg.op \in {"TEXT", "BINARY"} => Len(msg.payload) <= m_max_message_size
      BY <2>3 DEF Control
    <3>2. /\ Whole(msg, f).op = msg.op /\ Whole(msg, f).payload = msg.payload
          /\ Whole(msg, f).single = (f.op # "CONTINUATION")
      BY DEF Whole
    <3> QED
      BY <2>4, <3>1, <3>2 DEF Fine
  <2>7. Whole(msg, f) \in Delivered
    BY <2>1 DEF Whole, Message, Delivered
  <2>6. \A i \in 1..Len(Meaning(m, f).out) : Fine(fs, Meaning(m, f).out[i])
    <3>1. CASE f.fin
      <4> DEFINE o == Meaning(m, f).out
      <4>1. Len(m.out) \in Nat /\ o = Append(m.out, Whole(msg, f))
        BY <1>2, <2>2, <3>1, LenProperties
      <4>2. /\ Len(o) = Len(m.out) + 1 /\ o[Len(m.out) + 1] = Whole(msg, f)
            /\ \A i \in 1..Len(m.out) : o[i] = m.out[i]
        BY <1>2, <2>7, <4>1, AppendProperties
      <4> HIDE DEF o
      <4>3. \A i \in 1..Len(m.out) : Fine(fs, o[i])
        BY <4>2 DEF Good
      <4>4. \A i \in 1..Len(o) : i = Len(m.out) + 1 \/ i \in 1..Len(m.out)
        BY <4>1, <4>2
      <4>5. Fine(fs, o[Len(m.out) + 1])
        BY <2>5, <3>1, <4>2
      <4>6. \A i \in 1..Len(o) : Fine(fs, o[i])
        BY <4>3, <4>4, <4>5
      <4> QED
        BY <4>6 DEF o
    <3>2. CASE ~f.fin
      BY <2>2, <3>2 DEF Good
    <3> QED
      BY <3>1, <3>2
  <2>8. Len(<<>>) = 0 /\ 0 <= m_max_message_size
    BY EmptySeq, ReaderAssumption
  <2> DEFINE n == Meaning(m, f).msg
  <2>9. /\ n.op \in {"none", "TEXT", "BINARY"}
        /\ Unwrapped(fs) => Len(n.payload) <= m_max_message_size
        /\ n.op = "none" => n.payload = <<>>
        /\ n.op = "TEXT" => Utf8(n.payload) # "reject"
    <3>1. CASE f.op \in Control
      BY <2>2, <3>1 DEF Good
    <3>2. CASE f.op \notin Control /\ f.fin
      <4>1. n = [op |-> "none", payload |-> <<>>]
        BY <2>2, <3>2
      <4>2. n.op = "none" /\ n.payload = <<>>
        BY <4>1
      <4> QED
        BY <2>8, <4>2
    <3>3. CASE f.op \notin Control /\ ~f.fin
      <4>1. n = msg
        BY <2>2, <3>3
      <4> QED
        BY <2>3, <2>4, <3>3, <4>1
    <3> QED
      BY <3>1, <3>2, <3>3
  <2>10. Good(fs, Meaning(m, f))
    BY <2>6, <2>9 DEF Good
  <2> QED
    BY <2>10 DEF f
<1> QED
  BY <1>3, <1>4

-----------------------------------------------------------------------------
(* The inductive invariant.  The reader has taken j bytes of the k-th frame, and   *)
(* all of those before it; what it holds is what these bytes say.                *)

(* What the frames before the k-th came to.                                    *)
Before(k) == Meant(frames, k - 1)

Place(k, j) ==
  /\ k \in 1..(Len(frames) + 1) /\ j \in Nat
  /\ k > Len(frames) => j = 0
  /\ k <= Len(frames) => j <= FrameLen(frames[k])
  /\ unread = At(frames, k, j)
  /\ Before(k).ok /\ Good(frames, Before(k)) /\ delivered = Before(k).out

(* Metadata that hold a message.                                               *)
Validated(msg) == IF msg.op = "TEXT" THEN Utf8(msg.payload) ELSE "accept"
Holds(meta, msg) ==
  meta.op = msg.op /\ meta.payload = msg.payload /\ meta.validator = Validated(msg)

DataKept(k) ==
  Holds(m_data_msg, Before(k).msg) /\ (Before(k).msg.op = "none" => m_data_msg = NoMsg)

InBasicHeader(k, j) ==
  /\ m_state = "HEADER_BASIC" /\ j < 2 /\ m_bytes_needed = 2 - j
  /\ m_basic_header = Span(k, 0, j) /\ m_extended_header = <<>>
  /\ DataKept(k)

BasicHeaderDone(k) ==
  /\ k <= Len(frames) /\ m_basic_header = Span(k, 0, 2)
  /\ BasicHeaderOk(frames[k], Before(k).msg.op = "none")

InExtendedHeader(k, j) ==
  /\ m_state = "HEADER_EXTENDED" /\ BasicHeaderDone(k)
  /\ 2 <= j /\ j < HeaderLen(frames[k]) /\ m_bytes_needed = HeaderLen(frames[k]) - j
  /\ m_extended_header = Span(k, 2, j - 2)
  /\ DataKept(k)

HeaderDone(k) ==
  /\ BasicHeaderDone(k) /\ ExtendedHeaderOk(frames[k])
  /\ m_extended_header = Span(k, 2, HeaderLen(frames[k]) - 2)
  /\ m_current_msg = IF frames[k].op \in Control THEN "control" ELSE "data"
  /\ frames[k].op \in Control => DataKept(k)
  /\ frames[k].op \in Data =>
       SizeSum(Len(Begun(Before(k), frames[k]).payload), Len(frames[k].payload)) <= m_max_message_size

(* The message with the first n bytes of the frame's payload.                    *)
Part(m, f, n) ==
  [op |-> Begun(m, f).op, payload |-> Begun(m, f).payload \o SubSeq(f.payload, 1, n)]

InPayload(k, j) ==
  LET f == frames[k] IN
  /\ m_state \in {"APPLICATION", "READY"} /\ HeaderDone(k)
  /\ HeaderLen(f) <= j /\ m_bytes_needed = FrameLen(f) - j
  /\ Holds(Current, Part(Before(k), f, j - HeaderLen(f))) /\ Current.validator # "reject"
  /\ m_state = "APPLICATION" => Current.prepared_key = (j - HeaderLen(f)) % 4
  /\ m_state = "READY" => /\ j = FrameLen(f) /\ f.fin
                          /\ f.op = "TEXT" => Current.validator = "accept"

Reading(k, j) ==
  Place(k, j) /\ (InBasicHeader(k, j) \/ InExtendedHeader(k, j) \/ InPayload(k, j))

(* After an error it is the k-th frame that is not acceptable.                   *)
Failed(k, j) ==
  /\ Place(k, j) /\ k <= Len(frames) /\ m_state # "READY"
  /\ ~Acceptable(Before(k), frames[k])

Bounded == Unwrapped(frames) => Len(m_data_msg.payload) <= m_max_message_size

ReadsTo(k, j) == IF ec THEN Failed(k, j) ELSE Reading(k, j)
ReaderInv == TypeOK /\ Bounded /\ \E k, j \in Nat : ReadsTo(k, j)

-----------------------------------------------------------------------------
(* Bytes that are read one after the other.                                    *)
LEMMA SpanOnSpan ==
  ASSUME NEW k \in Nat, NEW j \in Nat, NEW n \in Nat, NEW p \in Nat
  PROVE  Span(k, j, n) \o Span(k, j + n, p) = Span(k, j, n + p)
<1> DEFINE s == Span(k, j, n)
           t == Span(k, j + n, p)
           v == Span(k, j, n + p)
<1>1. j + n \in Nat /\ n + p \in Nat
  OBVIOUS
<1>2. s \in Wire /\ Len(s) = n /\ \A i \in 1..n : s[i] = <<k, j + i>>
  BY SpanIsWire
<1>3. t \in Wire /\ Len(t) = p /\ \A i \in 1..p : t[i] = <<k, (j + n) + i>>
  BY <1>1, SpanIsWire
<1>4. v \in Wire /\ Len(v) = n + p /\ \A i \in 1..(n + p) : v[i] = <<k, j + i>>
  BY <1>1, SpanIsWire
<1> HIDE DEF s, t, v
<1>5. /\ s \o t \in Wire /\ Len(s \o t) = n + p
      /\ \A i \in 1..(n + p) : (s \o t)[i] = IF i <= n THEN s[i] ELSE t[i - n]
  BY <1>2, <1>3, ConcatProperties DEF Wire
<1>6. ASSUME NEW i \in 1..(n + p) PROVE (s \o t)[i] = v[i]
  <2>1. CASE i <= n
    <3>1. i \in 1..n
      BY <2>1
    <3> QED
      BY <1>2, <1>4, <1>5, <2>1, <3>1
  <2>2. CASE ~(i <= n)
    <3>1. i - n \in 1..p /\ (j + n) + (i - n) = j + i
      BY <2>2
    <3>2. t[i - n] = <<k, j + i>>
      BY <1>3, <3>1
    <3> QED
      BY <1>4, <1>5, <2>2, <3>2
  <2> QED
    BY <2>1, <2>2
<1>7. s \o t = v
  BY <1>4, <1>5, <1>6, SeqEqual DEF Wire
<1> QED
  BY <1>7 DEF s, t, v

LEMMA TakeAt ==
  ASSUME TypeOK, NEW k \in 1..Len(frames), NEW j \in 0..FrameLen(frames[k]),
         unread = At(frames, k, j),
         NEW n \in 0..(FrameLen(frames[k]) - j), n <= len, Take(n)
  PROVE  /\ SubSeq(unread, 1, n) = Span(k, j, n)
         /\ unread' = At(frames, k, j + n) /\ frames' = frames
         /\ len' \in 0..Len(unread') /\ len' <= connection_read_buffer_size
<1>1. frames \in Seq(Frames) /\ len \in 0..Len(unread) /\ len <= connection_read_buffer_size
  BY DEF TypeOK
<1>2. /\ SubSeq(unread, 1, n) = Span(k, j, n)
      /\ SubSeq(unread, n + 1, Len(unread)) = At(frames, k, j + n)
      /\ Len(At(frames, k, j + n)) = Len(unread) - n
  BY <1>1, AtTake
<1>3. unread \in Wire /\ Len(unread) \in Nat
  BY <1>1, AtFrame, LenProperties DEF Wire
<1>4. unread' = At(frames, k, j + n) /\ frames' = frames /\ len' = len - n /\ Len(unread') = Len(unread) - n
  BY <1>2 DEF Take
<1>5. len' \in 0..Len(unread')
  BY <1>1, <1>3, <1>4
<1>6. len' <= connection_read_buffer_size
  BY <1>1, <1>3, <1>4, ReaderAssumption
<1> QED
  BY <1>2, <1>4, <1>5, <1>6

(* The basic header says which frame is read.                                   *)
LEMMA HeaderIs ==
  ASSUME frames \in Seq(Frames), NEW k \in 1..Len(frames), m_basic_header = Span(k, 0, 2)
  PROVE  /\ m_basic_header[1][1] = k /\ Header = frames[k] /\ Header \in Frames
         /\ Len(m_basic_header) = 2
<1>1. k \in Nat /\ frames[k] \in Frames
  BY ElementOfSeq
<1>2. Len(m_basic_header) = 2 /\ m_basic_header[1] = <<k, 1>>
  BY <1>1, SpanIsWire DEF Span
<1> QED
  BY <1>1, <1>2 DEF Header

(* What is known of the k-th frame and of what came before it.                   *)
LEMMA FrameAt ==
  ASSUME frames \in Seq(Frames), NEW k \in 1..Len(frames)
  PROVE  /\ Before(k) \in Outcome /\ Before(k).msg \in Message /\ frames[k] \in Frames
         /\ Before(k + 1) = Meaning(Before(k), frames[k])
         /\ k \in Nat /\ Len(frames) \in Nat
         /\ FrameLen(frames[k]) \in Nat /\ HeaderLen(frames[k]) \in 2..14
         /\ FrameLen(frames[k]) = HeaderLen(frames[k]) + Len(frames[k].payload)
         /\ Len(frames[k].payload) \in Nat /\ HeaderLen(frames[k]) <= FrameLen(frames[k])
<1>1. Len(frames) \in Nat /\ frames[k] \in Frames
  BY LenProperties, ElementOfSeq
<1>2. k - 1 \in 0..Len(frames) /\ (k + 1) - 1 = k
  BY <1>1
<1>3. Before(k) \in Outcome /\ Before(k + 1) = Meaning(Before(k), frames[k])
  BY <1>2, MeantRecursion DEF Before
<1>4. /\ HeaderLen(frames[k]) \in 2..14 /\ Len(frames[k].payload) \in Nat
      /\ FrameLen(frames[k]) = HeaderLen(frames[k]) + Len(frames[k].payload)
  BY <1>1, FrameType DEF FrameLen
<1>5. \A h \in 2..14, p \in Nat : h + p \in Nat /\ h <= h + p
  OBVIOUS
<1>6. FrameLen(frames[k]) \in Nat /\ HeaderLen(frames[k]) <= FrameLen(frames[k])
  BY <1>4, <1>5
<1>7. Before(k).msg \in Message
  BY <1>3 DEF Outcome
<1> QED
  BY <1>1, <1>3, <1>4, <1>6, <1>7

LEMMA BytesToTake ==
  ASSUME TypeOK, Consuming, NEW k, NEW j, Place(k, j),
         m_bytes_needed = 0 => k <= Len(frames)
  PROVE  /\ k \in 1..Len(frames) /\ j \in 0..FrameLen(frames[k])
         /\ ToRead \in Nat /\ ToRead <= len /\ ToRead <= m_bytes_needed
<1>1. Len(frames) \in Nat /\ len \in Nat /\ len <= Len(unread) /\ m_bytes_needed \in Nat
  <2>1. frames \in Seq(Frames) /\ len \in 0..Len(unread) /\ m_bytes_needed \in Nat
    BY DEF TypeOK
  <2>2. Len(frames) \in Nat
    BY <2>1, LenProperties
  <2> QED
    BY <2>1, <2>2
<1>2. k \in 1..Len(frames)
  <2>1. CASE len > 0
    <3>1. unread # <<>>
      BY <1>1, <2>1, EmptySeq
    <3>2. ~(k > Len(frames))
      BY <3>1 DEF Place, At
    <3> QED
      BY <1>1, <3>2 DEF Place
  <2>2. CASE ~(len > 0)
    BY <1>1, <2>2 DEF Consuming, MoreToDo, Place
  <2> QED
    BY <2>1, <2>2
<1>3. FrameLen(frames[k]) \in Nat
  BY <1>2, FrameAt DEF TypeOK
<1>4. j \in 0..FrameLen(frames[k])
  BY <1>1, <1>2, <1>3 DEF Place
<1> QED
  BY <1>1, <1>2, <1>4 DEF ToRead

-----------------------------------------------------------------------------
(* The steps of consume.                                                      *)

(* The data message is none exactly when none was begun.                        *)
LEMMA NoDataMsg ==
  ASSUME NEW k, DataKept(k) PROVE (m_data_msg = NoMsg) = (Before(k).msg.op = "none")
BY DEF DataKept, Holds, NoMsg

LEMMA TakenInPlace ==
  ASSUME NEW k, NEW j, NEW n \in Nat, Place(k, j), k \in 1..Len(frames), frames' = frames,
         j + n <= FrameLen(frames[k]), unread' = At(frames, k, j + n), delivered' = delivered
  PROVE  Place(k, j + n)'
<1>1. j + n \in Nat
  BY DEF Place
<1> QED
  BY <1>1 DEF Place, Before

(* What TypeOK asks of a step, part by part.                                    *)
LEMMA TypeKept ==
  ASSUME TypeOK, frames' = frames, len' \in 0..Len(unread'), len' <= connection_read_buffer_size,
         m_state' \in {"HEADER_BASIC", "HEADER_EXTENDED", "APPLICATION", "READY"},
         m_bytes_needed' \in Nat, Len(m_basic_header') <= 2,
         m_state' # "HEADER_BASIC" =>
           HeaderLen(Header)' <= 14 /\ Len(m_extended_header') <= HeaderLen(Header)' - 2,
         m_data_msg' \in Metadata, m_data_msg'.op \in {"none", "TEXT", "BINARY"},
         m_control_msg' \in Metadata, m_control_msg'.op \in {"none"} \cup Control,
         m_current_msg' \in {"data", "control"}, ec' \in BOOLEAN
  PROVE  TypeOK'
BY DEF TypeOK

(* What the reader has taken goes on in its place.                             *)
LEMMA ReadsOn ==
  ASSUME TypeOK, Consuming, NEW k, NEW j, Place(k, j),
         m_bytes_needed = 0 => k <= Len(frames),
         k \in 1..Len(frames) => j + m_bytes_needed <= FrameLen(frames[k]),
         Take(ToRead), delivered' = delivered
  PROVE  \E n \in Nat :
           /\ n = ToRead /\ n <= m_bytes_needed /\ k \in 1..Len(frames) /\ j + n \in Nat
           /\ SubSeq(unread, 1, n) = Span(k, j, n) /\ Place(k, j + n)' /\ frames' = frames
           /\ len' \in 0..Len(unread') /\ len' <= connection_read_buffer_size
<1>1. PICK n : n = ToRead
  OBVIOUS
<1>2. /\ k \in 1..Len(frames) /\ j \in 0..FrameLen(frames[k])
      /\ n \in Nat /\ n <= len /\ n <= m_bytes_needed
  BY <1>1, BytesToTake
<1>3. frames \in Seq(Frames) /\ m_bytes_needed \in Nat
  BY DEF TypeOK
<1>4. FrameLen(frames[k]) \in Nat
  BY <1>2, <1>3, FrameAt
<1>5. j + n <= FrameLen(frames[k]) /\ n \in 0..(FrameLen(frames[k]) - j) /\ j + n \in Nat
  BY <1>2, <1>3, <1>4
<1>6. /\ SubSeq(unread, 1, n) = Span(k, j, n)
      /\ unread' = At(frames, k, j + n) /\ frames' = frames
      /\ len' \in 0..Len(unread') /\ len' <= connection_read_buffer_size
  <2>1. Take(n) /\ unread = At(frames, k, j)
    BY <1>1 DEF Place
  <2> QED
    BY <1>2, <1>5, <2>1, TakeAt
<1>7. Place(k, j + n)'
  BY <1>2, <1>5, <1>6, TakenInPlace
<1> QED
  BY <1>1, <1>2, <1>5, <1>6, <1>7

(* A step in the basic header, to its end or not (lines 394-410).                  *)
LEMMA BasicHeaderStep ==
  ASSUME TypeOK, Bounded, ~ec, NEW k \in Nat, NEW j \in Nat, Place(k, j), InBasicHeader(k, j),
         CopyBasicHeader
  PROVE  ReaderInv'
<1>1. /\ Take(ToRead) /\ m_state = "HEADER_BASIC" /\ m_bytes_needed = 2 - j /\ j < 2
      /\ m_basic_header' = m_basic_header \o SubSeq(unread, 1, ToRead)
      /\ m_basic_header = Span(k, 0, j) /\ m_extended_header = <<>> /\ DataKept(k)
      /\ UNCHANGED <<m_extended_header, msgs, delivered>> /\ Consuming
      /\ frames \in Seq(Frames)
  BY DEF CopyBasicHeader, InBasicHeader, TypeOK
<1>2. /\ m_data_msg \in Metadata /\ m_data_msg.op \in {"none", "TEXT", "BINARY"}
      /\ m_control_msg \in Metadata /\ m_control_msg.op \in {"none"} \cup Control
      /\ m_current_msg \in {"data", "control"}
  BY DEF TypeOK
<1>3. ASSUME k \in 1..Len(frames)
      PROVE  /\ frames[k] \in Frames /\ HeaderLen(frames[k]) \in 2..14
             /\ FrameLen(frames[k]) \in Nat /\ HeaderLen(frames[k]) <= FrameLen(frames[k])
  BY <1>1, <1>3, FrameAt
<1>4. k \in 1..Len(frames) => j + m_bytes_needed <= FrameLen(frames[k])
  BY <1>1, <1>3
<1>5. PICK n \in Nat :
           /\ n = ToRead /\ n <= m_bytes_needed /\ k \in 1..Len(frames) /\ j + n \in Nat
           /\ SubSeq(unread, 1, n) = Span(k, j, n) /\ Place(k, j + n)' /\ frames' = frames
           /\ len' \in 0..Len(unread') /\ len' <= connection_read_buffer_size
  BY <1>1, <1>4, ReadsOn
<1>6. j + n <= 2
  BY <1>1, <1>5
<1>7. m_basic_header' = Span(k, 0, j + n) /\ Len(m_basic_header') = j + n
  <2>1. m_basic_header' = Span(k, 0, j) \o Span(k, j, n)
    BY <1>1, <1>5
  <2>2. 0 \in Nat /\ 0 + j = j /\ n \in Nat
    OBVIOUS
  <2>3. Span(k, 0, j) \o Span(k, 0 + j, n) = Span(k, 0, j + n)
    BY <2>2, SpanOnSpan, ZenonT(60)
  <2>4. Len(Span(k, 0, j + n)) = j + n
    BY <1>5, <2>2, SpanIsWire
  <2> QED
    BY <2>1, <2>2, <2>3, <2>4
<1>8. DataKept(k)' /\ UNCHANGED <<m_data_msg, m_control_msg, m_current_msg>>
  BY <1>1, <1>5 DEF DataKept, Before, msgs
<1>9. Bounded'
  BY <1>5, <1>8 DEF Bounded, Unwrapped
<1>10. CASE n < m_bytes_needed
  <2>1. m_bytes_needed' = 2 - (j + n) /\ m_state' = "HEADER_BASIC" /\ ec' = FALSE /\ j + n < 2
    BY <1>1, <1>5, <1>6, <1>10 DEF CopyBasicHeader, TypeOK
  <2>2. InBasicHeader(k, j + n)'
    BY <1>1, <1>7, <1>8, <2>1 DEF InBasicHeader
  <2>3. TypeOK'
    <3>1. m_bytes_needed' \in Nat /\ Len(m_basic_header') <= 2
      BY <1>5, <1>6, <1>7, <2>1
    <3> QED
      BY <1>2, <1>5, <1>8, <2>1, <3>1, TypeKept
  <2>4. ReadsTo(k, j + n)'
    BY <1>5, <2>1, <2>2 DEF ReadsTo, Reading
  <2> QED
    BY <1>5, <1>9, <2>3, <2>4 DEF ReaderInv
<1>11. CASE ~(n < m_bytes_needed)
  <2> DEFINE f == frames[k]
  <2>0. j + n = 2 /\ n = m_bytes_needed
    BY <1>1, <1>5, <1>6, <1>11
  <2>1. j + n = 2 /\ m_basic_header' = Span(k, 0, 2)
    BY <1>7, <2>0
  <2>2. m_basic_header'[1][1] = k
    BY <1>5, <2>1 DEF Span
  <2>3. /\ ec' = ~BasicHeaderOk(f, Before(k).msg.op = "none")
        /\ m_state' = IF ec' THEN m_state ELSE "HEADER_EXTENDED"
        /\ m_bytes_needed' = IF ec' THEN 0 ELSE HeaderLen(f) - 2
    BY <1>1, <1>5, <1>11, <2>2, NoDataMsg DEF CopyBasicHeader
  <2>4. CASE ec'
    <3>1. m_state' = "HEADER_BASIC" /\ m_bytes_needed' = 0 /\ ec' = TRUE
      BY <1>1, <2>3, <2>4
    <3>2. TypeOK'
      BY <1>2, <1>5, <1>6, <1>7, <1>8, <3>1, TypeKept
    <3>3. ~Acceptable(Before(k), f)
      BY <2>3, <2>4 DEF Acceptable
    <3>4. Failed(k, j + n)'
      BY <1>5, <3>1, <3>3 DEF Failed, Before
    <3> QED
      BY <1>5, <1>9, <3>1, <3>2, <3>4 DEF ReaderInv, ReadsTo
  <2>5. CASE ~ec'
    <3>1. /\ m_state' = "HEADER_EXTENDED" /\ m_bytes_needed' = HeaderLen(f) - 2 /\ ec' = FALSE
          /\ BasicHeaderOk(f, Before(k).msg.op = "none")
      BY <2>3, <2>5
    <3>2. HeaderLen(f) > 2
      BY <1>3, <1>5, <3>1, FrameType DEF BasicHeaderOk
    <3>3. m_extended_header' = <<>> /\ Len(m_extended_header') = 0 /\ Span(k, 2, 2 - 2) = <<>>
      <4>1. Span(k, 2, 0) \in Wire /\ Len(Span(k, 2, 0)) = 0
        BY SpanIsWire
      <4> QED
        BY <1>1, <4>1, EmptySeq DEF Wire
    <3>4. HeaderLen(Header)' = HeaderLen(f)
      BY <1>5, <2>2 DEF Header
    <3>5. TypeOK'
      <4>1. HeaderLen(f) - 2 \in Nat /\ HeaderLen(f) <= 14 /\ 0 <= HeaderLen(f) - 2
        <5>1. HeaderLen(f) \in 2..14
          BY <1>3, <1>5
        <5>2. \A h \in 2..14 : h - 2 \in Nat /\ h <= 14 /\ 0 <= h - 2
          OBVIOUS
        <5> QED
          BY <5>1, <5>2
      <4> QED
        BY <1>2, <1>5, <1>6, <1>7, <1>8, <3>1, <3>3, <3>4, <4>1, TypeKept
    <3>6. InExtendedHeader(k, 2)'
      BY <1>5, <1>8, <2>1, <3>1, <3>2, <3>3 DEF InExtendedHeader, BasicHeaderDone, Before
    <3>7. ReadsTo(k, 2)'
      BY <1>5, <2>1, <3>1, <3>6 DEF ReadsTo, Reading
    <3> QED
      BY <1>9, <3>5, <3>7 DEF ReaderInv
  <2> QED
    BY <2>4, <2>5
<1> QED
  BY <1>10, <1>11

(* The message with a part of the frame's payload, with none of it, and with all.   *)
LEMMA PartType ==
  ASSUME NEW m, m.msg \in Message, NEW f \in Frames, NEW i \in 0..Len(f.payload)
  PROVE  /\ Part(m, f, i) \in Message /\ SubSeq(f.payload, 1, i) \in Seq(Byte)
         /\ Part(m, f, i).op = Begun(m, f).op
         /\ Part(m, f, i).payload = Begun(m, f).payload \o SubSeq(f.payload, 1, i)
         /\ Len(Begun(m, f).payload) \in Nat
         /\ Len(Part(m, f, i).payload) = Len(Begun(m, f).payload) + i
<1> DEFINE b == Begun(m, f)
           s == SubSeq(f.payload, 1, i)
<1>1. f.payload \in Seq(Byte) /\ b \in Message /\ Len(f.payload) \in Nat
  BY FrameType, LongerType
<1>2. b.payload \in Seq(Byte) /\ b.op \in Op \cup {"none"} /\ Len(b.payload) \in Nat
  BY <1>1, LenProperties DEF Message
<1>3. s \in Seq(Byte) /\ Len(s) = i
  <2>1. 1 \in Int /\ i \in Int /\ \A x \in 1..i : f.payload[x] \in Byte
    BY <1>1, ElementOfSeq
  <2>2. s \in Seq(Byte) /\ Len(s) = IF 1 <= i THEN i - 1 + 1 ELSE 0
    BY <2>1, SubSeqProperties
  <2> HIDE DEF s
  <2> QED
    BY <1>1, <2>2
<1>4. Part(m, f, i) = [op |-> b.op, payload |-> b.payload \o s]
  BY DEF Part
<1> HIDE DEF b, s
<1>5. b.payload \o s \in Seq(Byte) /\ Len(b.payload \o s) = Len(b.payload) + i
  BY <1>2, <1>3, ConcatProperties
<1>6. Part(m, f, i).op = b.op /\ Part(m, f, i).payload = b.payload \o s
  BY <1>4
<1>7. Part(m, f, i) \in Message
  BY <1>2, <1>4, <1>5 DEF Message
<1> QED
  BY <1>2, <1>3, <1>5, <1>6, <1>7 DEF b, s

LEMMA PartNone ==
  ASSUME NEW m, m.msg \in Message, NEW f \in Frames
  PROVE  Part(m, f, 0).op = Begun(m, f).op /\ Part(m, f, 0).payload = Begun(m, f).payload
<1>1. SubSeq(f.payload, 1, 0) = <<>>
  <2>1. 1 \in Int /\ 0 \in Int /\ 0 < 1
    OBVIOUS
  <2> QED
    BY <2>1, SubSeqEmpty
<1>2. Begun(m, f).payload \in Seq(Byte)
  BY LongerType DEF Message
<1>3. Begun(m, f).payload \o <<>> = Begun(m, f).payload
  BY <1>2, ConcatEmptySeq
<1> QED
  BY <1>1, <1>3 DEF Part

LEMMA PartAll ==
  ASSUME NEW m, m.msg \in Message, NEW f \in Frames
  PROVE  Part(m, f, Len(f.payload)) = Longer(m, f)
<1>1. f.payload \in Seq(Byte)
  BY FrameType
<1>2. SubSeq(f.payload, 1, Len(f.payload)) = f.payload
  BY <1>1, SubSeqFull
<1> DEFINE b == Begun(m, f)
<1>3. b \in Message
  BY LongerType
<1>4. Part(m, f, Len(f.payload)) = [op |-> b.op, payload |-> b.payload \o f.payload]
  BY <1>2 DEF Part
<1> DEFINE p == b.payload \o f.payload
<1>5. Longer(m, f) = [b EXCEPT !.payload = p]
  BY DEF Longer
<1> HIDE DEF b, p
<1>6. [b EXCEPT !.payload = p] = [op |-> b.op, payload |-> p]
  BY <1>3 DEF Message
<1> QED
  BY <1>4, <1>5, <1>6 DEF p

LEMMA PartMore ==
  ASSUME NEW m, m.msg \in Message, NEW f \in Frames, NEW i \in Nat, NEW n \in Nat,
         i + n <= Len(f.payload)
  PROVE  /\ SubSeq(f.payload, i + 1, i + n) \in Seq(Byte)
         /\ Part(m, f, i + n).payload = Part(m, f, i).payload \o SubSeq(f.payload, i + 1, i + n)
<1> DEFINE b == Begun(m, f).payload
           s == SubSeq(f.payload, 1, i)
           t == SubSeq(f.payload, i + 1, i + n)
<1>1. Len(f.payload) \in Nat /\ f.payload \in Seq(Byte) /\ b \in Seq(Byte)
  BY FrameType, LongerType DEF Message
<1>2. i \in 0..Len(f.payload) /\ i + n \in 0..Len(f.payload)
  BY <1>1
<1>3. /\ Part(m, f, i + n).payload = b \o SubSeq(f.payload, 1, i + n)
      /\ Part(m, f, i).payload = b \o s /\ s \in Seq(Byte)
  BY <1>2, PartType
<1>4. t \in Seq(Byte)
  <2>1. i + 1 \in Int /\ i + n \in Int /\ \A x \in (i + 1)..(i + n) : x \in 1..Len(f.payload)
    BY <1>1
  <2>2. \A x \in (i + 1)..(i + n) : f.payload[x] \in Byte
    BY <1>1, <2>1, ElementOfSeq
  <2> QED
    BY <2>1, <2>2, SubSeqProperties
<1>5. s \o t = SubSeq(f.payload, 1, i + n)
  <2>1. 1 \in 1..(Len(f.payload) + 1) /\ i \in (1 - 1)..Len(f.payload) /\ i + n \in i..Len(f.payload)
    BY <1>1
  <2> QED
    BY <1>1, <2>1, ConcatAdjacentSubSeq
<1> HIDE DEF b, s, t
<1>6. (b \o s) \o t = b \o (s \o t)
  BY <1>1, <1>3, <1>4, ConcatAssociative, SMTT(30)
<1> QED
  BY <1>3, <1>4, <1>5, <1>6 DEF t

(* The message the frame goes on with, when its header is acceptable.             *)
LEMMA BegunOk ==
  ASSUME NEW m, m.msg \in Message, Good(frames, m), NEW f \in Frames,
         BasicHeaderOk(f, m.msg.op = "none")
  PROVE  /\ f.op \in Control \cup Data
         /\ f.op \in Control => f.fin /\ Begun(m, f) = [op |-> f.op, payload |-> <<>>]
         /\ f.op \in Data => /\ Begun(m, f).op \in {"TEXT", "BINARY"}
                             /\ f.op = "CONTINUATION" => m.msg.op # "none" /\ Begun(m, f) = m.msg
                             /\ f.op # "CONTINUATION" =>
                                  m.msg.op = "none" /\ Begun(m, f) = [op |-> f.op, payload |-> <<>>]
         /\ Begun(m, f).op = "TEXT" => Utf8(Begun(m, f).payload) # "reject"
<1>1. f.op \in Op
  BY FrameType
<1>2. /\ f.op \in Control => f.fin
      /\ f.op # "reserved"
      /\ f.op \in Data => (f.op = "CONTINUATION" <=> ~(m.msg.op = "none"))
  BY DEF BasicHeaderOk
<1>3. Begun(m, f) = IF f.op = "CONTINUATION" THEN m.msg ELSE [op |-> f.op, payload |-> <<>>]
  BY DEF Begun
<1>4. f.op \in Data => Begun(m, f).op \in {"TEXT", "BINARY"}
  BY <1>1, <1>2, <1>3 DEF Good, Data
<1>5. Begun(m, f).op = "TEXT" => Utf8(Begun(m, f).payload) # "reject"
  BY <1>3, Utf8Facts DEF Good
<1> QED
  BY <1>1, <1>2, <1>3, <1>4, <1>5 DEF Op, Control, Data

LEMMA NewMsgHolds ==
  ASSUME NEW op \in Op
  PROVE  /\ NewMsg(op) \in Metadata /\ NewMsg(op).op = op /\ NewMsg(op).payload = <<>>
         /\ NewMsg(op).prepared_key = 0 /\ NewMsg(op).validator = "accept"
         /\ Holds(NewMsg(op), [op |-> op, payload |-> <<>>])
<1>1. <<>> \in Seq(Byte)
  BY EmptySeq
<1>2. NewMsg(op) = [op |-> op, payload |-> <<>>, prepared_key |-> 0, validator |-> "accept"]
  BY DEF NewMsg, NoMsg
<1>3. Utf8(<<>>) = "accept"
  BY Utf8Facts
<1> QED
  BY <1>1, <1>2, <1>3 DEF Metadata, Utf8State, Holds, Validated

(* What BeginFrame prepares holds what the frame goes on with, and nothing of the    *)
(* frame yet; or the message would be too big.                                  *)
LEMMA BeginsFrame ==
  ASSUME TypeOK, Bounded, ~ec, NEW k \in 1..Len(frames), DataKept(k), Good(frames, Before(k)),
         BasicHeaderOk(frames[k], Before(k).msg.op = "none"), BeginFrame(frames[k])
  PROVE  LET f == frames[k]
             b == Begun(Before(k), f)
             Current1 == IF f.op \in Control THEN m_control_msg' ELSE m_data_msg'
         IN /\ m_data_msg' \in Metadata /\ m_data_msg'.op \in {"none", "TEXT", "BINARY"}
            /\ m_control_msg' \in Metadata /\ m_control_msg'.op \in {"none"} \cup Control
            /\ m_current_msg' \in {"data", "control"}
            /\ Unwrapped(frames) => Len(m_data_msg'.payload) <= m_max_message_size
            /\ ec' \in BOOLEAN
            /\ ec' => f.op \in Data /\ ~(SizeSum(Len(b.payload), Len(f.payload)) <= m_max_message_size)
            /\ ~ec' =>
                 /\ Holds(Current1, b) /\ Current1.validator # "reject" /\ Current1.prepared_key = 0
                 /\ m_current_msg' = IF f.op \in Control THEN "control" ELSE "data"
                 /\ f.op \in Control => m_data_msg' = m_data_msg
                 /\ f.op \in Data => SizeSum(Len(b.payload), Len(f.payload)) <= m_max_message_size
<1> DEFINE f == frames[k]
           b == Begun(Before(k), f)
<1>1. /\ m_data_msg \in Metadata /\ m_data_msg.op \in {"none", "TEXT", "BINARY"}
      /\ m_control_msg \in Metadata /\ m_control_msg.op \in {"none"} \cup Control
      /\ m_current_msg \in {"data", "control"} /\ frames \in Seq(Frames) /\ ec = FALSE
  BY DEF TypeOK
<1>2. f \in Frames /\ Before(k).msg \in Message /\ f.op \in Op /\ Len(f.payload) \in Nat
  BY <1>1, FrameAt, FrameType
<1>3. /\ f.op \in Control \cup Data
      /\ f.op \in Control => f.fin /\ b = [op |-> f.op, payload |-> <<>>]
      /\ f.op \in Data => /\ b.op \in {"TEXT", "BINARY"}
                          /\ f.op = "CONTINUATION" => Before(k).msg.op # "none" /\ b = Before(k).msg
                          /\ f.op # "CONTINUATION" =>
                               Before(k).msg.op = "none" /\ b = [op |-> f.op, payload |-> <<>>]
      /\ b.op = "TEXT" => Utf8(b.payload) # "reject"
  <2> HIDE DEF f
  <2> QED
    BY <1>2, BegunOk DEF f
<1>4. (m_data_msg = NoMsg) = (Before(k).msg.op = "none") /\ Holds(m_data_msg, Before(k).msg)
  BY NoDataMsg DEF DataKept
<1>5. Control \cap Data = {} /\ "TEXT" \notin Control /\ 0 <= m_max_message_size
  BY ReaderAssumption DEF Control, Data
<1> HIDE DEF f, b
<1>6. CASE f.op \in Control
  <2>1. /\ m_control_msg' = NewMsg(f.op) /\ m_current_msg' = "control"
        /\ m_data_msg' = m_data_msg /\ ec' = FALSE
    BY <1>1, <1>6 DEF BeginFrame, f
  <2>2. /\ m_control_msg' \in Metadata /\ m_control_msg'.op = f.op
        /\ Holds(m_control_msg', b) /\ m_control_msg'.validator = "accept"
        /\ m_control_msg'.prepared_key = 0
    BY <1>2, <1>3, <1>6, <2>1, NewMsgHolds
  <2> QED
    BY <1>1, <1>5, <1>6, <2>1, <2>2 DEF Bounded, b, f
<1>7. CASE f.op \notin Control
  <2>0. f.op \in Data
    BY <1>3, <1>7
  <2>1. /\ ec' = TooBig(f)
        /\ m_data_msg' = IF ec' THEN m_data_msg
                         ELSE IF m_data_msg = NoMsg THEN NewMsg(f.op) ELSE NewKey(m_data_msg)
        /\ m_current_msg' = IF ec' THEN m_current_msg ELSE "data"
        /\ m_control_msg' = m_control_msg
    BY <1>7 DEF BeginFrame, f
  <2>2. ec' \in BOOLEAN /\ m_current_msg' \in {"data", "control"}
    <3>1. TooBig(f) \in BOOLEAN
      BY DEF TooBig
    <3>2. m_current_msg' \in {"data", "control"}
      BY <1>1, <2>1
    <3> QED
      BY <2>1, <3>1, <3>2
  <2>3. m_data_msg.payload = b.payload
    <3>1. CASE f.op = "CONTINUATION"
      BY <1>3, <1>4, <2>0, <3>1 DEF Holds
    <3>2. CASE f.op # "CONTINUATION"
      <4>1. m_data_msg = NoMsg /\ b.payload = <<>>
        BY <1>3, <1>4, <2>0, <3>2
      <4> QED
        BY <4>1 DEF NoMsg
    <3> QED
      BY <3>1, <3>2
  <2>4. b.payload \in Seq(Byte) /\ Len(b.payload) \in Nat
    <3>1. b.payload \in Seq(Byte)
      BY <1>1, <2>3 DEF Metadata
    <3> QED
      BY <3>1, LenProperties
  <2>5. ec' = ~(SizeSum(Len(b.payload), Len(f.payload)) <= m_max_message_size)
    <3>1. ec' = (SizeSum(Len(b.payload), Len(f.payload)) > m_max_message_size)
      BY <2>1, <2>3 DEF TooBig
    <3>2. \A x, z \in Nat : (x > z) = ~(x <= z)
      OBVIOUS
    <3>3. m_max_message_size \in Nat /\ SizeSum(Len(b.payload), Len(f.payload)) \in Nat
      BY <1>2, <2>4, SizeSumType, ReaderAssumption
    <3> QED
      BY <3>1, <3>2, <3>3
  <2>6. CASE ec'
    <3>1. m_data_msg' = m_data_msg
      BY <2>1, <2>6
    <3> QED
      BY <1>1, <2>0, <2>1, <2>2, <2>5, <2>6, <3>1 DEF Bounded, b, f
  <2>7. CASE ~ec'
    <3>1. m_current_msg' = "data"
      BY <2>1, <2>7
    <3>2. /\ m_data_msg' \in Metadata /\ m_data_msg'.op \in {"none", "TEXT", "BINARY"}
          /\ Holds(m_data_msg', b) /\ m_data_msg'.validator # "reject"
          /\ m_data_msg'.prepared_key = 0
      <4>1. CASE f.op = "CONTINUATION"
        <5>1. m_data_msg' = NewKey(m_data_msg) /\ b = Before(k).msg
          BY <1>3, <1>4, <2>0, <2>1, <2>7, <4>1
        <5>2. /\ m_data_msg' \in Metadata /\ m_data_msg'.op = m_data_msg.op
              /\ m_data_msg'.payload = m_data_msg.payload
              /\ m_data_msg'.validator = m_data_msg.validator /\ m_data_msg'.prepared_key = 0
          <6>1. m_data_msg' = [m_data_msg EXCEPT !.prepared_key = 0]
            BY <5>1 DEF NewKey
          <6>2. \A msg \in Metadata :
                  LET new == [msg EXCEPT !.prepared_key = 0] IN
                  /\ new \in Metadata /\ new.op = msg.op /\ new.payload = msg.payload
                  /\ new.validator = msg.validator /\ new.prepared_key = 0
            BY DEF Metadata
          <6> QED
            BY <1>1, <6>1, <6>2
        <5>3. Holds(m_data_msg', b)
          BY <1>4, <5>1, <5>2 DEF Holds
        <5>4. m_data_msg'.validator # "reject"
          BY <1>3, <5>3 DEF Holds, Validated
        <5> QED
          BY <1>1, <5>2, <5>3, <5>4
      <4>2. CASE f.op # "CONTINUATION"
        <5>1. m_data_msg' = NewMsg(f.op) /\ b = [op |-> f.op, payload |-> <<>>] /\ f.op \in {"TEXT", "BINARY"}
          BY <1>3, <1>4, <2>0, <2>1, <2>7, <4>2 DEF Data
        <5>2. /\ m_data_msg' \in Metadata /\ m_data_msg'.op = f.op
              /\ Holds(m_data_msg', b) /\ m_data_msg'.validator = "accept"
              /\ m_data_msg'.prepared_key = 0
          BY <1>2, <5>1, NewMsgHolds
        <5> QED
          BY <5>1, <5>2
      <4> QED
        BY <4>1, <4>2
    <3>3. Unwrapped(frames) => Len(m_data_msg'.payload) <= m_max_message_size
      <4>1. m_data_msg'.payload = m_data_msg.payload
        BY <2>3, <3>2 DEF Holds
      <4> QED
        BY <4>1 DEF Bounded
    <3>4. m_control_msg' \in Metadata /\ m_control_msg'.op \in {"none"} \cup Control
      BY <1>1, <2>1
    <3> QED
      BY <1>7, <2>2, <2>5, <2>7, <3>1, <3>2, <3>3, <3>4 DEF b, f
  <2> QED
    BY <2>2, <2>6, <2>7
<1> QED
  BY <1>6, <1>7

(* A step in the rest of the header, which may begin the payload (lines 411-474).     *)
LEMMA ExtendedHeaderStep ==
  ASSUME TypeOK, Bounded, ~ec, NEW k \in Nat, NEW j \in Nat, Place(k, j), InExtendedHeader(k, j),
         CopyExtendedHeader
  PROVE  ReaderInv'
<1> DEFINE f == frames[k]
           H == HeaderLen(f)
<1>1. /\ Take(ToRead) /\ m_state = "HEADER_EXTENDED" /\ m_bytes_needed = H - j /\ 2 <= j /\ j < H
      /\ m_extended_header' = m_extended_header \o SubSeq(unread, 1, ToRead)
      /\ m_basic_header = Span(k, 0, 2) /\ m_extended_header = Span(k, 2, j - 2) /\ DataKept(k)
      /\ BasicHeaderOk(f, Before(k).msg.op = "none") /\ k <= Len(frames)
      /\ UNCHANGED <<m_basic_header, delivered>> /\ Consuming
      /\ frames \in Seq(Frames)
  BY DEF CopyExtendedHeader, InExtendedHeader, BasicHeaderDone, TypeOK
<1>2. /\ m_data_msg \in Metadata /\ m_data_msg.op \in {"none", "TEXT", "BINARY"}
      /\ m_control_msg \in Metadata /\ m_control_msg.op \in {"none"} \cup Control
      /\ m_current_msg \in {"data", "control"} /\ ec = FALSE
  BY DEF TypeOK
<1>3. k \in 1..Len(frames)
  BY <1>1, LenProperties DEF Place
<1>4. /\ f \in Frames /\ H \in 2..14 /\ FrameLen(f) \in Nat /\ H <= FrameLen(f)
      /\ FrameLen(f) = H + Len(f.payload) /\ Len(f.payload) \in Nat
  BY <1>1, <1>3, FrameAt
<1> HIDE DEF H
<1>5. j + m_bytes_needed <= FrameLen(f)
  BY <1>1, <1>4
<1>6. PICK n \in Nat :
           /\ n = ToRead /\ n <= m_bytes_needed /\ k \in 1..Len(frames) /\ j + n \in Nat
           /\ SubSeq(unread, 1, n) = Span(k, j, n) /\ Place(k, j + n)' /\ frames' = frames
           /\ len' \in 0..Len(unread') /\ len' <= connection_read_buffer_size
  BY <1>1, <1>5, ReadsOn
<1>7. j + n <= H
  BY <1>1, <1>4, <1>6
<1>8. /\ m_extended_header' = Span(k, 2, (j + n) - 2)
      /\ Len(m_extended_header') = (j + n) - 2
  <2>1. 2 \in Nat /\ j - 2 \in Nat /\ 2 + (j - 2) = j /\ (j - 2) + n = (j + n) - 2 /\ (j + n) - 2 \in Nat
    <3>1. \A x, y \in Nat : 2 <= x => /\ x - 2 \in Nat /\ 2 + (x - 2) = x
                                     /\ (x - 2) + y = (x + y) - 2 /\ (x + y) - 2 \in Nat
      OBVIOUS
    <3>2. 2 <= j
      BY <1>1, ZenonT(60)
    <3> QED
      BY <3>1, <3>2, ZenonT(60)
  <2>2. Span(k, 2, j - 2) \o Span(k, j, n) = Span(k, 2, (j + n) - 2)
    <3>1. \A x, y, z \in Nat : Span(k, x, y) \o Span(k, x + y, z) = Span(k, x, y + z)
      BY SpanOnSpan
    <3>2. PICK p \in Nat : p = j - 2
      BY <2>1
    <3>3. Span(k, 2, p) \o Span(k, 2 + p, n) = Span(k, 2, p + n)
      BY <2>1, <3>1, ZenonT(60)
    <3>4. 2 + p = j /\ p + n = (j + n) - 2
      BY <2>1, <3>2
    <3> QED
      BY <3>2, <3>3, <3>4
  <2>3. Len(Span(k, 2, (j + n) - 2)) = (j + n) - 2
    BY <2>1, SpanIsWire, ZenonT(60)
  <2> QED
    BY <1>1, <1>6, <2>1, <2>2, <2>3
<1>9. /\ Header = f /\ Len(m_basic_header') = 2 /\ HeaderLen(Header)' = H
  <2>1. m_basic_header[1][1] = k /\ Header = f /\ Len(m_basic_header) = 2
    BY <1>1, <1>3, HeaderIs
  <2> QED
    BY <1>1, <1>6, <2>1 DEF Header, H
<1>10. Len(m_extended_header') <= H - 2 /\ H <= 14 /\ Len(m_basic_header') <= 2
  BY <1>4, <1>7, <1>8, <1>9
<1>11. CASE n < m_bytes_needed
  <2>1. /\ m_bytes_needed' = H - (j + n) /\ j + n < H /\ m_state' = "HEADER_EXTENDED" /\ ec' = FALSE
        /\ UNCHANGED msgs
    BY <1>1, <1>2, <1>4, <1>6, <1>11 DEF CopyExtendedHeader
  <2>2. UNCHANGED <<m_data_msg, m_control_msg, m_current_msg>> /\ m_bytes_needed' \in Nat
    BY <1>4, <1>6, <2>1 DEF msgs
  <2>3. InExtendedHeader(k, j + n)'
    <3>1. DataKept(k)'
      BY <1>1, <1>6, <2>2 DEF DataKept, Before
    <3>2. BasicHeaderDone(k)'
      BY <1>1, <1>6 DEF BasicHeaderDone, Before
    <3>3. 2 <= j + n
      BY <1>1, <1>6
    <3> QED
      BY <1>6, <1>8, <2>1, <3>1, <3>2, <3>3 DEF InExtendedHeader, H
  <2>4. TypeOK'
    BY <1>2, <1>6, <1>9, <1>10, <2>1, <2>2, TypeKept
  <2>5. ReadsTo(k, j + n)'
    BY <1>6, <2>1, <2>3 DEF ReadsTo, Reading
  <2>6. Bounded'
    BY <1>6, <2>2 DEF Bounded, Unwrapped
  <2> QED
    BY <1>6, <2>4, <2>5, <2>6 DEF ReaderInv
<1>12. CASE ~(n < m_bytes_needed)
  <2>0. n = m_bytes_needed
    <3>1. m_bytes_needed \in Nat
      BY DEF TypeOK
    <3> QED
      BY <1>6, <1>12, <3>1
  <2>1. j + n = H
    <3>1. n = H - j /\ H \in Nat
      BY <1>1, <1>4, <2>0
    <3> QED
      BY <3>1
  <2>2. CASE ~ExtendedHeaderOk(f)
    <3>1. ec' = TRUE /\ m_bytes_needed' = 0 /\ m_state' = "HEADER_EXTENDED" /\ UNCHANGED msgs
      BY <1>1, <1>6, <1>9, <1>12, <2>2 DEF CopyExtendedHeader
    <3>2. UNCHANGED <<m_data_msg, m_control_msg, m_current_msg>>
      BY <3>1 DEF msgs
    <3>3. TypeOK'
      BY <1>2, <1>6, <1>9, <1>10, <3>1, <3>2, TypeKept
    <3>4. Failed(k, j + n)'
      <4>1. ~Acceptable(Before(k), f)
        BY <2>2 DEF Acceptable
      <4> QED
        BY <1>6, <3>1, <4>1 DEF Failed, Before
    <3>5. Bounded'
      BY <1>6, <3>2 DEF Bounded, Unwrapped
    <3> QED
      BY <1>6, <3>1, <3>3, <3>4, <3>5 DEF ReaderInv, ReadsTo
  <2>3. CASE ExtendedHeaderOk(f)
    <3> DEFINE b == Begun(Before(k), f)
               Current1 == IF f.op \in Control THEN m_control_msg' ELSE m_data_msg'
    <3>1. m_state' = "APPLICATION" /\ m_bytes_needed' = Len(f.payload) /\ BeginFrame(f)
      BY <1>1, <1>6, <1>9, <1>12, <2>3 DEF CopyExtendedHeader
    <3>2. Good(frames, Before(k))
      BY DEF Place
    <3>3. /\ m_data_msg' \in Metadata /\ m_data_msg'.op \in {"none", "TEXT", "BINARY"}
          /\ m_control_msg' \in Metadata /\ m_control_msg'.op \in {"none"} \cup Control
          /\ m_current_msg' \in {"data", "control"}
          /\ Unwrapped(frames) => Len(m_data_msg'.payload) <= m_max_message_size
          /\ ec' \in BOOLEAN
          /\ ec' => f.op \in Data /\ ~(SizeSum(Len(b.payload), Len(f.payload)) <= m_max_message_size)
          /\ ~ec' =>
               /\ Holds(Current1, b) /\ Current1.validator # "reject" /\ Current1.prepared_key = 0
               /\ m_current_msg' = IF f.op \in Control THEN "control" ELSE "data"
               /\ f.op \in Control => m_data_msg' = m_data_msg
               /\ f.op \in Data => SizeSum(Len(b.payload), Len(f.payload)) <= m_max_message_size
      BY <1>1, <1>3, <3>1, <3>2, BeginsFrame
    <3>4. TypeOK'
      BY <1>4, <1>6, <1>9, <1>10, <3>1, <3>3, TypeKept
    <3>5. Bounded'
      BY <1>6, <3>3 DEF Bounded, Unwrapped
    <3>6. Before(k).msg \in Message /\ Before(k)' = Before(k)
      BY <1>1, <1>3, <1>6, FrameAt DEF Before
    <3>7. CASE ec'
      <4>1. ~Acceptable(Before(k), f)
        BY <3>3, <3>7 DEF Acceptable
      <4>2. Failed(k, j + n)'
        BY <1>6, <3>1, <3>6, <4>1 DEF Failed
      <4> QED
        BY <1>6, <3>4, <3>5, <3>7, <4>2 DEF ReaderInv, ReadsTo
    <3>8. CASE ~ec'
      <4>1. Current' = Current1
        BY <3>3, <3>8 DEF Current
      <4>2. Part(Before(k), f, 0).op = b.op /\ Part(Before(k), f, 0).payload = b.payload
        BY <1>4, <3>6, PartNone
      <4>3. Holds(Current', Part(Before(k), f, 0))
        BY <3>3, <3>8, <4>1, <4>2 DEF Holds, Validated
      <4>4. HeaderDone(k)'
        <5>1. BasicHeaderDone(k)'
          BY <1>1, <1>6, <3>6 DEF BasicHeaderDone
        <5>2. f.op \in Control => DataKept(k)'
          BY <1>1, <3>3, <3>6, <3>8 DEF DataKept
        <5>3. m_extended_header' = Span(k, 2, H - 2)
          BY <1>8, <2>1
        <5> QED
          BY <1>6, <2>3, <3>3, <3>6, <3>8, <5>1, <5>2, <5>3 DEF HeaderDone, H
      <4>5. H - H = 0 /\ 0 % 4 = 0 /\ FrameLen(f) - H = Len(f.payload) /\ H <= H
        BY <1>4
      <4>6. /\ frames'[k] = f /\ HeaderLen(f) = j + n
            /\ (j + n) - (j + n) = 0 /\ 0 % 4 = 0 /\ FrameLen(f) - (j + n) = Len(f.payload)
            /\ j + n <= j + n
        BY <1>4, <1>6, <2>1 DEF H
      <4>7. InPayload(k, j + n)'
        <5>1. /\ Holds(Current', Part(Before(k), f, (j + n) - (j + n)))
              /\ Current'.prepared_key = ((j + n) - (j + n)) % 4
          BY <3>3, <3>8, <4>1, <4>3, <4>6
        <5>2. Current'.validator # "reject"
          BY <3>3, <3>8, <4>1
        <5> HIDE DEF f
        <5> QED
          BY <3>1, <3>6, <4>4, <4>6, <5>1, <5>2 DEF InPayload
      <4>8. ReadsTo(k, j + n)'
        BY <1>6, <3>8, <4>7 DEF ReadsTo, Reading
      <4> QED
        BY <1>6, <3>4, <3>5, <4>8 DEF ReaderInv
    <3> QED
      BY <3>7, <3>8
  <2> QED
    BY <2>2, <2>3
<1> QED
  BY <1>11, <1>12

(* The header of the k-th frame was read, p bytes of its payload were, and the n that *)
(* follow are the next ones to come.                                            *)
NextInPayload(k, p, n) ==
  /\ k \in 1..Len(frames) /\ p \in Nat /\ n \in Nat /\ p + n <= Len(frames[k].payload)
  /\ m_basic_header = Span(k, 0, 2)
  /\ m_extended_header = Span(k, 2, HeaderLen(frames[k]) - 2)
  /\ \A i \in 1..n : unread[i] = <<k, (HeaderLen(frames[k]) + p) + i>>

(* The bytes of the payload come out as they were sent: the header is whole, and the *)
(* key goes on where the last bytes left it.                                      *)
LEMMA UnmaskedIsPayload ==
  ASSUME frames \in Seq(Frames), NEW k, NEW p, NEW n, NextInPayload(k, p, n)
  PROVE  [i \in 1..n |-> Unmasked(unread[i], (p % 4) + i - 1)]
           = SubSeq(frames[k].payload, p + 1, p + n)
<1> USE DEF NextInPayload
<1>1. PICK f \in Frames : f = frames[k] /\ Header = f
  BY HeaderIs
<1>2. PICK H \in 2..14 : H = HeaderLen(f)
  BY <1>1, FrameType
<1>3. m_basic_header[1][1] = k /\ k \in Nat
  BY HeaderIs
<1>4. f.payload \in Seq(Byte) /\ Len(f.payload) \in Nat
  BY FrameType
<1>5. HeaderIsWhole
  <2>1. PICK h \in Nat : h = H - 2
    OBVIOUS
  <2>2. Span(k, 0, 2) \o Span(k, 0 + 2, h) = Span(k, 0, 2 + h)
    <3>1. \A x, y, z \in Nat : Span(k, x, y) \o Span(k, x + y, z) = Span(k, x, y + z)
      BY <1>3, SpanOnSpan
    <3> QED
      BY <3>1
  <2>3. 0 + 2 = 2 /\ 2 + h = H
    BY <2>1
  <2>4. m_basic_header \o m_extended_header = Span(k, 0, H)
    BY <1>1, <1>2, <2>1, <2>2, <2>3
  <2>5. Span(k, 0, H) = [i \in 1..H |-> <<k, i>>]
    BY DEF Span
  <2> QED
    BY <1>1, <1>2, <1>3, <2>4, <2>5 DEF HeaderIsWhole
<1>6. ASSUME NEW i \in 1..n PROVE Unmasked(unread[i], (p % 4) + i - 1) = f.payload[p + i]
  <2>1. unread[i] = <<k, (H + p) + i>>
    BY <1>1, <1>2
  <2>2. /\ ((H + p) + i) - H - 1 = (p + i) - 1 /\ (p + i) - 1 >= 0 /\ ((p + i) - 1) + 1 = p + i
        /\ ((p % 4) + i - 1) % 4 = ((p + i) - 1) % 4
    OBVIOUS
  <2>3. unread[i][1] = k /\ unread[i][2] = (H + p) + i
    BY <2>1
  <2>4. unread[i][2] - HeaderLen(Header) - 1 = (p + i) - 1
    BY <1>1, <1>2, <2>2, <2>3
  <2> QED
    BY <1>1, <1>3, <1>5, <2>2, <2>3, <2>4 DEF Unmasked
<1> DEFINE b == [i \in 1..n |-> Unmasked(unread[i], (p % 4) + i - 1)]
           t == SubSeq(f.payload, p + 1, p + n)
<1>7. \A i \in 1..n : b[i] = f.payload[p + i]
  BY <1>6
<1>8. \A i \in 1..n : f.payload[p + i] \in Byte
  <2>1. \A i \in 1..n : p + i \in 1..Len(f.payload)
    BY <1>1, <1>4
  <2> QED
    BY <1>4, <2>1, ElementOfSeq
<1>9. b \in Seq(Byte) /\ Len(b) = n
  <2>1. b \in [1..n -> Byte]
    BY <1>7, <1>8
  <2> QED
    BY <2>1, FunctionIsSeq
<1>10. t \in Seq(Byte) /\ Len(t) = n /\ \A i \in 1..n : t[i] = f.payload[p + i]
  <2>1. p + 1 \in Int /\ p + n \in Int /\ (p + n) - (p + 1) + 1 = n
        /\ (IF p + 1 <= p + n THEN (p + n) - (p + 1) + 1 ELSE 0) = n
        /\ \A i \in 1..n : (p + 1) + i - 1 = p + i
    OBVIOUS
  <2>2. \A i \in (p + 1)..(p + n) : f.payload[i] \in Byte
    <3>1. \A i \in (p + 1)..(p + n) : i \in 1..Len(f.payload)
      BY <1>1, <1>4
    <3> QED
      BY <1>4, <3>1, ElementOfSeq
  <2>3. /\ t \in Seq(Byte) /\ Len(t) = IF p + 1 <= p + n THEN (p + n) - (p + 1) + 1 ELSE 0
        /\ \A i \in 1..((p + n) - (p + 1) + 1) : t[i] = f.payload[(p + 1) + i - 1]
    BY <2>1, <2>2, SubSeqProperties
  <2> HIDE DEF t
  <2> QED
    BY <2>1, <2>3
<1> HIDE DEF b, t
<1>11. b = t
  BY <1>7, <1>9, <1>10, SeqEqual
<1> QED
  BY <1>1, <1>11 DEF b, t

(* The metadata hold the frame's message with the first p bytes of its payload, and   *)
(* the key is the one for the next byte.                                         *)
HoldsPart(meta, m, f, p) == Holds(meta, Part(m, f, p)) /\ meta.prepared_key = p % 4

(* What Received makes of the metadata of the frame's message.                    *)
LEMMA ReceivedHolds ==
  ASSUME frames \in Seq(Frames), NEW k, NEW p, NEW n, NextInPayload(k, p, n),
         NEW m, m.msg \in Message, NEW meta \in Metadata, HoldsPart(meta, m, frames[k], p)
  PROVE  /\ Received(meta, n) \in Metadata /\ Received(meta, n).op = meta.op
         /\ HoldsPart(Received(meta, n), m, frames[k], p + n)
<1> USE DEF NextInPayload, HoldsPart
<1>1. PICK f \in Frames : f = frames[k]
  BY HeaderIs
<1>2. f.payload \in Seq(Byte) /\ Len(f.payload) \in Nat
  BY FrameType
<1>3. PICK t : t = SubSeq(f.payload, p + 1, p + n)
  OBVIOUS
<1>4. [i \in 1..n |-> Unmasked(unread[i], (p % 4) + i - 1)] = t
  <2> HIDE DEF NextInPayload
  <2> QED
    BY <1>1, <1>3, UnmaskedIsPayload
<1>5. [i \in 1..n |-> Unmasked(unread[i], meta.prepared_key + i - 1)] = t
  BY <1>4
<1>6. t \in Seq(Byte) /\ Part(m, f, p + n).payload = Part(m, f, p).payload \o t
  BY <1>1, <1>3, PartMore
<1>7. p \in 0..Len(f.payload) /\ p + n \in 0..Len(f.payload)
  <2>1. PICK L \in Nat : L = Len(f.payload) /\ p + n <= L
    BY <1>1, <1>2
  <2>2. \A x, y, z \in Nat : x + y <= z => x \in 0..z /\ x + y \in 0..z
    OBVIOUS
  <2> QED
    BY <2>1, <2>2
<1>8. /\ Part(m, f, p).op = Begun(m, f).op /\ Part(m, f, p + n).op = Begun(m, f).op
      /\ Part(m, f, p).payload \in Seq(Byte)
  BY <1>7, PartType, ZenonT(60) DEF Message
<1> DEFINE load == meta.payload \o t
           key == Rotated(meta.prepared_key, n)
           valid == IF meta.op = "TEXT" THEN DecodeFrom(meta.validator, t) ELSE meta.validator
<1>9. Received(meta, n) = [meta EXCEPT !.payload = load, !.prepared_key = key, !.validator = valid]
  BY <1>5 DEF Received
<1>10. load \in Seq(Byte) /\ load = Part(m, f, p + n).payload
  BY <1>1, <1>6, <1>8, ConcatProperties DEF Holds
<1>11. key = (p + n) % 4 /\ key \in 0..3
  <2>1. ((p % 4) + n) % 4 = (p + n) % 4 /\ (p + n) % 4 \in 0..3
    OBVIOUS
  <2> QED
    BY <2>1 DEF Rotated
<1>12. valid \in Utf8State
  BY <1>6, DecodeFromType DEF Metadata
<1>13. valid = Validated(Part(m, f, p + n))
  <2>1. meta.op = Begun(m, f).op /\ meta.validator = Validated(Part(m, f, p))
    BY <1>1, <1>8 DEF Holds
  <2>2. CASE meta.op = "TEXT"
    <3>1. meta.validator = Utf8(Part(m, f, p).payload)
      BY <1>8, <2>1, <2>2 DEF Validated
    <3>2. Utf8(Part(m, f, p).payload \o t) = DecodeFrom(Utf8(Part(m, f, p).payload), t)
      BY <1>6, <1>8, Utf8Facts
    <3> QED
      BY <1>6, <1>8, <2>1, <2>2, <3>1, <3>2 DEF Validated
  <2>3. CASE meta.op # "TEXT"
    BY <1>8, <2>1, <2>3 DEF Validated
  <2> QED
    BY <2>2, <2>3
<1> HIDE DEF load, key, valid
<1>14. PICK r : r = Received(meta, n)
  OBVIOUS
<1>15. r = [op |-> meta.op, payload |-> load, prepared_key |-> key, validator |-> valid]
  BY <1>9, <1>14 DEF Metadata
<1>16. /\ r \in Metadata /\ r.op = meta.op /\ r.payload = load /\ r.prepared_key = key
       /\ r.validator = valid
  BY <1>10, <1>11, <1>12, <1>15 DEF Metadata
<1>17. Holds(r, Part(m, f, p + n))
  BY <1>1, <1>8, <1>10, <1>13, <1>16 DEF Holds
<1> QED
  BY <1>1, <1>11, <1>14, <1>16, <1>17

(* What is rejected in a part of a frame's payload is so in the whole.              *)
LEMMA RejectedPart ==
  ASSUME NEW m, m.msg \in Message, NEW f \in Frames, NEW i \in 0..Len(f.payload),
         Validated(Part(m, f, i)) = "reject"
  PROVE  ~Acceptable(m, f)
<1>1. Len(f.payload) \in Nat
  BY FrameType
<1>2. PICK n \in Nat : i + n = Len(f.payload)
  <2>1. Len(f.payload) - i \in Nat /\ i + (Len(f.payload) - i) = Len(f.payload)
    BY <1>1
  <2> QED
    BY <2>1
<1>3. PICK t \in Seq(Byte) : Part(m, f, i + n).payload = Part(m, f, i).payload \o t
  <2>1. i \in Nat /\ i + n <= Len(f.payload)
    BY <1>1, <1>2
  <2>2. /\ SubSeq(f.payload, i + 1, i + n) \in Seq(Byte)
        /\ Part(m, f, i + n).payload = Part(m, f, i).payload \o SubSeq(f.payload, i + 1, i + n)
    BY <2>1, PartMore
  <2> QED
    BY <2>2
<1>4. /\ Part(m, f, i).op = Begun(m, f).op /\ Part(m, f, i + n).op = Begun(m, f).op
      /\ Part(m, f, i).payload \in Seq(Byte)
  <2>1. i + n \in 0..Len(f.payload)
    BY <1>1, <1>2
  <2> QED
    BY <2>1, PartType, ZenonT(60) DEF Message
<1>5. Part(m, f, i).op = "TEXT" /\ Utf8(Part(m, f, i).payload) = "reject"
  BY DEF Validated
<1>6. Utf8(Part(m, f, i + n).payload) = "reject"
  BY <1>3, <1>4, <1>5, Utf8Facts, RejectStays
<1>7. Part(m, f, i + n) = Longer(m, f)
  BY <1>2, PartAll
<1> QED
  BY <1>4, <1>5, <1>6, <1>7 DEF Acceptable

(* From the end of an acceptable frame the reader is at the start of the next one.   *)
LEMMA NextPlace ==
  ASSUME frames \in Seq(Frames), NEW k \in 1..Len(frames),
         Before(k).ok, Good(frames, Before(k)), Acceptable(Before(k), frames[k]),
         frames' = frames, unread' = At(frames, k, FrameLen(frames[k])),
         delivered' = Before(k + 1).out
  PROVE  Place(k + 1, 0)' /\ k + 1 \in Nat
<1>1. /\ Before(k) \in Outcome /\ Before(k + 1) = Meaning(Before(k), frames[k])
      /\ k \in Nat /\ Len(frames) \in Nat
  BY FrameAt
<1>2. Before(k + 1).ok /\ Good(frames, Before(k + 1))
  BY <1>1, IsAcceptable, GoodMeaning
<1>3. unread' = At(frames, k + 1, 0)
  BY AtEnd
<1>4. /\ k + 1 \in 1..(Len(frames) + 1) /\ 0 \in Nat
      /\ k + 1 <= Len(frames) => 0 <= FrameLen(frames[k + 1])
  <2>1. k + 1 \in 1..(Len(frames) + 1) /\ (k + 1 <= Len(frames) => k + 1 \in 1..Len(frames))
    BY <1>1
  <2>2. k + 1 \in 1..Len(frames) => FrameLen(frames[k + 1]) \in Nat
    BY FrameAt
  <2> QED
    BY <2>1, <2>2
<1>5. Before(k + 1)' = Before(k + 1)
  BY DEF Before
<1> QED
  BY <1>1, <1>2, <1>3, <1>4, <1>5 DEF Place

(* A step in the payload: a part of it, the end of the frame, or the end of the       *)
(* message (lines 477-500).                                                    *)
LEMMA PayloadStep ==
  ASSUME TypeOK, Bounded, ~ec, NEW k \in Nat, NEW j \in Nat, Place(k, j), InPayload(k, j),
         ProcessPayload
  PROVE  ReaderInv'
<1>1. /\ Consuming /\ m_state = "APPLICATION" /\ frames \in Seq(Frames) /\ ec = FALSE
      /\ UNCHANGED <<m_current_msg, delivered>>
  BY DEF ProcessPayload, TypeOK
<1>2. /\ m_data_msg \in Metadata /\ m_data_msg.op \in {"none", "TEXT", "BINARY"}
      /\ m_control_msg \in Metadata /\ m_control_msg.op \in {"none"} \cup Control
      /\ m_current_msg \in {"data", "control"}
      /\ len \in 0..Len(unread) /\ len <= connection_read_buffer_size
      /\ m_bytes_needed \in Nat
  BY DEF TypeOK
<1>3. HeaderDone(k) /\ k <= Len(frames) /\ Good(frames, Before(k))
  BY DEF InPayload, HeaderDone, BasicHeaderDone, Place
<1>4. PICK n : n = ToRead
  OBVIOUS
<1>5. /\ k \in 1..Len(frames) /\ j \in 0..FrameLen(frames[k])
      /\ n \in Nat /\ n <= len /\ n <= m_bytes_needed
  BY <1>1, <1>3, <1>4, BytesToTake
<1>6. PICK f \in Frames : f = frames[k]
  BY <1>1, <1>5, FrameAt
<1>7. PICK L \in Nat : L = FrameLen(f)
  BY FrameType
<1>8. PICK H \in 2..14 : H = HeaderLen(f)
  BY FrameType
<1>9. PICK M \in Outcome : M = Before(k)
  BY <1>1, <1>5, FrameAt
<1>10. PICK l \in Nat : l = Len(f.payload)
  BY FrameType
<1>11. L = H + l
  BY <1>7, <1>8, <1>10 DEF FrameLen
<1>12. /\ H <= j /\ m_bytes_needed = L - j
       /\ Holds(Current, Part(M, f, j - H)) /\ Current.validator # "reject"
       /\ Current.prepared_key = (j - H) % 4
  BY <1>1, <1>6, <1>7, <1>8, <1>9 DEF InPayload
<1>13. PICK p \in Nat : p = j - H
  BY <1>12
<1>14. n <= L - j /\ j <= L
  BY <1>5, <1>6, <1>7, <1>12
<1>15. /\ j = H + p /\ p + n <= l /\ p + n \in Nat /\ j + n = H + (p + n) /\ (j + n) - H = p + n
       /\ n \in 0..(L - j) /\ j + n <= L /\ j + n \in Nat
  BY <1>5, <1>11, <1>13, <1>14
<1>16. M.msg \in Message
  BY DEF Outcome
<1>17. /\ m_basic_header = Span(k, 0, 2) /\ m_extended_header = Span(k, 2, H - 2)
       /\ m_current_msg = IF f.op \in Control THEN "control" ELSE "data"
       /\ f.op \in Control => DataKept(k)
       /\ f.op \in Data => SizeSum(Len(Begun(M, f).payload), l) <= m_max_message_size
       /\ BasicHeaderOk(f, M.msg.op = "none") /\ ExtendedHeaderOk(f)
  BY <1>3, <1>6, <1>8, <1>9, <1>10 DEF HeaderDone, BasicHeaderDone
<1>18. \A i \in 1..n : unread[i] = <<k, (H + p) + i>>
  <2>1. unread = At(frames, k, j)
    BY DEF Place
  <2>2. \A i \in 1..(L - j) : unread[i] = <<k, j + i>>
    BY <1>1, <1>5, <1>6, <1>7, <2>1, AtFrame
  <2>3. \A i \in 1..n : i \in 1..(L - j)
    BY <1>5, <1>14
  <2> QED
    BY <1>15, <2>2, <2>3
<1>19. PICK r : r = Received(Current, n)
  OBVIOUS
<1>20. Current \in Metadata
  BY <1>2 DEF Current
<1>21. /\ r \in Metadata /\ r.op = Current.op
       /\ Holds(r, Part(M, f, p + n)) /\ r.prepared_key = (p + n) % 4
  <2>1. NextInPayload(k, p, n)
    BY <1>5, <1>6, <1>8, <1>10, <1>15, <1>17, <1>18 DEF NextInPayload
  <2>2. PICK cur \in Metadata : cur = Current
    BY <1>20
  <2>3. HoldsPart(cur, M, frames[k], p)
    BY <1>6, <1>12, <1>13, <2>2 DEF HoldsPart
  <2>4. /\ Received(cur, n) \in Metadata /\ Received(cur, n).op = cur.op
        /\ HoldsPart(Received(cur, n), M, frames[k], p + n)
    BY <1>1, <1>16, <2>1, <2>3, ReceivedHolds
  <2> QED
    BY <1>6, <1>19, <2>2, <2>4 DEF HoldsPart
<1>22. /\ Part(M, f, p + n) \in Message /\ Part(M, f, p + n).op = Begun(M, f).op
       /\ Len(Part(M, f, p + n).payload) = Len(Begun(M, f).payload) + (p + n)
       /\ Len(Begun(M, f).payload) \in Nat
  <2>1. p + n \in 0..Len(f.payload)
    BY <1>10, <1>15
  <2> QED
    BY <1>16, <2>1, PartType
<1>23. /\ f.op \in Control \cup Data
       /\ f.op \in Control => f.fin /\ Begun(M, f).op = f.op
       /\ f.op \in Data => /\ Begun(M, f).op \in {"TEXT", "BINARY"}
                           /\ f.op # "CONTINUATION" => Begun(M, f).op = f.op
  BY <1>3, <1>9, <1>16, <1>17, BegunOk
<1>24. /\ f.op \in Control => Current = m_control_msg /\ m_control_msg' = r /\ m_data_msg' = m_data_msg
       /\ f.op \notin Control => Current = m_data_msg /\ m_data_msg' = r /\ m_control_msg' = m_control_msg
  BY <1>4, <1>17, <1>19 DEF Current, ProcessPayload
<1>25. Current' = r
  BY <1>1, <1>17, <1>24 DEF Current
<1>26. /\ m_data_msg' \in Metadata /\ m_data_msg'.op \in {"none", "TEXT", "BINARY"}
       /\ m_control_msg' \in Metadata /\ m_control_msg'.op \in {"none"} \cup Control
       /\ m_current_msg' \in {"data", "control"}
  BY <1>1, <1>2, <1>21, <1>22, <1>23, <1>24 DEF Holds
<1>31. frames' = frames
  BY DEF ProcessPayload, Take, stream
<1>27. Bounded'
  <2> SUFFICES ASSUME Unwrapped(frames) PROVE Len(m_data_msg'.payload) <= m_max_message_size
    BY <1>31 DEF Bounded, Unwrapped
  <2>1. CASE f.op \in Control
    BY <1>24, <2>1 DEF Bounded
  <2>2. CASE f.op \notin Control
    <3>1. PICK b \in Nat : b = Len(Begun(M, f).payload)
      BY <1>22
    <3>2. Len(m_data_msg'.payload) = b + (p + n)
      BY <1>21, <1>22, <1>24, <2>2, <3>1 DEF Holds
    <3>3. b + l <= m_max_message_size /\ m_max_message_size \in Nat
      <4>1. SizeSum(Len(Begun(M, frames[k]).payload), Len(frames[k].payload)) <= m_max_message_size
        BY <1>6, <1>10, <1>17, <1>23, <2>2
      <4>2. Len(Begun(M, frames[k]).payload) + Len(frames[k].payload) <= m_max_message_size
        BY <1>1, <1>3, <1>5, <1>9, <1>16, <4>1, SumFits
      <4> QED
        BY <1>6, <1>10, <3>1, <4>2, ReaderAssumption
    <3>4. b + (p + n) <= m_max_message_size
      BY <1>15, <3>3
    <3> QED
      BY <3>2, <3>4
  <2> QED
    BY <2>1, <2>2
<1>28. Header = f /\ Len(m_basic_header) = 2 /\ Len(m_extended_header) = H - 2
  <2>1. Header = f /\ Len(m_basic_header) = 2
    BY <1>1, <1>5, <1>6, <1>17, HeaderIs
  <2>2. H - 2 \in Nat /\ 2 \in Nat
    OBVIOUS
  <2>3. Len(Span(k, 2, H - 2)) = H - 2
    BY <2>2, SpanIsWire
  <2> QED
    BY <1>17, <2>1, <2>3
<1>29. CASE r.validator = "reject"
  <2>1. /\ ec' = TRUE /\ UNCHANGED <<stream, m_state, m_bytes_needed, header>>
    BY <1>4, <1>19, <1>29 DEF ProcessPayload
  <2>2. /\ frames' = frames /\ unread' = unread /\ len' = len
        /\ m_basic_header' = m_basic_header /\ m_extended_header' = m_extended_header
        /\ m_state' = "APPLICATION" /\ m_bytes_needed' = m_bytes_needed
    BY <1>1, <2>1 DEF stream, header
  <2>3. HeaderLen(Header)' = H
    BY <1>8, <1>28, <2>2 DEF Header
  <2>4. TypeOK'
    <3>1. 2 <= 2 /\ H <= 14 /\ H - 2 <= H - 2
      OBVIOUS
    <3> QED
      BY <1>2, <1>26, <1>28, <2>1, <2>2, <2>3, <3>1, TypeKept
  <2>5. Place(k, j)'
    BY <1>1, <2>2 DEF Place, Before
  <2>6. ~Acceptable(M, f)
    <3>1. Validated(Part(M, f, p + n)) = "reject"
      BY <1>21, <1>29 DEF Holds
    <3>2. p + n \in 0..Len(f.payload)
      BY <1>10, <1>15
    <3> QED
      BY <1>16, <3>1, <3>2, RejectedPart
  <2>7. Failed(k, j)'
    BY <1>3, <1>6, <1>9, <2>2, <2>5, <2>6 DEF Failed, Before
  <2> QED
    BY <1>27, <2>1, <2>4, <2>7 DEF ReaderInv, ReadsTo
<1>30. CASE r.validator # "reject"
  <2>1. /\ Take(n)
        /\ IF n < m_bytes_needed
           THEN m_bytes_needed' = m_bytes_needed - n /\ UNCHANGED <<m_state, header, ec>>
           ELSE IF f.fin
           THEN /\ ec' = ~Finalized(r)
                /\ m_state' = IF ec' THEN m_state ELSE "READY"
                /\ m_bytes_needed' = 0
                /\ UNCHANGED header
           ELSE /\ m_state' = "HEADER_BASIC" /\ m_bytes_needed' = 2
                /\ m_basic_header' = <<>> /\ m_extended_header' = <<>>
                /\ UNCHANGED ec
    BY <1>4, <1>19, <1>28, <1>30 DEF ProcessPayload
  <2>2. /\ unread' = At(frames, k, j + n) /\ frames' = frames
        /\ len' \in 0..Len(unread') /\ len' <= connection_read_buffer_size
    <3>1. unread = At(frames, k, j) /\ n \in 0..(FrameLen(frames[k]) - j)
      BY <1>6, <1>7, <1>15 DEF Place
    <3> QED
      BY <1>5, <2>1, <3>1, TakeAt
  <2>3. Place(k, j + n)'
    BY <1>1, <1>5, <1>6, <1>7, <1>15, <2>2, TakenInPlace
  <2>4. f.op = "TEXT" => r.validator = Utf8(Part(M, f, p + n).payload)
    <3>1. f.op = "TEXT" => f.op \in Data /\ f.op # "CONTINUATION"
      BY DEF Data
    <3> QED
      BY <1>21, <1>22, <1>23, <3>1 DEF Holds, Validated
  <2>5. ASSUME UNCHANGED header
        PROVE  /\ HeaderDone(k)' /\ HeaderLen(Header)' = H
               /\ Len(m_basic_header') <= 2 /\ H <= 14 /\ Len(m_extended_header') <= H - 2
    <3>1. m_basic_header' = m_basic_header /\ m_extended_header' = m_extended_header
      BY <2>5 DEF header
    <3>2. Before(k)' = Before(k) /\ frames' = frames
      BY <2>2 DEF Before
    <3>3. f.op \in Control => DataKept(k)'
      BY <1>17, <1>24, <3>2 DEF DataKept
    <3>4. BasicHeaderDone(k)'
      BY <1>3, <3>1, <3>2 DEF HeaderDone, BasicHeaderDone
    <3>5. HeaderDone(k)'
      BY <1>1, <1>3, <1>6, <3>1, <3>2, <3>3, <3>4 DEF HeaderDone
    <3>6. HeaderLen(Header)' = H
      BY <1>8, <1>28, <3>1, <3>2 DEF Header
    <3>7. 2 <= 2 /\ H <= 14 /\ H - 2 <= H - 2
      OBVIOUS
    <3> QED
      BY <1>28, <3>1, <3>5, <3>6, <3>7
  <2>6. CASE n < m_bytes_needed
    <3>1. m_bytes_needed' = L - (j + n) /\ m_state' = "APPLICATION" /\ ec' = FALSE /\ UNCHANGED header
          /\ m_bytes_needed' \in Nat
      BY <1>1, <1>5, <1>12, <1>15, <2>1, <2>6
    <3>2. TypeOK'
      BY <1>26, <2>2, <2>5, <3>1, TypeKept
    <3>3. H <= j + n
      BY <1>15
    <3>4. InPayload(k, j + n)'
      <4>1. HeaderDone(k)' /\ frames' = frames /\ Before(k)' = M
        BY <1>9, <2>2, <2>5, <3>1 DEF Before
      <4> QED
        BY <1>6, <1>7, <1>8, <1>15, <1>21, <1>25, <1>30, <3>1, <3>3, <4>1 DEF InPayload
    <3>5. ReadsTo(k, j + n)'
      BY <2>3, <3>1, <3>4 DEF ReadsTo, Reading
    <3> QED
      BY <1>15, <1>27, <3>2, <3>5 DEF ReaderInv
  <2>7. CASE ~(n < m_bytes_needed)
    <3>1. n = L - j
      BY <1>2, <1>5, <1>12, <2>7
    <3>2. j + n = L /\ p + n = l
      BY <1>11, <1>14, <1>15, <3>1
    <3>3. Part(M, f, p + n) = Longer(M, f)
      BY <1>10, <1>16, <3>2, PartAll
    <3>4. Acceptable(M, f) \/ (f.op = "TEXT" /\ f.fin /\ r.validator # "accept")
      <4>1. f.op \in Data => SizeSum(Len(Begun(M, f).payload), Len(f.payload)) <= m_max_message_size
        BY <1>10, <1>17
      <4>2. Longer(M, f).op = "TEXT" => Utf8(Longer(M, f).payload) # "reject"
        BY <1>21, <1>30, <3>3 DEF Holds, Validated
      <4>3. f.op = "TEXT" /\ f.fin => r.validator = Utf8(Longer(M, f).payload)
        BY <2>4, <3>3
      <4> QED
        BY <1>17, <4>1, <4>2, <4>3 DEF Acceptable
    <3>5. CASE f.fin
      <4>1. /\ ec' = ~Finalized(r) /\ m_state' = (IF ec' THEN "APPLICATION" ELSE "READY")
            /\ m_bytes_needed' = 0 /\ UNCHANGED header
        BY <1>1, <2>1, <2>7, <3>5
      <4>2. TypeOK'
        <5>1. ec' \in BOOLEAN
          BY <4>1 DEF Finalized
        <5>2. m_state' \in {"HEADER_BASIC", "HEADER_EXTENDED", "APPLICATION", "READY"}
          BY <4>1
        <5> QED
          BY <1>26, <2>2, <2>5, <4>1, <5>1, <5>2, TypeKept
      <4>3. CASE ec'
        <5>1. f.op = "TEXT" /\ r.validator # "accept"
          BY <1>28, <4>1, <4>3 DEF Finalized
        <5>2. ~Acceptable(M, f)
          BY <2>4, <3>3, <3>5, <5>1 DEF Acceptable
        <5>3. Failed(k, j + n)'
          BY <1>3, <1>6, <1>9, <2>2, <2>3, <4>1, <4>3, <5>2 DEF Failed, Before
        <5> QED
          BY <1>15, <1>27, <4>2, <4>3, <5>3 DEF ReaderInv, ReadsTo
      <4>4. CASE ~ec'
        <5>1. f.op = "TEXT" => r.validator = "accept"
          BY <1>28, <4>1, <4>4 DEF Finalized
        <5>2. H <= j + n /\ L - (j + n) = 0
          BY <1>15, <3>2
        <5>3. InPayload(k, j + n)'
          <6>1. HeaderDone(k)' /\ frames' = frames /\ Before(k)' = M
            BY <1>9, <2>2, <2>5, <4>1 DEF Before
          <6>2. m_state' = "READY" /\ m_bytes_needed' = 0
            BY <4>1, <4>4
          <6> QED
            BY <1>6, <1>7, <1>8, <1>15, <1>21, <1>25, <1>30, <3>2, <3>5, <5>1, <5>2, <6>1, <6>2
            DEF InPayload
        <5>4. ReadsTo(k, j + n)'
          BY <2>3, <4>4, <5>3 DEF ReadsTo, Reading
        <5> QED
          BY <1>15, <1>27, <4>2, <5>4 DEF ReaderInv
      <4> QED
        BY <4>3, <4>4
    <3>6. CASE ~f.fin
      <4>1. /\ m_state' = "HEADER_BASIC" /\ m_bytes_needed' = 2 /\ ec' = FALSE
            /\ m_basic_header' = <<>> /\ m_extended_header' = <<>>
        BY <1>1, <2>1, <2>7, <3>6
      <4>2. Len(m_basic_header') <= 2
        BY <4>1, EmptySeq
      <4>3. TypeOK'
        BY <1>26, <2>2, <4>1, <4>2, TypeKept
      <4>4. f.op \notin Control /\ f.op \in Data /\ Acceptable(M, f)
        BY <1>23, <3>4, <3>6
      <4>5. /\ Before(k + 1) = Meaning(M, f) /\ Before(k + 1).out = M.out
            /\ Before(k + 1).msg = Longer(M, f)
        <5>1. M.ok
          BY <1>9 DEF Place
        <5>2. Before(k + 1) = Meaning(M, f)
          BY <1>1, <1>5, <1>6, <1>9, FrameAt
        <5> QED
          BY <3>6, <4>4, <5>1, <5>2, IsAcceptable
      <4>6. Place(k + 1, 0)' /\ k + 1 \in Nat
        <5>1. Before(k).ok /\ delivered' = Before(k + 1).out
          BY <1>1, <1>9, <4>5 DEF Place
        <5>2. unread' = At(frames, k, FrameLen(frames[k])) /\ Acceptable(Before(k), frames[k])
          BY <1>6, <1>7, <1>9, <2>2, <3>2, <4>4
        <5> QED
          BY <1>1, <1>3, <1>5, <2>2, <5>1, <5>2, NextPlace
      <4>7. DataKept(k + 1)'
        <5>1. Before(k + 1)' = Before(k + 1)
          BY <2>2 DEF Before
        <5>2. Longer(M, f).op # "none"
          BY <1>22, <1>23, <3>3, <4>4
        <5> QED
          BY <1>21, <1>24, <3>3, <4>4, <4>5, <5>1, <5>2 DEF DataKept
      <4>8. InBasicHeader(k + 1, 0)'
        <5>1. Span(k + 1, 0, 0) = <<>>
          <6>1. Span(k + 1, 0, 0) \in Wire /\ Len(Span(k + 1, 0, 0)) = 0
            BY <4>6, SpanIsWire
          <6> QED
            BY <6>1, EmptySeq DEF Wire
        <5> QED
          BY <4>1, <4>7, <5>1 DEF InBasicHeader
      <4>9. ReadsTo(k + 1, 0)'
        BY <4>1, <4>6, <4>8 DEF ReadsTo, Reading
      <4> QED
        BY <1>27, <4>3, <4>6, <4>9 DEF ReaderInv
    <3> QED
      BY <3>5, <3>6
  <2> QED
    BY <2>6, <2>7
<1> QED
  BY <1>29, <1>30

(* A message that is whole is handed over (get_message).                          *)
LEMMA GetMessageStep ==
  ASSUME TypeOK, Bounded, ~ec, NEW k \in Nat, NEW j \in Nat, Place(k, j), InPayload(k, j),
         GetMessage
  PROVE  ReaderInv'
<1>1. /\ m_state = "READY" /\ frames \in Seq(Frames) /\ ec = FALSE
      /\ delivered' = Append(delivered, [op |-> Current.op, payload |-> Current.payload,
                                         single |-> Header.op # "CONTINUATION"])
      /\ m_state' = "HEADER_BASIC" /\ m_bytes_needed' = 2
      /\ m_basic_header' = <<>> /\ m_extended_header' = <<>>
      /\ frames' = frames /\ unread' = unread /\ len' = len
      /\ m_current_msg' = m_current_msg /\ ec' = ec
  BY DEF GetMessage, TypeOK, stream
<1>2. /\ m_data_msg \in Metadata /\ m_data_msg.op \in {"none", "TEXT", "BINARY"}
      /\ m_control_msg \in Metadata /\ m_control_msg.op \in {"none"} \cup Control
      /\ m_current_msg \in {"data", "control"}
      /\ len \in 0..Len(unread) /\ len <= connection_read_buffer_size
  BY DEF TypeOK
<1>3. HeaderDone(k) /\ k <= Len(frames) /\ Good(frames, Before(k))
  BY DEF InPayload, HeaderDone, BasicHeaderDone, Place
<1>4. k \in 1..Len(frames)
  BY <1>1, <1>3, LenProperties DEF Place
<1>5. PICK f \in Frames : f = frames[k]
  BY <1>1, <1>4, FrameAt
<1>6. PICK M \in Outcome : M = Before(k)
  BY <1>1, <1>4, FrameAt
<1>7. PICK l \in Nat : l = Len(f.payload)
  BY FrameType
<1>8. M.msg \in Message /\ M.out \in Seq(Delivered)
  BY DEF Outcome
<1>9. /\ j = FrameLen(f) /\ f.fin
      /\ Holds(Current, Longer(M, f)) /\ Current.validator # "reject"
      /\ f.op = "TEXT" => Current.validator = "accept"
  <2>1. /\ j = FrameLen(f) /\ f.fin
        /\ Holds(Current, Part(M, f, j - HeaderLen(f))) /\ Current.validator # "reject"
        /\ f.op = "TEXT" => Current.validator = "accept"
    BY <1>1, <1>5, <1>6 DEF InPayload
  <2>2. FrameLen(f) - HeaderLen(f) = Len(f.payload)
    <3>1. HeaderLen(f) \in 2..14 /\ Len(f.payload) \in Nat
      BY FrameType
    <3>2. \A h \in 2..14, x \in Nat : (h + x) - h = x
      OBVIOUS
    <3> QED
      BY <3>1, <3>2 DEF FrameLen
  <2>3. Part(M, f, j - HeaderLen(f)) = Longer(M, f)
    BY <1>8, <2>1, <2>2, PartAll
  <2> QED
    BY <2>1, <2>3
<1>10. /\ m_current_msg = IF f.op \in Control THEN "control" ELSE "data"
       /\ f.op \in Control => DataKept(k)
       /\ f.op \in Data => SizeSum(Len(Begun(M, f).payload), l) <= m_max_message_size
       /\ BasicHeaderOk(f, M.msg.op = "none") /\ ExtendedHeaderOk(f)
  BY <1>3, <1>5, <1>6, <1>7 DEF HeaderDone, BasicHeaderDone
<1>11. /\ f.op \in Control \cup Data
       /\ f.op \in Control => Begun(M, f).op = f.op
       /\ f.op \in Data => /\ Begun(M, f).op \in {"TEXT", "BINARY"}
                           /\ f.op # "CONTINUATION" => Begun(M, f).op = f.op
  BY <1>3, <1>6, <1>8, <1>10, BegunOk
<1>12. /\ Longer(M, f) \in Message /\ Longer(M, f).op = Begun(M, f).op
       /\ Len(Longer(M, f).payload) = Len(Begun(M, f).payload) + l
  <2>1. /\ Longer(M, f) \in Message
        /\ Len(Longer(M, f).payload) = Len(Begun(M, f).payload) + Len(f.payload)
    BY <1>8, LongerType
  <2>2. Longer(M, f).op = Begun(M, f).op
    <3>1. PICK w : w = Begun(M, f).payload \o f.payload
      OBVIOUS
    <3>2. Longer(M, f) = [Begun(M, f) EXCEPT !.payload = w] /\ Begun(M, f) \in Message
      BY <1>8, <3>1, LongerType DEF Longer
    <3> QED
      BY <3>2 DEF Message
  <2> QED
    BY <1>7, <2>1, <2>2
<1>13. Acceptable(M, f)
  <2>1. f.op \in Data => SizeSum(Len(Begun(M, f).payload), Len(f.payload)) <= m_max_message_size
    BY <1>7, <1>10
  <2>2. Current.validator = Validated(Longer(M, f))
    BY <1>9 DEF Holds
  <2>3. Longer(M, f).op = "TEXT" => Utf8(Longer(M, f).payload) # "reject"
    BY <1>9, <2>2 DEF Validated
  <2>4. f.op = "TEXT" => Longer(M, f).op = "TEXT"
    BY <1>11, <1>12 DEF Control, Data
  <2>5. f.op = "TEXT" => Utf8(Longer(M, f).payload) = "accept"
    BY <1>9, <2>2, <2>4 DEF Validated
  <2> QED
    BY <1>10, <2>1, <2>3, <2>5 DEF Acceptable
<1>14. M.ok /\ delivered = M.out
  BY <1>6 DEF Place
<1>15. /\ Before(k + 1).out = Append(M.out, Whole(Longer(M, f), f))
       /\ Before(k + 1).msg = IF f.op \in Control THEN M.msg ELSE [op |-> "none", payload |-> <<>>]
  <2>1. Before(k + 1) = Meaning(M, f)
    BY <1>1, <1>4, <1>5, <1>6, FrameAt
  <2> QED
    BY <1>9, <1>13, <1>14, <2>1, IsAcceptable
<1>16. delivered' = Before(k + 1).out
  <2>1. Current.op = Longer(M, f).op /\ Current.payload = Longer(M, f).payload
    BY <1>9 DEF Holds
  <2>2. Header = f
    BY <1>1, <1>3, <1>4, <1>5, HeaderIs DEF HeaderDone, BasicHeaderDone
  <2> QED
    BY <1>1, <1>14, <1>15, <2>1, <2>2 DEF Whole
<1>17. Place(k + 1, 0)' /\ k + 1 \in Nat
  <2>1. unread' = At(frames, k, FrameLen(frames[k]))
    BY <1>1, <1>5, <1>9 DEF Place
  <2>2. Before(k).ok /\ Acceptable(Before(k), frames[k])
    BY <1>5, <1>6, <1>13, <1>14
  <2> QED
    BY <1>1, <1>3, <1>4, <1>16, <2>1, <2>2, NextPlace
<1>18. Before(k + 1)' = Before(k + 1)
  BY <1>1 DEF Before
<1>19. /\ NoMsg \in Metadata /\ NoMsg.op = "none" /\ NoMsg.payload = <<>> /\ Len(NoMsg.payload) = 0
       /\ Holds(NoMsg, [op |-> "none", payload |-> <<>>])
  <2>1. <<>> \in Seq(Byte) /\ Len(<<>>) = 0
    BY EmptySeq
  <2> QED
    BY <2>1 DEF NoMsg, Metadata, Utf8State, Holds, Validated
<1>20. /\ DataKept(k + 1)' /\ Bounded'
       /\ m_data_msg' \in Metadata /\ m_data_msg'.op \in {"none", "TEXT", "BINARY"}
       /\ m_control_msg' \in Metadata /\ m_control_msg'.op \in {"none"} \cup Control
  <2>1. Current.op = Begun(M, f).op
    BY <1>9, <1>12 DEF Holds
  <2>2. CASE f.op \in Control
    <3>1. m_control_msg' = NoMsg /\ m_data_msg' = m_data_msg
      BY <1>11, <2>1, <2>2 DEF GetMessage, Forget
    <3>2. DataKept(k) /\ Before(k + 1).msg = Before(k).msg
      BY <1>6, <1>10, <1>15, <2>2
    <3>3. DataKept(k + 1)'
      BY <1>18, <3>1, <3>2 DEF DataKept
    <3> QED
      BY <1>1, <1>2, <1>19, <3>1, <3>3 DEF Bounded, Unwrapped
  <2>3. CASE f.op \notin Control
    <3>1. m_data_msg' = NoMsg /\ m_control_msg' = m_control_msg
      BY <1>11, <2>1, <2>3 DEF GetMessage, Forget, Control
    <3>2. Before(k + 1).msg = [op |-> "none", payload |-> <<>>]
      BY <1>15, <2>3
    <3>3. DataKept(k + 1)'
      BY <1>18, <1>19, <3>1, <3>2 DEF DataKept
    <3>4. Len(m_data_msg'.payload) <= m_max_message_size
      BY <1>19, <3>1, ReaderAssumption
    <3> QED
      BY <1>2, <1>19, <3>1, <3>3, <3>4 DEF Bounded
  <2> QED
    BY <2>2, <2>3
<1>21. InBasicHeader(k + 1, 0)'
  <2>1. Span(k + 1, 0, 0) = <<>>
    <3>1. Span(k + 1, 0, 0) \in Wire /\ Len(Span(k + 1, 0, 0)) = 0
      BY <1>17, SpanIsWire
    <3> QED
      BY <3>1, EmptySeq DEF Wire
  <2> QED
    BY <1>1, <1>20, <2>1 DEF InBasicHeader
<1>22. ReadsTo(k + 1, 0)'
  BY <1>1, <1>17, <1>21 DEF ReadsTo, Reading
<1>23. TypeOK'
  <2>1. Len(m_basic_header') <= 2
    BY <1>1, EmptySeq
  <2> QED
    BY <1>1, <1>2, <1>20, <2>1, TypeKept
<1> QED
  BY <1>17, <1>20, <1>22, <1>23 DEF ReaderInv

(* handle_read_frame takes the next chunk; the rest is as it was.                  *)
LEMMA ReadStep ==
  ASSUME TypeOK, Bounded, NEW k \in Nat, NEW j \in Nat, ReadsTo(k, j), Read
  PROVE  ReaderInv'
<1>1. /\ len' \in 1..connection_read_buffer_size /\ len' <= Len(unread)
      /\ UNCHANGED <<frames, unread, m_state, m_bytes_needed, header, msgs, ec, delivered>>
  BY DEF Read
<1>2. /\ frames' = frames /\ unread' = unread /\ m_state' = m_state
      /\ m_bytes_needed' = m_bytes_needed /\ m_basic_header' = m_basic_header
      /\ m_extended_header' = m_extended_header /\ m_data_msg' = m_data_msg
      /\ m_control_msg' = m_control_msg /\ m_current_msg' = m_current_msg
      /\ ec' = ec /\ delivered' = delivered
  BY <1>1 DEF header, msgs
<1>3. len' \in 0..Len(unread') /\ len' <= connection_read_buffer_size
  <2>1. len \in 0..Len(unread)
    BY DEF TypeOK
  <2> QED
    BY <1>1, <1>2, <2>1, ReaderAssumption
<1>4. TypeOK'
  BY <1>2, <1>3 DEF TypeOK, Header
<1>5. ReadsTo(k, j)'
  BY <1>2 DEF ReadsTo, Reading, Failed, Place, Before, InBasicHeader, InExtendedHeader, InPayload,
              HeaderDone, BasicHeaderDone, DataKept, Current
<1>6. Bounded'
  BY <1>2 DEF Bounded, Unwrapped
<1> QED
  BY <1>4, <1>5, <1>6 DEF ReaderInv

(* A step that changes nothing.                                               *)
LEMMA ReaderStays ==
  ASSUME ReaderInv, UNCHANGED vars PROVE ReaderInv'
<1>1. /\ frames' = frames /\ unread' = unread /\ len' = len /\ m_state' = m_state
      /\ m_bytes_needed' = m_bytes_needed /\ m_basic_header' = m_basic_header
      /\ m_extended_header' = m_extended_header /\ m_data_msg' = m_data_msg
      /\ m_control_msg' = m_control_msg /\ m_current_msg' = m_current_msg
      /\ ec' = ec /\ delivered' = delivered
  BY DEF vars, stream, header, msgs
<1>2. TypeOK'
  BY <1>1 DEF ReaderInv, TypeOK, Header
<1>3. PICK k \in Nat, j \in Nat : ReadsTo(k, j)
  BY DEF ReaderInv
<1>4. ReadsTo(k, j)'
  BY <1>1, <1>3 DEF ReadsTo, Reading, Failed, Place, Before, InBasicHeader, InExtendedHeader,
                    InPayload, HeaderDone, BasicHeaderDone, DataKept, Current
<1>5. Bounded'
  BY <1>1 DEF ReaderInv, Bounded, Unwrapped
<1> QED
  BY <1>2, <1>4, <1>5 DEF ReaderInv

(* At the first byte of the first frame.                                       *)
LEMMA ReaderInit == Init => ReaderInv
<1> SUFFICES ASSUME Init PROVE ReaderInv
  OBVIOUS
<1>1. /\ unread = BytesFrom(frames, 1) /\ len = 0 /\ m_state = "HEADER_BASIC" /\ m_bytes_needed = 2
      /\ m_basic_header = <<>> /\ m_extended_header = <<>>
      /\ m_data_msg = NoMsg /\ m_control_msg = NoMsg /\ m_current_msg = "data"
      /\ ec = FALSE /\ delivered = <<>>
  BY DEF Init
<1>2. frames \in Seq(Frames) /\ Len(frames) \in Nat
  <2>1. PICK n \in 1..MaxFrames : frames \in [1..n -> Frames]
    BY DEF Init
  <2>2. n \in Nat
    BY ReaderAssumption
  <2> QED
    BY <2>1, <2>2, FunctionIsSeq
<1>3. 1 \in 1..(Len(frames) + 1)
  BY <1>2
<1>4. unread \in Wire /\ Len(unread) \in Nat /\ unread = At(frames, 1, 0)
  BY <1>1, <1>2, <1>3, BytesFromRecursion, AtStart, LenProperties DEF Wire
<1>5. /\ NoMsg \in Metadata /\ NoMsg.op = "none" /\ NoMsg.payload = <<>> /\ Len(NoMsg.payload) = 0
      /\ Holds(NoMsg, [op |-> "none", payload |-> <<>>])
  <2>1. <<>> \in Seq(Byte) /\ Len(<<>>) = 0
    BY EmptySeq
  <2> QED
    BY <2>1 DEF NoMsg, Metadata, Utf8State, Holds, Validated
<1>6. Before(1) = Nothing
  <2>1. 1 - 1 = 0
    OBVIOUS
  <2> QED
    BY <1>2, <2>1, MeantRecursion DEF Before
<1>7. /\ Nothing.ok /\ Nothing.out = <<>> /\ Nothing.msg = [op |-> "none", payload |-> <<>>]
  BY DEF Nothing
<1>8. Place(1, 0)
  <2>1. 1 <= Len(frames) => 0 <= FrameLen(frames[1])
    <3>1. 1 <= Len(frames) => 1 \in 1..Len(frames)
      BY <1>2
    <3>2. 1 \in 1..Len(frames) => FrameLen(frames[1]) \in Nat
      BY <1>2, FrameAt
    <3> QED
      BY <3>1, <3>2
  <2> QED
    BY <1>1, <1>3, <1>4, <1>6, <1>7, <2>1, GoodNothing DEF Place
<1>9. InBasicHeader(1, 0)
  <2>1. Span(1, 0, 0) = <<>>
    <3>1. 1 \in Nat /\ 0 \in Nat
      OBVIOUS
    <3>2. Span(1, 0, 0) \in Wire /\ Len(Span(1, 0, 0)) = 0
      BY <3>1, SpanIsWire
    <3> QED
      BY <3>2, EmptySeq DEF Wire
  <2>2. DataKept(1)
    BY <1>1, <1>5, <1>6, <1>7 DEF DataKept
  <2> QED
    BY <1>1, <2>1, <2>2 DEF InBasicHeader
<1>10. ReadsTo(1, 0)
  BY <1>1, <1>8, <1>9 DEF ReadsTo, Reading
<1>11. TypeOK
  <2>1. len \in 0..Len(unread) /\ len <= connection_read_buffer_size
    BY <1>1, <1>4, ReaderAssumption
  <2>2. Len(m_basic_header) <= 2
    BY <1>1, EmptySeq
  <2> QED
    BY <1>1, <1>2, <1>5, <2>1, <2>2 DEF TypeOK
<1>12. Bounded
  BY <1>1, <1>5, ReaderAssumption DEF Bounded
<1> QED
  BY <1>10, <1>11, <1>12 DEF ReaderInv

(* One action of the reader after the other.                                   *)
LEMMA ReaderStep == ReaderInv /\ [Next]_vars => ReaderInv'
<1> SUFFICES ASSUME ReaderInv, [Next]_vars PROVE ReaderInv'
  OBVIOUS
<1>1. TypeOK /\ Bounded
  BY DEF ReaderInv
<1>2. PICK k \in Nat, j \in Nat : ReadsTo(k, j)
  BY DEF ReaderInv
<1>3. ASSUME ~ec PROVE Place(k, j) /\ (InBasicHeader(k, j) \/ InExtendedHeader(k, j) \/ InPayload(k, j))
  BY <1>2, <1>3 DEF ReadsTo, Reading
<1>4. CASE CopyBasicHeader
  <2>1. ~ec /\ m_state = "HEADER_BASIC"
    BY <1>4 DEF CopyBasicHeader, Consuming
  <2>2. InBasicHeader(k, j) /\ Place(k, j)
    BY <1>3, <2>1 DEF InExtendedHeader, InPayload
  <2> QED
    BY <1>1, <1>4, <2>1, <2>2, BasicHeaderStep
<1>5. CASE CopyExtendedHeader
  <2>1. ~ec /\ m_state = "HEADER_EXTENDED"
    BY <1>5 DEF CopyExtendedHeader, Consuming
  <2>2. InExtendedHeader(k, j) /\ Place(k, j)
    BY <1>3, <2>1 DEF InBasicHeader, InPayload
  <2> QED
    BY <1>1, <1>5, <2>1, <2>2, ExtendedHeaderStep
<1>6. CASE ProcessPayload
  <2>1. ~ec /\ m_state = "APPLICATION"
    BY <1>6 DEF ProcessPayload, Consuming
  <2>2. InPayload(k, j) /\ Place(k, j)
    BY <1>3, <2>1 DEF InBasicHeader, InExtendedHeader
  <2> QED
    BY <1>1, <1>6, <2>1, <2>2, PayloadStep
<1>7. CASE GetMessage
  <2>1. m_state = "READY"
    BY <1>7 DEF GetMessage
  <2>2. ~ec
    BY <1>2, <2>1 DEF ReadsTo, Failed
  <2>3. InPayload(k, j) /\ Place(k, j)
    BY <1>3, <2>1, <2>2 DEF InBasicHeader, InExtendedHeader
  <2> QED
    BY <1>1, <1>7, <2>2, <2>3, GetMessageStep
<1>8. CASE Read
  BY <1>1, <1>2, <1>8, ReadStep
<1>9. CASE UNCHANGED vars
  BY <1>9, ReaderStays
<1> QED
  BY <1>4, <1>5, <1>6, <1>7, <1>8, <1>9 DEF Next, Ended

-----------------------------------------------------------------------------
(* The results.                                                               *)

(* Wherever the chunks end, consume (hybi13.hpp, lines 382-508) is at one place of the *)
(* stream, with what the bytes before it say and nothing else.                    *)
THEOREM ReaderReads == Spec => []ReaderInv
BY ReaderInit, ReaderStep, PTL DEF Spec

(* The variables keep their types; no more is taken than is in the buffer, and a    *)
(* header has at most the bytes of its fields (lines 744-784).                   *)
THEOREM ReaderTyped == Spec => []TypeOK
<1>1. ReaderInv => TypeOK
  BY DEF ReaderInv
<1> QED
  BY <1>1, ReaderReads, PTL

(* What is handed over, one message after the other.                            *)
LEMMA DeliveredIsFine ==
  ASSUME ReaderInv
  PROVE  \A i \in DOMAIN delivered : Fine(frames, delivered[i])
<1>1. PICK k \in Nat, j \in Nat : Place(k, j)
  BY DEF ReaderInv, ReadsTo, Reading, Failed
<1>2. frames \in Seq(Frames) /\ Len(frames) \in Nat
  BY LenProperties DEF ReaderInv, TypeOK
<1>3. k - 1 \in 0..Len(frames)
  BY <1>1, <1>2 DEF Place
<1>4. delivered = Before(k).out /\ Good(frames, Before(k)) /\ Before(k) \in Outcome
  BY <1>1, <1>2, <1>3, MeantRecursion DEF Place, Before
<1>5. DOMAIN delivered = 1..Len(delivered)
  BY <1>4, LenProperties DEF Outcome
<1> QED
  BY <1>4, <1>5 DEF Good

(* No message that is held or handed over is longer than m_max_message_size, in      *)
(* however many frames it comes (lines 439 and 457), when no continuation's length  *)
(* can make the sum of line 457 wrap.                                            *)
THEOREM MessageSizeHolds == Spec => []MessageBounded
<1>1. ASSUME ReaderInv PROVE MessageBounded
  <2> SUFFICES ASSUME Unwrapped(frames)
               PROVE  /\ Len(m_data_msg.payload) <= m_max_message_size
                      /\ \A k \in DOMAIN delivered :
                           delivered[k].op \in {"TEXT", "BINARY"} =>
                             Len(delivered[k].payload) <= m_max_message_size
    BY DEF MessageBounded, NoneWraps, Unwrapped
  <2>1. Len(m_data_msg.payload) <= m_max_message_size
    BY <1>1 DEF ReaderInv, Bounded
  <2>2. \A k \in DOMAIN delivered :
          delivered[k].op \in {"TEXT", "BINARY"} => Len(delivered[k].payload) <= m_max_message_size
    BY <1>1, DeliveredIsFine DEF Fine
  <2> QED
    BY <2>1, <2>2
<1> QED
  BY <1>1, ReaderReads, PTL

(* A text that is handed over has no invalid byte, and one that came in a single     *)
(* frame ends in a whole character (lines 536-541 and 826-831).                  *)
THEOREM TextHolds == Spec => []TextValid
<1>1. ASSUME ReaderInv PROVE TextValid
  BY <1>1, DeliveredIsFine DEF Fine, TextValid
<1> QED
  BY <1>1, ReaderReads, PTL

-----------------------------------------------------------------------------
(* The frames that are whole on this side.                                     *)

(* While bytes of the k-th frame are still to come, those before it are whole.     *)
LEMMA WholeBefore ==
  ASSUME frames \in Seq(Frames), NEW k \in 1..Len(frames), NEW j \in 0..FrameLen(frames[k]),
         j # FrameLen(frames[k]), unread = At(frames, k, j)
  PROVE  WholeFrames = k - 1
<1>1. PICK L \in Nat : L = FrameLen(frames[k])
  BY FrameAt
<1>2. PICK rest \in Nat : rest = L - j /\ rest >= 1
  <2>1. L - j \in Nat /\ L - j >= 1
    BY <1>1
  <2> QED
    BY <2>1
<1>3. /\ unread \in Wire /\ BytesFrom(frames, k + 1) \in Wire
      /\ Len(BytesFrom(frames, k + 1)) \in Nat
      /\ Len(unread) = rest + Len(BytesFrom(frames, k + 1))
      /\ \A i \in 1..rest : unread[i] = <<k, j + i>>
  BY <1>1, <1>2, AtFrame
<1>4. unread[1] = <<k, j + 1>>
  BY <1>2, <1>3
<1>5. unread # <<>>
  <2>1. Len(unread) # 0
    BY <1>2, <1>3
  <2> QED
    BY <2>1, EmptySeq
<1>6. Head(unread) = unread[1]
  BY <1>3, <1>5, HeadTailProperties DEF Wire
<1> QED
  BY <1>4, <1>5, <1>6 DEF WholeFrames

(* After the last frame all are.                                               *)
LEMMA WholeAtEnd ==
  ASSUME unread = At(frames, Len(frames) + 1, 0), Len(frames) \in Nat
  PROVE  WholeFrames = Len(frames)
<1>1. Len(frames) + 1 > Len(frames)
  OBVIOUS
<1> QED
  BY <1>1 DEF At, WholeFrames

(* What follows a frame that is not acceptable changes nothing.                   *)
LEMMA MeantAfter ==
  ASSUME NEW fs \in Seq(Frames), NEW k \in 1..Len(fs),
         ~Acceptable(Meant(fs, k - 1), fs[k]), NEW n \in {k, k + 1}
  PROVE  ~Meant(fs, n).ok /\ Meant(fs, n).out = Meant(fs, k - 1).out
<1>1. Len(fs) \in Nat
  BY LenProperties
<1>2. k - 1 \in 0..Len(fs) /\ k \in 0..Len(fs)
  BY <1>1
<1>3. Meant(fs, k - 1) \in Outcome /\ Meant(fs, k) \in Outcome
  BY <1>2, MeantRecursion
<1>4. ~Meant(fs, k).ok /\ Meant(fs, k).out = Meant(fs, k - 1).out
  <2>1. Meant(fs, k) = Meaning(Meant(fs, k - 1), fs[k])
    BY MeantRecursion
  <2> QED
    BY <1>3, <2>1, NotAcceptable
<1>5. CASE n = k
  BY <1>4, <1>5
<1>6. CASE n = k + 1
  <2>1. CASE k + 1 \in 1..Len(fs)
    <3>1. (k + 1) - 1 = k
      OBVIOUS
    <3>2. Meant(fs, k + 1) = Meaning(Meant(fs, k), fs[k + 1])
      BY <2>1, <3>1, MeantRecursion
    <3>3. ~Meant(fs, k + 1).ok /\ Meant(fs, k + 1).out = Meant(fs, k).out
      BY <1>3, <1>4, <3>2, NotAcceptable
    <3> QED
      BY <1>4, <1>6, <3>3
  <2>2. CASE k + 1 \notin 1..Len(fs)
    <3>1. ~(k + 1 <= Len(fs)) /\ k = Len(fs) /\ Len(fs) <= Len(fs)
      BY <1>1, <2>2
    <3>2. Meant(fs, k + 1) = Meant(fs, k)
      BY <3>1 DEF Meant
    <3> QED
      BY <1>4, <1>6, <3>2
  <2> QED
    BY <2>1, <2>2
<1> QED
  BY <1>5, <1>6

(* The messages handed over and the errors are those that the whole frames mean, for  *)
(* every way to cut the bytes into chunks (lines 389-508).                        *)
THEOREM ChunksHold == Spec => []ChunksDoNotMatter
<1>1. ASSUME ReaderInv, ~ec, ~Consuming, m_state # "READY"
      PROVE  Meant(frames, WholeFrames).ok /\ delivered = Meant(frames, WholeFrames).out
  <2>1. PICK k \in Nat, j \in Nat : Reading(k, j)
    BY <1>1 DEF ReaderInv, ReadsTo
  <2>2. frames \in Seq(Frames) /\ Len(frames) \in Nat /\ len \in Nat
    <3>1. frames \in Seq(Frames) /\ len \in 0..Len(unread)
      BY <1>1 DEF ReaderInv, TypeOK
    <3> QED
      BY <3>1, LenProperties
  <2>3. m_bytes_needed # 0
    BY <1>1 DEF Consuming, MoreToDo
  <2>4. Place(k, j) /\ k \in 1..(Len(frames) + 1)
    BY <2>1 DEF Reading, Place
  <2>5. WholeFrames = k - 1
    <3>1. CASE k \in 1..Len(frames)
      <4>1. /\ FrameLen(frames[k]) \in Nat /\ HeaderLen(frames[k]) \in 2..14
            /\ HeaderLen(frames[k]) <= FrameLen(frames[k])
        BY <2>2, <3>1, FrameAt
      <4>2. j <= FrameLen(frames[k]) /\ unread = At(frames, k, j)
        BY <2>2, <2>4, <3>1 DEF Place
      <4>3. j # FrameLen(frames[k])
        <5>1. CASE InBasicHeader(k, j)
          BY <4>1, <5>1 DEF InBasicHeader
        <5>2. CASE InExtendedHeader(k, j)
          BY <4>1, <5>2 DEF InExtendedHeader
        <5>3. CASE InPayload(k, j)
          BY <2>3, <4>1, <5>3 DEF InPayload
        <5> QED
          BY <2>1, <5>1, <5>2, <5>3 DEF Reading
      <4>4. j \in 0..FrameLen(frames[k])
        BY <4>1, <4>2
      <4> QED
        BY <2>2, <3>1, <4>2, <4>3, <4>4, WholeBefore
    <3>2. CASE k \notin 1..Len(frames)
      <4>1. k = Len(frames) + 1 /\ k > Len(frames) /\ k - 1 = Len(frames)
        BY <2>2, <2>4, <3>2
      <4>2. unread = At(frames, Len(frames) + 1, 0)
        BY <2>4, <4>1 DEF Place
      <4> QED
        BY <2>2, <4>1, <4>2, WholeAtEnd
    <3> QED
      BY <3>1, <3>2
  <2> QED
    BY <2>4, <2>5 DEF Place, Before
<1>2. ASSUME ReaderInv, ec
      PROVE  ~Meant(frames, WholeFrames + 1).ok /\ delivered = Meant(frames, WholeFrames + 1).out
  <2>1. PICK k \in Nat, j \in Nat : Failed(k, j)
    BY <1>2 DEF ReaderInv, ReadsTo
  <2>2. frames \in Seq(Frames) /\ Len(frames) \in Nat
    BY <1>2, LenProperties DEF ReaderInv, TypeOK
  <2>3. /\ k \in 1..Len(frames) /\ unread = At(frames, k, j) /\ j <= FrameLen(frames[k])
        /\ delivered = Meant(frames, k - 1).out /\ ~Acceptable(Meant(frames, k - 1), frames[k])
    BY <2>1, <2>2 DEF Failed, Place, Before
  <2>4. FrameLen(frames[k]) \in Nat
    BY <2>2, <2>3, FrameAt
  <2>5. WholeFrames + 1 \in {k, k + 1}
    <3>1. CASE j # FrameLen(frames[k])
      <4>1. j \in 0..FrameLen(frames[k])
        BY <2>3, <2>4
      <4>2. WholeFrames = k - 1
        BY <2>2, <2>3, <3>1, <4>1, WholeBefore
      <4> QED
        BY <4>2
    <3>2. CASE j = FrameLen(frames[k])
      <4>1. unread = At(frames, k + 1, 0)
        BY <2>2, <2>3, <3>2, AtEnd
      <4>2. CASE k + 1 \in 1..Len(frames)
        <5>1. /\ FrameLen(frames[k + 1]) \in Nat /\ HeaderLen(frames[k + 1]) \in 2..14
              /\ HeaderLen(frames[k + 1]) <= FrameLen(frames[k + 1])
          BY <2>2, <4>2, FrameAt
        <5>2. 0 \in 0..FrameLen(frames[k + 1]) /\ 0 # FrameLen(frames[k + 1])
          BY <5>1
        <5>3. WholeFrames = (k + 1) - 1
          BY <2>2, <4>1, <4>2, <5>2, WholeBefore
        <5> QED
          BY <5>3
      <4>3. CASE k + 1 \notin 1..Len(frames)
        <5>1. k = Len(frames)
          BY <2>2, <2>3, <4>3
        <5>2. WholeFrames = k
          BY <2>2, <4>1, <5>1, WholeAtEnd
        <5> QED
          BY <5>2
      <4> QED
        BY <4>2, <4>3
    <3> QED
      BY <3>1, <3>2
  <2>6. PICK n \in {k, k + 1} : n = WholeFrames + 1
    BY <2>5
  <2>7. ~Meant(frames, n).ok /\ Meant(frames, n).out = Meant(frames, k - 1).out
    BY <2>2, <2>3, MeantAfter
  <2> QED
    BY <2>3, <2>6, <2>7
<1>3. ASSUME ReaderInv PROVE ChunksDoNotMatter
  <2>1. ~ec /\ ~Consuming /\ m_state # "READY" =>
          Meant(frames, WholeFrames).ok /\ delivered = Meant(frames, WholeFrames).out
    BY <1>1, <1>3
  <2>2. ec => ~Meant(frames, WholeFrames + 1).ok /\ delivered = Meant(frames, WholeFrames + 1).out
    BY <1>2, <1>3
  <2> QED
    BY <2>1, <2>2 DEF ChunksDoNotMatter
<1> QED
  BY <1>3, ReaderReads, PTL
=============================================================================
