--------------------------- MODULE StreamV8Proofs ---------------------------
(***************************************************************************)
(* Proofs about the v8 streaming AEAD, for any number of streams, any      *)
(* frame size and any limit of the chunk index.                            *)
(*                                                                         *)
(* The inductive invariant says what the frames of a stream are in terms   *)
(* of the codepoints pushed into it (StreamInv), and what a decryptor that *)
(* has accepted so many chunks holds of them (DecInv).                     *)
(***************************************************************************)
EXTENDS StreamV8, Integers, TLAPS

(* Typing *)

Codepoints == Chars \cup {Filler}

Encryptors ==
    [state : {"open", "finished"}, f : 1..MaxFrame, aad : Aads, idx : 0..MaxIdx,
     total : Nat, buf : Seq(Chars)]

Decryptors ==
    [state : {"reading", "ok", "error"}, nonce : Streams, f : 1..MaxFrame, aad : Aads,
     idx : 0..MaxIdx, delivered : Seq(Codepoints), pending : Seq(Codepoints),
     read : Nat, genuine : {"yes", "no"}]

Frames ==
    [kind : {"chunk"}, header : (1..MaxFrame) \X Streams, aad : Aads, idx : 0..MaxIdx,
     sub : Streams \X (0..MaxIdx), cps : Seq(Codepoints)]
    \cup
    [kind : {"sentinel"}, header : (1..MaxFrame) \X Streams, aad : Aads, idx : 0..MaxIdx,
     total : Nat]

\* What the encryptors, their output and the decryptor may hold.
TypeOK ==
    /\ enc \in [Streams -> [state : {"none"}] \cup Encryptors]
    /\ emitted \in [Streams -> Seq(Frames)]
    /\ pushed \in [Streams -> Seq(Chars)]
    /\ dec \in [state : {"idle"}] \cup Decryptors

-----------------------------------------------------------------------------
(* The inductive invariant *)

\* The n-th run of f codepoints of a text, filled up at its end.
Piece(text, f, n) ==
    [j \in 1..f |-> IF (n - 1) * f + j <= Len(text) THEN text[(n - 1) * f + j] ELSE Filler]

\* Two sequences agree as far as both go.
Agree(d, text) == \A i \in 1..Len(d) : i <= Len(text) => d[i] = text[i]

\* buf holds what follows the first k pieces of a text.
Rest(text, f, k, buf) ==
    /\ Len(text) = k * f + Len(buf)
    /\ \A j \in 1..Len(buf) : buf[j] = text[k * f + j]

\* The number of chunks a stream has emitted.
Chunks(s) == IF enc[s].state = "finished" THEN Len(emitted[s]) - 1 ELSE Len(emitted[s])

\* Every chunk holds the piece of the codepoints at its index, under that index,
\* and begins before their end.
ChunkInv(s) ==
    \A n \in 1..Chunks(s) :
        /\ emitted[s][n] = Chunk(s, enc[s].f, enc[s].aad, n - 1, Piece(pushed[s], enc[s].f, n))
        /\ (n - 1) * enc[s].f < Len(pushed[s])

\* An open encryptor has emitted the full chunks and buffers the rest; at the last
\* chunk index the buffer is empty.
OpenInv(s) ==
    /\ Chunks(s) = enc[s].idx
    /\ Len(enc[s].buf) < enc[s].f
    /\ Rest(pushed[s], enc[s].f, enc[s].idx, enc[s].buf)
    /\ enc[s].idx = MaxIdx => enc[s].buf = <<>>

\* A finished one has emitted everything, and a sentinel that says how much.
FinishedInv(s) ==
    /\ Len(emitted[s]) >= 1
    /\ Chunks(s) <= MaxIdx
    /\ Len(pushed[s]) <= Chunks(s) * enc[s].f
    /\ emitted[s][Len(emitted[s])] =
         Sentinel(s, enc[s].f, enc[s].aad, Chunks(s), Len(pushed[s]))

StreamInv(s) ==
    /\ enc[s].state = "none" => emitted[s] = <<>> /\ pushed[s] = <<>>
    /\ enc[s].state # "none" => ChunkInv(s) /\ enc[s].total = Len(pushed[s])
    /\ enc[s].state = "open" => OpenInv(s)
    /\ enc[s].state = "finished" => FinishedInv(s)

\* The decryptor's header is the one of a stream that exists.
HeaderFits ==
    /\ enc[dec.nonce].state # "none"
    /\ dec.f = enc[dec.nonce].f
    /\ dec.aad = enc[dec.nonce].aad

\* What a decryptor has accepted: as many chunks of one stream as it counted, the
\* last of them held back.
AcceptedInv ==
    IF dec.idx = 0
      THEN dec.delivered = <<>> /\ dec.pending = <<>>
      ELSE /\ HeaderFits
           /\ dec.idx <= Chunks(dec.nonce)
           /\ dec.pending = Piece(pushed[dec.nonce], dec.f, dec.idx)
           /\ Len(dec.delivered) = (dec.idx - 1) * dec.f
           /\ Agree(dec.delivered, pushed[dec.nonce])

DecInv ==
    /\ dec.state = "reading" => AcceptedInv
    /\ dec.state = "reading" /\ dec.genuine = "yes" => HeaderFits /\ dec.read = dec.idx

Inv ==
    /\ TypeOK
    /\ \A s \in Streams : StreamInv(s)
    /\ DecInv
    /\ ReleasedIsWhole
    /\ GenuineAccepted

-----------------------------------------------------------------------------
(* Arithmetic and texts *)

USE StreamV8Assumption

\* Multiplication is monotonic.
LEMMA MulMono ==
    ASSUME NEW a \in Nat, NEW b \in Nat, NEW f \in Nat, a <= b
    PROVE  a * f <= b * f
  BY SMT

\* The number of pieces of size f that a text of length l needs.
LEMMA RoundUp ==
    ASSUME NEW f \in Nat \ {0}, NEW k \in Nat, NEW l \in Nat,
           l <= k * f, k > 0 => (k - 1) * f < l
    PROVE  (l + f - 1) \div f = k
  BY SMT

\* A full piece stays what it is when the text grows.
LEMMA PieceStable ==
    ASSUME NEW text \in Seq(Chars), NEW ch \in Chars, NEW f \in Nat, NEW n \in Nat \ {0},
           n * f <= Len(text)
    PROVE  Piece(Append(text, ch), f, n) = Piece(text, f, n)
<1>1. ASSUME NEW j \in 1..f
      PROVE  /\ (n - 1) * f + j \in 1..Len(text)
             /\ Append(text, ch)[(n - 1) * f + j] = text[(n - 1) * f + j]
  <2>1. (n - 1) * f + f = n * f
    BY SMT
  <2>2. (n - 1) * f \in Nat
    BY SMT
  <2>3. (n - 1) * f + j \in 1..Len(text)
    BY <2>1, <2>2
  <2> QED  BY <2>3
<1>2. \A j \in 1..f : (n - 1) * f + j \in Int
  BY SMT
<1> QED
  BY <1>1, <1>2 DEF Piece

\* A buffer that holds the rest of a text is its next piece, once filled up.
LEMMA BufferIsPiece ==
    ASSUME NEW text \in Seq(Chars), NEW buf \in Seq(Chars), NEW f \in Nat \ {0}, NEW k \in Nat,
           Len(buf) <= f, Rest(text, f, k, buf)
    PROVE  /\ Filled(buf, f) = Piece(text, f, k + 1)
           /\ Len(buf) = f => buf = Piece(text, f, k + 1)
<1>1. k * f \in Nat /\ (k + 1) - 1 = k
  BY SMT
<1>2. \A j \in 1..f : k * f + j <= Len(text) <=> j <= Len(buf)
  BY <1>1 DEF Rest
<1>3. Filled(buf, f) = Piece(text, f, k + 1)
  BY <1>1, <1>2 DEF Filled, Piece, Rest
<1>4. ASSUME Len(buf) = f PROVE buf = Filled(buf, f)
  BY <1>4 DEF Filled
<1> QED
  BY <1>3, <1>4

\* A piece is a text of f codepoints.
LEMMA PieceType ==
    ASSUME NEW text \in Seq(Chars), NEW f \in Nat, NEW n \in Nat \ {0}
    PROVE  /\ Piece(text, f, n) \in Seq(Codepoints)
           /\ Len(Piece(text, f, n)) = f
<1>1. (n - 1) * f \in Nat
  BY SMT
<1>2. ASSUME NEW j \in 1..f PROVE Piece(text, f, n)[j] \in Codepoints
  BY <1>1 DEF Piece, Codepoints
<1>3. Piece(text, f, n) \in [1..f -> Codepoints]
  BY <1>2 DEF Piece
<1> QED
  BY <1>3

-----------------------------------------------------------------------------
(* The encryptors *)

\* The frames of chunks and sentinels are typed.
LEMMA FrameType ==
    ASSUME NEW s \in Streams, NEW f \in 1..MaxFrame, NEW a \in Aads, NEW idx \in 0..MaxIdx
    PROVE  /\ \A cps \in Seq(Codepoints) : Chunk(s, f, a, idx, cps) \in Frames
           /\ \A total \in Nat : Sentinel(s, f, a, idx, total) \in Frames
  BY DEF Chunk, Sentinel, Frames, stream_v8_header, derive_stream_v8_sub_nonce

\* Plaintext is typed as decoded text, too.
LEMMA CharsAreCodepoints == ASSUME NEW t \in Seq(Chars) PROVE t \in Seq(Codepoints)
  BY DEF Codepoints

\* A stream that a step leaves alone keeps its invariant.
LEMMA StreamUntouched ==
    ASSUME NEW s \in Streams, StreamInv(s),
           enc'[s] = enc[s], emitted'[s] = emitted[s], pushed'[s] = pushed[s]
    PROVE  StreamInv(s)'
  BY DEF StreamInv, ChunkInv, OpenInv, FinishedInv, Chunks

\* What a step of the encryptors preserves of a stream: its parameters, the chunks
\* emitted and their pieces, and all of it once it is finished.
Prolongs(s) ==
    /\ enc[s].state # "none" =>
         /\ enc'[s].state # "none"
         /\ enc'[s].f = enc[s].f
         /\ enc'[s].aad = enc[s].aad
         /\ Chunks(s) <= Chunks(s)'
         /\ \A n \in 1..Chunks(s) : Piece(pushed'[s], enc[s].f, n) = Piece(pushed[s], enc[s].f, n)
         /\ \A i \in 1..Len(pushed[s]) : pushed'[s][i] = pushed[s][i]
    /\ enc[s].state = "finished" => enc'[s] = enc[s] /\ pushed'[s] = pushed[s]

LEMMA UntouchedProlongs ==
    ASSUME TypeOK, NEW s \in Streams, enc'[s] = enc[s], emitted'[s] = emitted[s], pushed'[s] = pushed[s]
    PROVE  Prolongs(s)
<1>1. Chunks(s)' = Chunks(s) /\ Chunks(s) \in Int
  BY DEF Chunks, TypeOK
<1> QED
  BY <1>1 DEF Prolongs

\* new: no frame and no codepoint yet.
LEMMA NewStep ==
    ASSUME Inv, NEW s \in Streams, NEW f \in 1..MaxFrame, NEW a \in Aads, New(s, f, a)
    PROVE  /\ TypeOK'
           /\ StreamInv(s)'
           /\ Prolongs(s)
<1> DEFINE e == [state |-> "open", f |-> f, aad |-> a, idx |-> 0, total |-> 0, buf |-> <<>>]
<1>1. enc' = [enc EXCEPT ![s] = e] /\ enc'[s] = e /\ enc[s].state = "none"
  BY DEF New, Inv, TypeOK
<1>2. e \in Encryptors
  BY DEF Encryptors
<1>3. TypeOK'
  BY <1>1, <1>2 DEF New, Inv, TypeOK
<1>4. emitted'[s] = <<>> /\ pushed'[s] = <<>>
  BY <1>1 DEF New, Inv, StreamInv
<1>5. StreamInv(s)'
  BY <1>1, <1>4 DEF StreamInv, ChunkInv, OpenInv, Rest, Chunks
<1>6. Prolongs(s)
  BY <1>1 DEF Prolongs
<1> QED
  BY <1>3, <1>5, <1>6

\* What one codepoint more makes of a text and of the buffer of its rest.
Grown(old, b, text, buf, f, k) ==
    /\ text \in Seq(Chars) /\ buf \in Seq(Chars)
    /\ Len(buf) = Len(b) + 1
    /\ Len(text) = Len(old) + 1
    /\ Rest(text, f, k, buf)
    /\ k * f < Len(text)
    /\ \A i \in 1..Len(old) : text[i] = old[i]
    /\ \A n \in 1..k : Piece(text, f, n) = Piece(old, f, n)
    /\ Len(buf) >= f => buf = Piece(text, f, k + 1) /\ Len(text) = (k + 1) * f

\* One codepoint more: the pieces so far stay, the buffer remains the rest of the
\* text, and a full buffer is the next piece.
LEMMA OneMore ==
    ASSUME NEW old \in Seq(Chars), NEW b \in Seq(Chars), NEW ch \in Chars,
           NEW f \in Nat \ {0}, NEW k \in Nat,
           Len(b) < f, Rest(old, f, k, b)
    PROVE  Grown(old, b, Append(old, ch), Append(b, ch), f, k)
<1> DEFINE text == Append(old, ch)
           buf  == Append(b, ch)
<1>1. k * f \in Nat /\ (k + 1) * f = k * f + f
  BY SMT
<1>2. /\ text \in Seq(Chars) /\ Len(text) = Len(old) + 1 /\ text[Len(old) + 1] = ch
      /\ \A i \in 1..Len(old) : text[i] = old[i]
  OBVIOUS
<1>3. /\ buf \in Seq(Chars) /\ Len(buf) = Len(b) + 1 /\ buf[Len(b) + 1] = ch
      /\ \A j \in 1..Len(b) : buf[j] = b[j]
  OBVIOUS
<1>4. Len(text) = k * f + Len(buf) /\ k * f < Len(text)
  BY <1>1, <1>2, <1>3 DEF Rest
<1>5. ASSUME NEW n \in 1..k PROVE Piece(text, f, n) = Piece(old, f, n)
  <2>1. n * f <= k * f /\ n * f \in Nat /\ n \in Nat \ {0}
    BY MulMono, SMT
  <2>2. n * f <= Len(old)
    BY <2>1, <1>1 DEF Rest
  <2> QED  BY <2>1, <2>2, PieceStable
<1> HIDE DEF text, buf
<1>6. ASSUME NEW j \in 1..Len(buf) PROVE buf[j] = text[k * f + j]
  <2> DEFINE m == k * f
  <2>1. m \in Nat /\ Len(old) = m + Len(b) /\ \A i \in 1..Len(b) : b[i] = old[m + i]
    BY <1>1 DEF Rest
  <2> HIDE DEF m
  <2>2. CASE j \in 1..Len(b)
    BY <2>1, <2>2, <1>2, <1>3 DEF m
  <2>3. CASE j = Len(b) + 1
    BY <2>1, <2>3, <1>2, <1>3 DEF m
  <2> QED  BY <2>2, <2>3, <1>3
<1>7. Rest(text, f, k, buf)
  BY <1>4, <1>6 DEF Rest
<1>8. ASSUME Len(buf) >= f PROVE buf = Piece(text, f, k + 1) /\ Len(text) = (k + 1) * f
  <2>1. Len(buf) = f
    BY <1>3, <1>8
  <2>2. Len(text) = (k + 1) * f
    BY <2>1, <1>1, <1>4
  <2>3. Len(buf) <= f
    BY <2>1
  <2> QED  BY <2>1, <2>2, <2>3, <1>2, <1>3, <1>7, BufferIsPiece
<1> QED
  BY <1>2, <1>3, <1>4, <1>5, <1>7, <1>8 DEF text, buf, Grown

\* push: a buffered codepoint, or a full chunk that is the next piece.
LEMMA PushStep ==
    ASSUME Inv, NEW s \in Streams, NEW ch \in Chars, Push(s, ch)
    PROVE  /\ TypeOK'
           /\ StreamInv(s)'
           /\ Prolongs(s)
<1> DEFINE e    == enc[s]
           buf  == Append(e.buf, ch)
           text == Append(pushed[s], ch)
           c    == Chunk(s, e.f, e.aad, e.idx, buf)
           After(i, b) == [state |-> e.state, f |-> e.f, aad |-> e.aad, idx |-> i,
                           total |-> e.total + 1, buf |-> b]
<1>1. e \in Encryptors /\ e.state = "open" /\ e.idx # MaxIdx
  BY DEF Push, Inv, TypeOK
<1>2. /\ e.f \in 1..MaxFrame /\ e.aad \in Aads /\ e.idx \in 0..MaxIdx /\ e.total \in Nat
      /\ e.buf \in Seq(Chars) /\ pushed[s] \in Seq(Chars) /\ emitted[s] \in Seq(Frames)
      /\ e.f \in Nat \ {0} /\ e.idx \in Nat /\ e.idx + 1 \in 0..MaxIdx
  BY <1>1 DEF Inv, TypeOK, Encryptors
<1>3. OpenInv(s) /\ ChunkInv(s) /\ e.total = Len(pushed[s]) /\ Chunks(s) = Len(emitted[s])
  BY <1>1 DEF Inv, StreamInv, Chunks
<1>4. Grown(pushed[s], e.buf, text, buf, e.f, e.idx)
  <2>1. Len(e.buf) < e.f /\ Rest(pushed[s], e.f, e.idx, e.buf)
    BY <1>3 DEF OpenInv
  <2> QED  BY <1>2, <2>1, OneMore
<1>5. pushed' = [pushed EXCEPT ![s] = text] /\ pushed'[s] = text
  BY DEF Push, Inv, TypeOK
<1>6. /\ Len(emitted[s]) = e.idx
      /\ Len(e.buf) < e.f
      /\ \A n \in 1..e.idx :
           /\ emitted[s][n] = Chunk(s, e.f, e.aad, n - 1, Piece(pushed[s], e.f, n))
           /\ (n - 1) * e.f < Len(pushed[s])
  BY <1>3 DEF OpenInv, ChunkInv
<1>7. \A n \in 1..e.idx : (n - 1) * e.f < Len(text)
  BY <1>2, <1>4, <1>6, SMT DEF Grown
<1>9. CASE Len(buf) >= e.f
  <2>1. /\ emitted' = [emitted EXCEPT ![s] = Append(emitted[s], c)]
        /\ enc' = [enc EXCEPT ![s] = After(e.idx + 1, <<>>)]
        /\ dec' = dec
    BY <1>1, <1>9, SMT DEF Push, Inv, TypeOK, Encryptors
  <2>3. c \in Frames
    BY <1>2, <1>4, FrameType, CharsAreCodepoints DEF Grown
  <2>4. /\ enc'[s] = After(e.idx + 1, <<>>)
        /\ emitted'[s] = Append(emitted[s], c)
    BY <2>1 DEF Inv, TypeOK
  <2>5. enc'[s] \in Encryptors
    BY <1>1, <1>2, <2>4 DEF Encryptors
  <2>6. TypeOK'
    BY <1>2, <1>4, <1>5, <2>1, <2>3, <2>4, <2>5 DEF Inv, TypeOK, Grown
  <2>7. /\ enc'[s].state = "open" /\ enc'[s].f = e.f /\ enc'[s].aad = e.aad
        /\ enc'[s].idx = e.idx + 1 /\ enc'[s].buf = <<>> /\ enc'[s].total = e.total + 1
    BY <1>1, <2>4 DEF Encryptors
  <2> HIDE DEF c
  <2>8. /\ Len(emitted'[s]) = e.idx + 1
        /\ emitted'[s][e.idx + 1] = c
        /\ \A n \in 1..e.idx : emitted'[s][n] = emitted[s][n]
    BY <1>2, <1>6, <2>3, <2>4
  <2>9. Chunks(s)' = e.idx + 1 /\ Chunks(s) = e.idx
    BY <1>3, <1>6, <2>7, <2>8 DEF Chunks
  <2>10. ASSUME NEW n \in 1..(e.idx + 1)
         PROVE  /\ emitted'[s][n] = Chunk(s, e.f, e.aad, n - 1, Piece(text, e.f, n))
                /\ (n - 1) * e.f < Len(text)
    <3>1. CASE n = e.idx + 1
      <4>1. n - 1 = e.idx
        BY <1>2, <3>1
      <4> QED  BY <4>1, <1>4, <1>9, <2>8, <3>1 DEF c, Grown
    <3>2. CASE n # e.idx + 1
      <4>1. n \in 1..e.idx
        BY <1>2, <3>2
      <4> QED  BY <1>4, <1>6, <1>7, <2>8, <4>1 DEF Grown
    <3> QED  BY <3>1, <3>2
  <2>11. ChunkInv(s)'
    BY <1>5, <2>7, <2>9, <2>10 DEF ChunkInv
  <2>12. OpenInv(s)'
    <3>1. Len(enc'[s].buf) = 0 /\ 1..Len(enc'[s].buf) = {}
      BY <2>7
    <3>2. (e.idx + 1) * e.f \in Nat
      BY <1>2, SMT
    <3> QED  BY <1>2, <1>4, <1>5, <1>9, <2>7, <2>9, <3>1, <3>2 DEF OpenInv, Rest, Grown
  <2>13. StreamInv(s)'
    BY <1>3, <1>4, <1>5, <2>7, <2>11, <2>12 DEF StreamInv, Grown
  <2>14. Prolongs(s)
    <3>1. e.state = "open" /\ e.idx <= Chunks(s)'
      BY <1>1, <1>2, <2>9
    <3>2. /\ pushed'[s] = text
          /\ \A i \in 1..Len(pushed[s]) : text[i] = pushed[s][i]
          /\ \A n \in 1..e.idx : Piece(text, e.f, n) = Piece(pushed[s], e.f, n)
      BY <1>4, <1>5 DEF Grown
    <3> HIDE DEF text, buf, c
    <3> QED  BY <2>7, <2>9, <3>1, <3>2 DEF Prolongs
  <2> QED  BY <2>6, <2>13, <2>14
<1>10. CASE ~(Len(buf) >= e.f)
  <2>1. /\ emitted' = emitted
        /\ enc' = [enc EXCEPT ![s] = After(e.idx, buf)]
        /\ dec' = dec
    BY <1>1, <1>10, SMT DEF Push, Inv, TypeOK, Encryptors
  <2>4. enc'[s] = After(e.idx, buf)
    BY <2>1 DEF Inv, TypeOK
  <2>5. enc'[s] \in Encryptors
    BY <1>1, <1>2, <1>4, <2>4, SMTT(30) DEF Encryptors, Grown
  <2>6. TypeOK'
    BY <1>2, <1>4, <1>5, <2>1, <2>4, <2>5 DEF Inv, TypeOK, Grown
  <2>7. /\ enc'[s].state = "open" /\ enc'[s].f = e.f /\ enc'[s].aad = e.aad
        /\ enc'[s].idx = e.idx /\ enc'[s].buf = buf /\ enc'[s].total = e.total + 1
    BY <1>1, <2>4 DEF Encryptors
  <2>9. Chunks(s)' = e.idx /\ Chunks(s) = e.idx
    BY <1>3, <1>6, <2>1, <2>7 DEF Chunks
  <2>11. ChunkInv(s)'
    BY <1>4, <1>5, <1>6, <1>7, <2>1, <2>7, <2>9 DEF ChunkInv, Grown
  <2>12. OpenInv(s)'
    <3>1. Len(buf) < e.f
      BY <1>2, <1>4, <1>10 DEF Grown
    <3> QED  BY <1>1, <1>4, <1>5, <2>7, <2>9, <3>1 DEF OpenInv, Grown
  <2>13. StreamInv(s)'
    BY <1>3, <1>4, <1>5, <2>7, <2>11, <2>12 DEF StreamInv, Grown
  <2>14. Prolongs(s)
    <3>1. e.state = "open" /\ e.idx <= Chunks(s)'
      BY <1>1, <1>2, <2>9
    <3>2. /\ pushed'[s] = text
          /\ \A i \in 1..Len(pushed[s]) : text[i] = pushed[s][i]
          /\ \A n \in 1..e.idx : Piece(text, e.f, n) = Piece(pushed[s], e.f, n)
      BY <1>4, <1>5 DEF Grown
    <3> HIDE DEF text, buf, c
    <3> QED  BY <2>7, <2>9, <3>1, <3>2 DEF Prolongs
  <2> QED  BY <2>6, <2>13, <2>14
<1> QED
  BY <1>9, <1>10

\* What the length of the rest says of the number of pieces.
LEMMA RestLength ==
    ASSUME NEW text \in Seq(Chars), NEW buf \in Seq(Chars), NEW f \in Nat \ {0}, NEW k \in Nat,
           Len(buf) < f, Rest(text, f, k, buf)
    PROVE  /\ Len(buf) = 0 => Len(text) <= k * f
           /\ Len(buf) # 0 => Len(text) <= (k + 1) * f /\ ((k + 1) - 1) * f < Len(text)
<1>1. k * f \in Nat /\ (k + 1) * f = k * f + f /\ ((k + 1) - 1) * f = k * f
  BY SMT
<1>2. Len(text) = k * f + Len(buf) /\ Len(buf) \in Nat /\ Len(text) \in Nat
  BY DEF Rest
<1> QED
  BY <1>1, <1>2

\* A sequence with one element more, and with two.
LEMMA ProlongedByOne ==
    ASSUME NEW S, NEW w \in Seq(S), NEW a \in S
    PROVE  /\ w \o <<>> \o <<a>> \in Seq(S)
           /\ Len(w \o <<>> \o <<a>>) = Len(w) + 1
           /\ \A n \in 1..Len(w) : (w \o <<>> \o <<a>>)[n] = w[n]
           /\ (w \o <<>> \o <<a>>)[Len(w) + 1] = a
  OBVIOUS

LEMMA ProlongedByTwo ==
    ASSUME NEW S, NEW w \in Seq(S), NEW a \in S, NEW b \in S, NEW v, v = w \o <<a>> \o <<b>>
    PROVE  /\ v \in Seq(S)
           /\ Len(v) = (Len(w) + 1) + 1
           /\ \A n \in 1..Len(w) : v[n] = w[n]
           /\ v[Len(w) + 1] = a
           /\ v[(Len(w) + 1) + 1] = b
  OBVIOUS

\* An encryptor with another state.
LEMMA FinishedRecord ==
    ASSUME NEW e \in Encryptors
    PROVE  [e EXCEPT !.state = "finished"] =
             [state |-> "finished", f |-> e.f, aad |-> e.aad, idx |-> e.idx, total |-> e.total,
              buf |-> e.buf]
  BY DEF Encryptors

\* finish: the rest of the codepoints is the last piece, and the sentinel counts.
LEMMA FinishStep ==
    ASSUME Inv, NEW s \in Streams, Finish(s)
    PROVE  /\ TypeOK'
           /\ StreamInv(s)'
           /\ Prolongs(s)
<1> DEFINE e   == enc[s]
           c   == Chunk(s, e.f, e.aad, e.idx, Filled(e.buf, e.f))
           z(k) == Sentinel(s, e.f, e.aad, k, e.total)
           After == [state |-> "finished", f |-> e.f, aad |-> e.aad, idx |-> e.idx,
                     total |-> e.total, buf |-> e.buf]
<1>1. e \in Encryptors /\ e.state = "open"
  BY DEF Finish, Inv, TypeOK
<1>2. /\ e.f \in 1..MaxFrame /\ e.aad \in Aads /\ e.idx \in 0..MaxIdx /\ e.total \in Nat
      /\ e.buf \in Seq(Chars) /\ pushed[s] \in Seq(Chars) /\ emitted[s] \in Seq(Frames)
      /\ e.f \in Nat \ {0} /\ e.idx \in Nat
  BY <1>1 DEF Inv, TypeOK, Encryptors
<1>3. OpenInv(s) /\ ChunkInv(s) /\ e.total = Len(pushed[s]) /\ Chunks(s) = Len(emitted[s])
  BY <1>1 DEF Inv, StreamInv, Chunks
<1>4. /\ Len(emitted[s]) = e.idx
      /\ Len(e.buf) < e.f
      /\ Rest(pushed[s], e.f, e.idx, e.buf)
      /\ \A n \in 1..e.idx :
           /\ emitted[s][n] = Chunk(s, e.f, e.aad, n - 1, Piece(pushed[s], e.f, n))
           /\ (n - 1) * e.f < Len(pushed[s])
  BY <1>3 DEF OpenInv, ChunkInv
<1>5. /\ enc' = [enc EXCEPT ![s] = After] /\ enc'[s] = After
      /\ pushed' = pushed /\ dec' = dec
  <2>1. enc' = [enc EXCEPT ![s].state = "finished"] /\ pushed' = pushed /\ dec' = dec
    BY DEF Finish
  <2>2. enc \in [Streams -> [state : {"none"}] \cup Encryptors]
    BY DEF Inv, TypeOK
  <2>3. [e EXCEPT !.state = "finished"] = After
    BY <1>1, FinishedRecord
  <2>4. enc' = [enc EXCEPT ![s] = After]
    BY <2>1, <2>3, Zenon
  <2> QED  BY <2>1, <2>2, <2>4
<1>6. /\ enc'[s] \in Encryptors /\ enc'[s].state = "finished" /\ enc'[s].f = e.f
      /\ enc'[s].aad = e.aad /\ enc'[s].total = e.total
  BY <1>1, <1>2, <1>5 DEF Encryptors
<1>7. /\ Len(e.buf) = 0 => Len(pushed[s]) <= e.idx * e.f
      /\ Len(e.buf) # 0 =>
           Len(pushed[s]) <= (e.idx + 1) * e.f /\ ((e.idx + 1) - 1) * e.f < Len(pushed[s])
  BY <1>2, <1>4, RestLength
<1>8. ASSUME NEW k \in 0..MaxIdx, NEW w \in Seq(Frames), Len(w) = k + 1,
             emitted' = [emitted EXCEPT ![s] = w],
             e.idx <= k, Len(pushed[s]) <= k * e.f, w[k + 1] = z(k),
             \A n \in 1..k :
               /\ w[n] = Chunk(s, e.f, e.aad, n - 1, Piece(pushed[s], e.f, n))
               /\ (n - 1) * e.f < Len(pushed[s])
      PROVE  TypeOK' /\ StreamInv(s)' /\ Prolongs(s)
  <2>1. emitted'[s] = w
    BY <1>8 DEF Inv, TypeOK
  <2>2. TypeOK'
    BY <1>5, <1>6, <1>8 DEF Inv, TypeOK
  <2>3. Chunks(s)' = k
    BY <1>6, <1>8, <2>1 DEF Chunks
  <2>4. ChunkInv(s)'
    BY <1>5, <1>6, <1>8, <2>1, <2>3 DEF ChunkInv
  <2>5. FinishedInv(s)'
    BY <1>3, <1>5, <1>6, <1>8, <2>1, <2>3 DEF FinishedInv
  <2>6. StreamInv(s)'
    BY <1>3, <1>5, <1>6, <2>4, <2>5 DEF StreamInv
  <2>7. Prolongs(s)
    BY <1>1, <1>3, <1>4, <1>5, <1>6, <1>8, <2>3 DEF Prolongs
  <2> QED  BY <2>2, <2>6, <2>7
<1>9. CASE e.buf = <<>>
  <2> DEFINE w == emitted[s] \o <<>> \o <<z(e.idx)>>
  <2>1. z(e.idx) \in Frames
    BY <1>2, FrameType
  <2>2. emitted' = [emitted EXCEPT ![s] = w]
    <3>1. e.idx + Len(<<>>) = e.idx
      BY <1>2
    <3> QED  BY <1>9, <3>1 DEF Finish
  <2> HIDE DEF z
  <2>3. /\ w \in Seq(Frames) /\ Len(w) = e.idx + 1 /\ w[e.idx + 1] = z(e.idx)
        /\ \A n \in 1..e.idx : w[n] = emitted[s][n]
    <3>1. emitted[s] \in Seq(Frames) /\ Len(emitted[s]) = e.idx
      BY <1>2, <1>4
    <3> DEFINE z0 == z(e.idx)
    <3> HIDE DEF z0
    <3>2. z0 \in Frames
      BY <2>1 DEF z0
    <3>3. /\ emitted[s] \o <<>> \o <<z0>> \in Seq(Frames)
          /\ Len(emitted[s] \o <<>> \o <<z0>>) = e.idx + 1
          /\ \A n \in 1..e.idx : (emitted[s] \o <<>> \o <<z0>>)[n] = emitted[s][n]
          /\ (emitted[s] \o <<>> \o <<z0>>)[e.idx + 1] = z0
      BY <3>1, <3>2, ProlongedByOne
    <3> QED  BY <3>3 DEF z0
  <2>4. Len(pushed[s]) <= e.idx * e.f
    BY <1>7, <1>9
  <2> HIDE DEF w
  <2>5. \A n \in 1..e.idx :
           /\ w[n] = Chunk(s, e.f, e.aad, n - 1, Piece(pushed[s], e.f, n))
           /\ (n - 1) * e.f < Len(pushed[s])
    BY <1>4, <2>3
  <2>6. e.idx <= e.idx
    BY <1>2
  <2> QED  BY <1>2, <1>8, <2>2, <2>3, <2>4, <2>5, <2>6
<1>10. CASE e.buf # <<>>
  <2> DEFINE w == emitted[s] \o <<c>> \o <<z(e.idx + 1)>>
  <2>1. Len(e.buf) \in Nat \ {0} /\ e.idx # MaxIdx
    BY <1>2, <1>3, <1>10 DEF OpenInv
  <2>2. e.idx + 1 \in 0..MaxIdx
    BY <1>2, <2>1
  <2>3. Filled(e.buf, e.f) = Piece(pushed[s], e.f, e.idx + 1)
    <3>1. Len(e.buf) <= e.f
      BY <1>2, <1>4
    <3> QED  BY <1>2, <1>4, <3>1, BufferIsPiece
  <2>4. c \in Frames /\ z(e.idx + 1) \in Frames
    <3>1. Piece(pushed[s], e.f, e.idx + 1) \in Seq(Codepoints)
      <4>1. pushed[s] \in Seq(Chars) /\ e.f \in Nat /\ e.idx + 1 \in Nat \ {0}
        BY <1>2
      <4> HIDE DEF e
      <4> QED  BY <4>1, PieceType
    <3> QED  BY <1>2, <2>2, <2>3, <3>1, FrameType
  <2>5. emitted' = [emitted EXCEPT ![s] = w]
    <3>1. e.idx + Len(<<c>>) = e.idx + 1
      BY <1>2
    <3> QED  BY <1>10, <3>1 DEF Finish
  <2>6. c = Chunk(s, e.f, e.aad, (e.idx + 1) - 1, Piece(pushed[s], e.f, e.idx + 1))
    <3>1. (e.idx + 1) - 1 = e.idx
      BY <1>2
    <3> QED  BY <2>3, <3>1
  <2> HIDE DEF z, c
  <2>7. /\ w \in Seq(Frames) /\ Len(w) = (e.idx + 1) + 1
        /\ w[(e.idx + 1) + 1] = z(e.idx + 1) /\ w[e.idx + 1] = c
        /\ \A n \in 1..e.idx : w[n] = emitted[s][n]
    <3>1. /\ w \in Seq(Frames) /\ Len(w) = (Len(emitted[s]) + 1) + 1
          /\ w[(Len(emitted[s]) + 1) + 1] = z(e.idx + 1) /\ w[Len(emitted[s]) + 1] = c
          /\ \A n \in 1..Len(emitted[s]) : w[n] = emitted[s][n]
      <4> DEFINE y == z(e.idx + 1)
      <4>1. y \in Frames /\ w = emitted[s] \o <<c>> \o <<y>>
        BY <2>4
      <4> HIDE DEF y, w
      <4>2. /\ w \in Seq(Frames) /\ Len(w) = (Len(emitted[s]) + 1) + 1
            /\ w[(Len(emitted[s]) + 1) + 1] = y /\ w[Len(emitted[s]) + 1] = c
            /\ \A n \in 1..Len(emitted[s]) : w[n] = emitted[s][n]
        BY <1>2, <2>4, <4>1, ProlongedByTwo
      <4> QED  BY <4>2 DEF y
    <3> HIDE DEF w
    <3> QED  BY <1>4, <3>1
  <2>8. Len(pushed[s]) <= (e.idx + 1) * e.f /\ ((e.idx + 1) - 1) * e.f < Len(pushed[s])
    BY <1>7, <2>1
  <2> HIDE DEF w
  <2>9. ASSUME NEW n \in 1..(e.idx + 1)
        PROVE  /\ w[n] = Chunk(s, e.f, e.aad, n - 1, Piece(pushed[s], e.f, n))
               /\ (n - 1) * e.f < Len(pushed[s])
    <3>1. CASE n = e.idx + 1
      BY <3>1, <2>6, <2>7, <2>8
    <3>2. CASE n # e.idx + 1
      <4>1. n \in 1..e.idx
        BY <1>2, <3>2
      <4> QED  BY <1>4, <2>7, <4>1
    <3> QED  BY <3>1, <3>2
  <2>10. e.idx <= e.idx + 1
    BY <1>2
  <2> QED  BY <1>8, <2>2, <2>5, <2>7, <2>8, <2>9, <2>10
<1> QED
  BY <1>9, <1>10

-----------------------------------------------------------------------------
(* The decryptor *)

\* An encryptor's step leaves what a decryptor has accepted, and has released, true.
LEMMA DecryptorKeeps ==
    ASSUME Inv, TypeOK', dec' = dec, \A s \in Streams : Prolongs(s)
    PROVE  DecInv' /\ ReleasedIsWhole' /\ GenuineAccepted'
<1>1. GenuineAccepted'
  BY DEF Inv, GenuineAccepted
<1>2. CASE dec.state \notin {"reading", "ok"}
  BY <1>1, <1>2 DEF DecInv, ReleasedIsWhole
<1>3. CASE dec.state \in {"reading", "ok"}
  <2> DEFINE s == dec.nonce
  <2>1. dec \in Decryptors
    BY <1>3 DEF Inv, TypeOK
  <2>2. /\ s \in Streams /\ dec.idx \in Nat /\ dec.f \in Nat /\ dec.delivered \in Seq(Codepoints)
        /\ pushed[s] \in Seq(Chars) /\ emitted[s] \in Seq(Frames) /\ Chunks(s) \in Int
    BY <2>1 DEF Decryptors, Inv, TypeOK, Chunks
  <2>3. Prolongs(s)
    BY <2>2
  <2>4. ReleasedIsWhole'
    BY <2>3 DEF Inv, ReleasedIsWhole, Prolongs
  <2>5. HeaderFits => HeaderFits'
    BY <2>3 DEF HeaderFits, Prolongs
  <2>6. ASSUME dec.state = "reading" PROVE AcceptedInv'
    <3>1. AcceptedInv
      BY <2>6 DEF Inv, DecInv
    <3>2. CASE dec.idx = 0
      BY <3>1, <3>2 DEF AcceptedInv
    <3>3. CASE dec.idx # 0
      <4>1. /\ HeaderFits /\ dec.idx <= Chunks(s)
            /\ dec.pending = Piece(pushed[s], dec.f, dec.idx)
            /\ Len(dec.delivered) = (dec.idx - 1) * dec.f
            /\ Agree(dec.delivered, pushed[s])
        BY <3>1, <3>3 DEF AcceptedInv
      <4>2. dec.idx \in 1..Chunks(s) /\ dec.f = enc[s].f /\ enc[s].state # "none"
        BY <2>2, <3>3, <4>1 DEF HeaderFits
      <4>3. (dec.idx - 1) * dec.f < Len(pushed[s])
        BY <2>2, <4>2 DEF Inv, StreamInv, ChunkInv
      <4>4. dec.idx <= Chunks(s)' /\ dec.pending = Piece(pushed'[s], dec.f, dec.idx)
        <5>1. Chunks(s)' \in Int
          BY <2>2 DEF TypeOK, Chunks
        <5> QED  BY <2>2, <2>3, <4>1, <4>2, <5>1 DEF Prolongs
      <4>5. Agree(dec.delivered, pushed'[s])
        <5>1. Len(dec.delivered) < Len(pushed[s])
          BY <4>1, <4>3
        <5>2. \A i \in 1..Len(dec.delivered) : i \in 1..Len(pushed[s])
          BY <2>2, <5>1
        <5>3. \A i \in 1..Len(dec.delivered) : i <= Len(pushed[s])
          BY <2>2, <5>1
        <5> QED  BY <2>3, <4>1, <4>2, <5>2, <5>3 DEF Prolongs, Agree
      <4> QED  BY <2>5, <3>3, <4>1, <4>4, <4>5 DEF AcceptedInv
    <3> QED  BY <3>2, <3>3
  <2>7. DecInv'
    BY <2>5, <2>6 DEF DecInv, Inv
  <2> QED  BY <1>1, <2>4, <2>7
<1> QED
  BY <1>2, <1>3

\* A frame is a chunk at its place or the sentinel at the end of its stream.
LEMMA FrameShape ==
    ASSUME Inv, NEW r \in Streams, NEW n \in 1..Len(emitted[r])
    PROVE  /\ enc[r] \in Encryptors
           /\ emitted[r][n].kind = "chunk" =>
                /\ n <= Chunks(r)
                /\ emitted[r][n] = Chunk(r, enc[r].f, enc[r].aad, n - 1, Piece(pushed[r], enc[r].f, n))
           /\ emitted[r][n].kind = "sentinel" =>
                /\ enc[r].state = "finished"
                /\ n = Chunks(r) + 1
                /\ emitted[r][n] = Sentinel(r, enc[r].f, enc[r].aad, Chunks(r), Len(pushed[r]))
<1>1. emitted[r] \in Seq(Frames) /\ StreamInv(r)
  BY DEF Inv, TypeOK
<1>2. enc[r].state # "none"
  BY <1>1 DEF StreamInv
<1>3. enc[r] \in Encryptors
  BY <1>2 DEF Inv, TypeOK
<1>4. enc[r].state \in {"open", "finished"}
  BY <1>3 DEF Encryptors
<1>5. CASE n <= Chunks(r)
  <2>1. emitted[r][n] = Chunk(r, enc[r].f, enc[r].aad, n - 1, Piece(pushed[r], enc[r].f, n))
    BY <1>1, <1>2, <1>5 DEF StreamInv, ChunkInv, Chunks
  <2>2. emitted[r][n].kind = "chunk"
    BY <2>1 DEF Chunk
  <2> QED  BY <1>3, <1>5, <2>1, <2>2
<1>6. CASE ~(n <= Chunks(r))
  <2>1. enc[r].state = "finished" /\ n = Len(emitted[r]) /\ n = Chunks(r) + 1
    BY <1>1, <1>4, <1>6 DEF Chunks
  <2>2. emitted[r][n] = Sentinel(r, enc[r].f, enc[r].aad, Chunks(r), Len(pushed[r]))
    BY <1>1, <2>1 DEF StreamInv, FinishedInv
  <2>3. emitted[r][n].kind = "sentinel"
    BY <2>2 DEF Sentinel
  <2> QED  BY <1>3, <2>1, <2>2, <2>3
<1> QED
  BY <1>5, <1>6

\* A decryptor by its fields, and the updates that its steps make.
Decryptor(st, n, f, a, i, d, p, r, g) ==
    [state |-> st, nonce |-> n, f |-> f, aad |-> a, idx |-> i, delivered |-> d,
     pending |-> p, read |-> r, genuine |-> g]

LEMMA DecryptorFields ==
    ASSUME NEW d \in Decryptors
    PROVE  d = Decryptor(d.state, d.nonce, d.f, d.aad, d.idx, d.delivered, d.pending,
                         d.read, d.genuine)
  BY DEF Decryptors, Decryptor

Taken(e, g, d, p, i) ==
    [[e EXCEPT !.genuine = g, !.read = @ + 1] EXCEPT !.delivered = d, !.pending = p, !.idx = i]

LEMMA ChunkTaken ==
    ASSUME NEW e \in Decryptors, NEW g, NEW d, NEW p, NEW i
    PROVE  Taken(e, g, d, p, i) =
           Decryptor(e.state, e.nonce, e.f, e.aad, i, d, p, e.read + 1, g)
<1> DEFINE e1 == [e EXCEPT !.genuine = g]
           e2 == [e1 EXCEPT !.read = e.read + 1]
           e3 == [e2 EXCEPT !.delivered = d]
           e4 == [e3 EXCEPT !.pending = p]
           e5 == [e4 EXCEPT !.idx = i]
<1> HIDE DEF e1, e2, e3, e4, e5
<1>1. e1 = Decryptor(e.state, e.nonce, e.f, e.aad, e.idx, e.delivered, e.pending, e.read, g)
  BY DecryptorFields DEF e1, Decryptor
<1>2. e2 = Decryptor(e.state, e.nonce, e.f, e.aad, e.idx, e.delivered, e.pending, e.read + 1, g)
  BY <1>1 DEF e2, Decryptor
<1>3. e3 = Decryptor(e.state, e.nonce, e.f, e.aad, e.idx, d, e.pending, e.read + 1, g)
  BY <1>2 DEF e3, Decryptor
<1>4. e4 = Decryptor(e.state, e.nonce, e.f, e.aad, e.idx, d, p, e.read + 1, g)
  BY <1>3 DEF e4, Decryptor
<1>5. e5 = Decryptor(e.state, e.nonce, e.f, e.aad, i, d, p, e.read + 1, g)
  BY <1>4 DEF e5, Decryptor
<1> QED
  BY <1>5, Zenon DEF e1, e2, e3, e4, e5, Taken

Refused(e, g) ==
    [[e EXCEPT !.genuine = g, !.read = @ + 1] EXCEPT !.state = "error"]

LEMMA ChunkRefused ==
    ASSUME NEW e \in Decryptors, NEW g
    PROVE  Refused(e, g) =
           Decryptor("error", e.nonce, e.f, e.aad, e.idx, e.delivered, e.pending, e.read + 1, g)
<1> DEFINE e1 == [e EXCEPT !.genuine = g]
           e2 == [e1 EXCEPT !.read = e.read + 1]
           e3 == [e2 EXCEPT !.state = "error"]
<1> HIDE DEF e1, e2, e3
<1>1. e1 = Decryptor(e.state, e.nonce, e.f, e.aad, e.idx, e.delivered, e.pending, e.read, g)
  BY DecryptorFields DEF e1, Decryptor
<1>2. e2 = Decryptor(e.state, e.nonce, e.f, e.aad, e.idx, e.delivered, e.pending, e.read + 1, g)
  BY <1>1 DEF e2, Decryptor
<1>3. e3 = Decryptor("error", e.nonce, e.f, e.aad, e.idx, e.delivered, e.pending, e.read + 1, g)
  BY <1>2 DEF e3, Decryptor
<1> QED
  BY <1>3, Zenon DEF e1, e2, e3, Refused

Ended(e, st, d, g) ==
    [e EXCEPT !.state = st, !.delivered = d, !.genuine = g, !.read = @ + 1]

LEMMA SentinelRead ==
    ASSUME NEW e \in Decryptors, NEW st, NEW d, NEW g
    PROVE  Ended(e, st, d, g) =
           Decryptor(st, e.nonce, e.f, e.aad, e.idx, d, e.pending, e.read + 1, g)
<1> DEFINE e1 == [e EXCEPT !.state = st]
           e2 == [e1 EXCEPT !.delivered = d]
           e3 == [e2 EXCEPT !.genuine = g]
           e4 == [e3 EXCEPT !.read = e.read + 1]
<1> HIDE DEF e1, e2, e3, e4
<1>1. e1 = Decryptor(st, e.nonce, e.f, e.aad, e.idx, e.delivered, e.pending, e.read, e.genuine)
  BY DecryptorFields DEF e1, Decryptor
<1>2. e2 = Decryptor(st, e.nonce, e.f, e.aad, e.idx, d, e.pending, e.read, e.genuine)
  BY <1>1 DEF e2, Decryptor
<1>3. e3 = Decryptor(st, e.nonce, e.f, e.aad, e.idx, d, e.pending, e.read, g)
  BY <1>2 DEF e3, Decryptor
<1>4. e4 = Decryptor(st, e.nonce, e.f, e.aad, e.idx, d, e.pending, e.read + 1, g)
  BY <1>3 DEF e4, Decryptor
<1> QED
  BY <1>4, Zenon DEF e1, e2, e3, e4, Ended

Broken(e) ==
    [e EXCEPT !.state = "error", !.genuine = "no"]

LEMMA GarbageRead ==
    ASSUME NEW e \in Decryptors
    PROVE  Broken(e) =
           Decryptor("error", e.nonce, e.f, e.aad, e.idx, e.delivered, e.pending, e.read, "no")
<1> DEFINE e1 == [e EXCEPT !.state = "error"]
           e2 == [e1 EXCEPT !.genuine = "no"]
<1> HIDE DEF e1, e2
<1>1. e1 = Decryptor("error", e.nonce, e.f, e.aad, e.idx, e.delivered, e.pending, e.read, e.genuine)
  BY DecryptorFields DEF e1, Decryptor
<1>2. e2 = Decryptor("error", e.nonce, e.f, e.aad, e.idx, e.delivered, e.pending, e.read, "no")
  BY <1>1 DEF e2, Decryptor
<1> QED
  BY <1>2, Zenon DEF e1, e2, Broken

\* The k-th piece p of a text put after the pieces before it.
JoinsUp(d, p, text, f, k) ==
    /\ d \o p \in Seq(Codepoints)
    /\ Len(p) = f
    /\ Len(d \o p) = k * f
    /\ k * f = Len(d) + f
    /\ Agree(d \o p, text)

\* Pieces put together again agree with the text as far as it goes.
LEMMA Joined ==
    ASSUME NEW text \in Seq(Chars), NEW f \in Nat \ {0}, NEW k \in Nat \ {0},
           NEW d \in Seq(Codepoints), NEW p, p = Piece(text, f, k),
           Len(d) = (k - 1) * f, Agree(d, text)
    PROVE  JoinsUp(d, p, text, f, k)
<1> DEFINE m == (k - 1) * f
<1>1. m \in Nat /\ k * f = m + f
  BY SMT
<1>2. p \in Seq(Codepoints) /\ Len(p) = f
  BY PieceType
<1>3. \A j \in 1..f : m + j <= Len(text) => p[j] = text[m + j]
  BY DEF Piece
<1>4. Len(d) = m
  OBVIOUS
<1> HIDE DEF m
<1>5. d \o p \in Seq(Codepoints) /\ Len(d \o p) = m + f
  BY <1>1, <1>2, <1>4
<1>6. ASSUME NEW i \in 1..(m + f), i <= Len(text) PROVE (d \o p)[i] = text[i]
  <2>1. CASE i <= m
    BY <2>1, <1>1, <1>2, <1>4, <1>6 DEF Agree
  <2>2. CASE i > m
    <3> DEFINE j == i - m
    <3>1. j \in 1..f /\ i = m + j
      BY <2>2, <1>1
    <3>2. (d \o p)[i] = p[j]
      BY <2>2, <3>1, <1>1, <1>2, <1>4
    <3> QED  BY <3>1, <3>2, <1>3, <1>6
  <2>3. i <= m \/ i > m
    BY <1>1, i \in Int
  <2> QED  BY <2>1, <2>2, <2>3
<1>7. Agree(d \o p, text)
  BY <1>5, <1>6 DEF Agree
<1> QED
  BY <1>1, <1>2, <1>4, <1>5, <1>7 DEF JoinsUp

\* What is cut from a longer sequence that begins with a text is the text.
LEMMA CutToText ==
    ASSUME NEW text \in Seq(Chars), NEW w \in Seq(Codepoints), Len(text) <= Len(w), Agree(w, text)
    PROVE  SubSeq(w, 1, Len(text)) = text
  BY DEF Agree

\* The decryptor that reads, and the facts about the stream its header names.
LEMMA ReaderFacts ==
    ASSUME Inv, dec.state = "reading"
    PROVE  /\ dec \in Decryptors
           /\ dec.nonce \in Streams /\ dec.f \in 1..MaxFrame /\ dec.aad \in Aads
           /\ dec.f \in Nat \ {0} /\ dec.idx \in 0..MaxIdx /\ dec.idx \in Nat /\ dec.read \in Nat
           /\ dec.delivered \in Seq(Codepoints) /\ dec.pending \in Seq(Codepoints)
           /\ pushed[dec.nonce] \in Seq(Chars) /\ emitted[dec.nonce] \in Seq(Frames)
           /\ AcceptedInv
           /\ dec.genuine = "yes" => HeaderFits /\ dec.read = dec.idx
           /\ dec = Decryptor("reading", dec.nonce, dec.f, dec.aad, dec.idx, dec.delivered,
                              dec.pending, dec.read, dec.genuine)
<1>1. dec \in Decryptors
  BY DEF Inv, TypeOK
<1>2. /\ dec.nonce \in Streams /\ dec.f \in 1..MaxFrame /\ dec.aad \in Aads
      /\ dec.f \in Nat \ {0} /\ dec.idx \in 0..MaxIdx /\ dec.idx \in Nat /\ dec.read \in Nat
      /\ dec.delivered \in Seq(Codepoints) /\ dec.pending \in Seq(Codepoints)
  BY <1>1 DEF Decryptors
<1>3. pushed[dec.nonce] \in Seq(Chars) /\ emitted[dec.nonce] \in Seq(Frames)
  BY <1>2 DEF Inv, TypeOK
<1>4. AcceptedInv /\ (dec.genuine = "yes" => HeaderFits /\ dec.read = dec.idx)
  BY DEF Inv, DecInv
<1> QED
  BY <1>1, <1>2, <1>3, <1>4, DecryptorFields

\* Chunks stay below the limit of the index.
LEMMA ChunkLimit ==
    ASSUME Inv, NEW r \in Streams, enc[r] \in Encryptors
    PROVE  Chunks(r) \in 0..MaxIdx
<1>1. enc[r].state \in {"open", "finished"} /\ enc[r].idx \in 0..MaxIdx /\ StreamInv(r)
  BY DEF Encryptors, Inv
<1>2. Len(emitted[r]) \in Nat
  BY DEF Inv, TypeOK
<1> QED
  BY <1>1, <1>2 DEF StreamInv, OpenInv, FinishedInv, Chunks

\* A frame that verifies comes from the stream of the decryptor's header, at the
\* decryptor's position.
LEMMA VerifiedFrame ==
    ASSUME Inv, dec.state = "reading", NEW fr \in Emitted, Verifies(fr)
    PROVE  /\ HeaderFits
           /\ enc[dec.nonce] \in Encryptors
           /\ fr.kind = "chunk" =>
                /\ dec.idx + 1 <= Chunks(dec.nonce)
                /\ fr.cps = Piece(pushed[dec.nonce], dec.f, dec.idx + 1)
           /\ fr.kind = "sentinel" =>
                /\ enc[dec.nonce].state = "finished"
                /\ dec.idx = Chunks(dec.nonce)
                /\ fr.total = Len(pushed[dec.nonce])
<1>1. PICK r \in Streams : \E n \in 1..Len(emitted[r]) : fr = emitted[r][n]
  BY DEF Emitted, Inv, TypeOK
<1>2. PICK n \in 1..Len(emitted[r]) : fr = emitted[r][n]
  BY <1>1
<1>3. dec.idx \in Nat
  BY ReaderFacts
<1>4. /\ enc[r] \in Encryptors
      /\ fr.kind = "chunk" =>
           /\ n <= Chunks(r)
           /\ fr = Chunk(r, enc[r].f, enc[r].aad, n - 1, Piece(pushed[r], enc[r].f, n))
      /\ fr.kind = "sentinel" =>
           /\ enc[r].state = "finished"
           /\ n = Chunks(r) + 1
           /\ fr = Sentinel(r, enc[r].f, enc[r].aad, Chunks(r), Len(pushed[r]))
  BY <1>2, FrameShape
<1>5. fr.header = <<dec.f, dec.nonce>> /\ fr.aad = dec.aad /\ fr.idx = dec.idx
  BY DEF Verifies, stream_v8_header
<1>6. fr.kind \in {"chunk", "sentinel"}
  <2>1. fr \in Frames
    BY <1>2 DEF Inv, TypeOK
  <2> QED  BY <2>1 DEF Frames
<1>7. fr.header = <<enc[r].f, r>> /\ fr.aad = enc[r].aad
  BY <1>4, <1>6 DEF Chunk, Sentinel, stream_v8_header
<1>8. r = dec.nonce /\ enc[r].f = dec.f /\ enc[r].aad = dec.aad
  BY <1>5, <1>7
<1>9. enc[r].state # "none"
  BY <1>4 DEF Encryptors
<1>10. ASSUME fr.kind = "chunk"
       PROVE  dec.idx + 1 <= Chunks(r) /\ fr.cps = Piece(pushed[r], dec.f, dec.idx + 1)
  <2>1. fr.idx = n - 1 /\ fr.cps = Piece(pushed[r], enc[r].f, n)
    BY <1>4, <1>10 DEF Chunk
  <2>2. n = dec.idx + 1
    BY <2>1, <1>3, <1>5
  <2> QED  BY <2>1, <2>2, <1>4, <1>8, <1>10
<1>11. ASSUME fr.kind = "sentinel"
       PROVE  dec.idx = Chunks(r) /\ fr.total = Len(pushed[r])
  BY <1>4, <1>5, <1>11 DEF Sentinel
<1> QED
  BY <1>4, <1>8, <1>9, <1>10, <1>11 DEF HeaderFits

\* The next frame of the stream that the header names verifies.
LEMMA GenuineVerifies ==
    ASSUME Inv, dec.state = "reading", NEW fr, Follows(fr) = "yes"
    PROVE  /\ dec.genuine = "yes" /\ HeaderFits
           /\ fr.kind = "chunk" => Verifies(fr) /\ dec.idx # MaxIdx
           /\ fr.kind = "sentinel" =>
                /\ Verifies(fr)
                /\ enc[dec.nonce].state = "finished"
                /\ dec.idx = Chunks(dec.nonce)
                /\ fr.total = Len(pushed[dec.nonce])
<1> DEFINE s == dec.nonce
           n == dec.read + 1
<1>1. dec.genuine = "yes" /\ dec.read < Len(emitted[s]) /\ emitted[s][n] = fr
  BY DEF Follows
<1>2. /\ HeaderFits /\ dec.read = dec.idx /\ s \in Streams /\ dec.idx \in 0..MaxIdx
      /\ dec.read \in Nat /\ emitted[s] \in Seq(Frames)
  BY <1>1, ReaderFacts
<1>3. n \in 1..Len(emitted[s]) /\ n - 1 = dec.idx
  BY <1>1, <1>2
<1>4. /\ enc[s] \in Encryptors
      /\ fr.kind = "chunk" =>
           /\ n <= Chunks(s)
           /\ fr = Chunk(s, enc[s].f, enc[s].aad, n - 1, Piece(pushed[s], enc[s].f, n))
      /\ fr.kind = "sentinel" =>
           /\ enc[s].state = "finished"
           /\ n = Chunks(s) + 1
           /\ fr = Sentinel(s, enc[s].f, enc[s].aad, Chunks(s), Len(pushed[s]))
  BY <1>1, <1>2, <1>3, FrameShape
<1>5. Chunks(s) \in 0..MaxIdx
  BY <1>2, <1>4, ChunkLimit
<1>6. dec.f = enc[s].f /\ dec.aad = enc[s].aad
  BY <1>2 DEF HeaderFits
<1>7. ASSUME fr.kind = "chunk" PROVE Verifies(fr) /\ dec.idx # MaxIdx
  <2>1. n <= Chunks(s) /\ dec.idx # MaxIdx
    BY <1>2, <1>3, <1>4, <1>5, <1>7
  <2>2. fr.header = stream_v8_header(enc[s].f, s) /\ fr.aad = enc[s].aad /\ fr.idx = n - 1
    BY <1>4, <1>7 DEF Chunk
  <2> QED  BY <2>1, <2>2, <1>3, <1>6 DEF Verifies
<1>8. ASSUME fr.kind = "sentinel"
      PROVE  Verifies(fr) /\ enc[s].state = "finished" /\ dec.idx = Chunks(s)
             /\ fr.total = Len(pushed[s])
  <2>1. enc[s].state = "finished" /\ dec.idx = Chunks(s)
    BY <1>2, <1>3, <1>4, <1>5, <1>8
  <2>2. /\ fr.header = stream_v8_header(enc[s].f, s) /\ fr.aad = enc[s].aad
        /\ fr.idx = Chunks(s) /\ fr.total = Len(pushed[s])
    BY <1>4, <1>8 DEF Sentinel
  <2> QED  BY <2>1, <2>2, <1>6 DEF Verifies
<1> QED
  BY <1>1, <1>2, <1>7, <1>8

\* A header: nothing accepted yet.
LEMMA ReadHeaderStep ==
    ASSUME Inv, NEW s \in Streams, NEW f \in 1..MaxFrame, NEW a \in Aads, ReadHeader(s, f, a)
    PROVE  dec' \in Decryptors /\ DecInv' /\ ReleasedIsWhole' /\ GenuineAccepted'
<1> DEFINE g == IF enc[s].state # "none" /\ f = enc[s].f /\ a = enc[s].aad THEN "yes" ELSE "no"
<1>1. dec' = Decryptor("reading", s, f, a, 0, <<>>, <<>>, 0, g) /\ enc' = enc
  BY DEF ReadHeader, Decryptor
<1>2. g \in {"yes", "no"}
  OBVIOUS
<1>3. dec' \in Decryptors
  BY <1>1, <1>2 DEF Decryptor, Decryptors
<1>4. /\ dec'.state = "reading" /\ dec'.nonce = s /\ dec'.f = f /\ dec'.aad = a /\ dec'.idx = 0
      /\ dec'.delivered = <<>> /\ dec'.pending = <<>> /\ dec'.read = 0 /\ dec'.genuine = g
  BY <1>1 DEF Decryptor
<1> QED
  BY <1>1, <1>3, <1>4 DEF DecInv, AcceptedInv, HeaderFits, ReleasedIsWhole, GenuineAccepted

\* A chunk: the next piece of the header's stream, or an error on a stream that was
\* tampered with.
LEMMA ReadChunkStep ==
    ASSUME Inv, NEW fr \in Emitted, ReadChunk(fr)
    PROVE  dec' \in Decryptors /\ DecInv' /\ ReleasedIsWhole' /\ GenuineAccepted'
<1> DEFINE s    == dec.nonce
           g    == Follows(fr)
           w    == dec.delivered \o dec.pending
<1>1. dec.state = "reading" /\ fr.kind = "chunk"
      /\ enc' = enc /\ emitted' = emitted /\ pushed' = pushed
  BY DEF ReadChunk
<1>2. /\ s \in Streams /\ dec.f \in 1..MaxFrame /\ dec.f \in Nat \ {0} /\ dec.aad \in Aads
      /\ dec.idx \in 0..MaxIdx /\ dec.idx \in Nat /\ dec.read \in Nat
      /\ dec.delivered \in Seq(Codepoints) /\ dec.pending \in Seq(Codepoints)
      /\ pushed[s] \in Seq(Chars)
      /\ AcceptedInv
      /\ dec.genuine = "yes" => HeaderFits /\ dec.read = dec.idx
  BY <1>1, ReaderFacts
<1>3. dec \in Decryptors
  BY <1>1, ReaderFacts
<1>4. g \in {"yes", "no"}
  BY DEF Follows
<1>5. CASE Verifies(fr) /\ dec.idx # MaxIdx
  <2>1. dec' = Taken(dec, g, w, fr.cps, dec.idx + 1)
    BY <1>5, Zenon DEF ReadChunk, Taken
  <2>2. dec' = Decryptor("reading", s, dec.f, dec.aad, dec.idx + 1, w, fr.cps, dec.read + 1, g)
    BY <1>1, <1>3, <2>1, ChunkTaken
  <2>3. /\ HeaderFits /\ enc[s] \in Encryptors
        /\ dec.idx + 1 <= Chunks(s)
        /\ fr.cps = Piece(pushed[s], dec.f, dec.idx + 1)
    BY <1>1, <1>5, VerifiedFrame
  <2>4. Chunks(s) \in 0..MaxIdx
    BY <1>2, <2>3, ChunkLimit
  <2>5. /\ fr.cps \in Seq(Codepoints)
        /\ dec.idx + 1 \in 0..MaxIdx /\ dec.idx + 1 \in 1..Chunks(s)
        /\ (dec.idx + 1) - 1 = dec.idx /\ dec.idx + 1 # 0
    <3>1. dec.idx + 1 \in Nat \ {0} /\ (dec.idx + 1) - 1 = dec.idx
      BY <1>2
    <3>2. dec.f \in Nat /\ pushed[s] \in Seq(Chars)
      BY <1>2
    <3>3. Piece(pushed[s], dec.f, dec.idx + 1) \in Seq(Codepoints)
      BY <3>1, <3>2, PieceType
    <3>4. dec.idx + 1 <= Chunks(s)
      BY <2>3
    <3>5. dec.idx + 1 \in 0..MaxIdx /\ dec.idx + 1 \in 1..Chunks(s)
      BY <2>4, <3>1, <3>4
    <3> QED  BY <2>3, <3>1, <3>3, <3>5
  <2>6. /\ w \in Seq(Codepoints)
        /\ Len(w) = dec.idx * dec.f
        /\ Agree(w, pushed[s])
    <3>1. CASE dec.idx = 0
      <4>1. dec.delivered = <<>> /\ dec.pending = <<>>
        BY <1>2, <3>1 DEF AcceptedInv
      <4>2. w \in Seq(Codepoints) /\ Len(w) = 0
        BY <4>1
      <4>3. dec.idx * dec.f = 0
        BY <1>2, <3>1, SMT
      <4> HIDE DEF w
      <4> QED  BY <4>2, <4>3 DEF Agree
    <3>2. CASE dec.idx # 0
      <4>1. /\ dec.pending = Piece(pushed[s], dec.f, dec.idx)
            /\ Len(dec.delivered) = (dec.idx - 1) * dec.f
            /\ Agree(dec.delivered, pushed[s])
        BY <1>2, <3>2 DEF AcceptedInv
      <4>2. dec.idx \in Nat \ {0}
        BY <1>2, <3>2
      <4>3. /\ pushed[s] \in Seq(Chars) /\ dec.f \in Nat \ {0}
            /\ dec.delivered \in Seq(Codepoints)
        BY <1>2
      <4>4. JoinsUp(dec.delivered, dec.pending, pushed[s], dec.f, dec.idx)
        BY <4>1, <4>2, <4>3, Joined
      <4> QED  BY <4>4 DEF JoinsUp
    <3> QED  BY <3>1, <3>2
  <2> HIDE DEF w, g
  <2>8. dec' \in Decryptors
    BY <1>2, <1>4, <2>2, <2>5, <2>6 DEF Decryptor, Decryptors
  <2>9. /\ dec'.state = "reading" /\ dec'.nonce = s /\ dec'.f = dec.f /\ dec'.aad = dec.aad
        /\ dec'.idx = dec.idx + 1 /\ dec'.delivered = w /\ dec'.pending = fr.cps
        /\ dec'.read = dec.read + 1 /\ dec'.genuine = g
    BY <2>2 DEF Decryptor
  <2>10. HeaderFits' /\ Chunks(s)' = Chunks(s)
    BY <1>1, <2>3, <2>9 DEF HeaderFits, Chunks
  <2>11. AcceptedInv'
    BY <1>1, <2>3, <2>5, <2>6, <2>9, <2>10 DEF AcceptedInv, Chunks
  <2>12. g = "yes" => dec.read = dec.idx
    BY <1>2 DEF Follows, g
  <2> QED
    BY <2>8, <2>9, <2>10, <2>11, <2>12 DEF DecInv, ReleasedIsWhole, GenuineAccepted
<1>6. CASE ~(Verifies(fr) /\ dec.idx # MaxIdx)
  <2>1. dec' = Refused(dec, g)
    BY <1>6, Zenon DEF ReadChunk, Refused
  <2>2. dec' = Decryptor("error", s, dec.f, dec.aad, dec.idx, dec.delivered, dec.pending,
                         dec.read + 1, g)
    BY <1>3, <2>1, ChunkRefused
  <2>3. g # "yes"
    BY <1>1, <1>6, GenuineVerifies
  <2> HIDE DEF g
  <2>4. dec' \in Decryptors
    BY <1>2, <1>4, <2>2 DEF Decryptor, Decryptors
  <2>5. dec'.state = "error" /\ dec'.genuine = "no"
    BY <1>4, <2>2, <2>3 DEF Decryptor
  <2> QED  BY <2>4, <2>5 DEF DecInv, ReleasedIsWhole, GenuineAccepted
<1> QED
  BY <1>5, <1>6

\* At the end of a finished stream the number of codepoints fits what was decoded.
LEMMA CountFits ==
    ASSUME Inv, dec.state = "reading", HeaderFits, enc[dec.nonce].state = "finished",
           dec.idx = Chunks(dec.nonce)
    PROVE  LET w == dec.delivered \o dec.pending
               n == Len(pushed[dec.nonce])
           IN  /\ Consistent(n, dec.delivered, dec.pending)
               /\ SubSeq(w, 1, n) = pushed[dec.nonce]
<1> DEFINE s == dec.nonce
           w == dec.delivered \o dec.pending
           n == Len(pushed[s])
<1>1. /\ s \in Streams /\ dec.f \in Nat \ {0} /\ dec.idx \in Nat
      /\ dec.delivered \in Seq(Codepoints) /\ dec.pending \in Seq(Codepoints)
      /\ pushed[s] \in Seq(Chars) /\ n \in Nat
      /\ AcceptedInv
  BY ReaderFacts
<1>2. dec.f = enc[s].f /\ ChunkInv(s) /\ FinishedInv(s)
  BY <1>1 DEF HeaderFits, Inv, StreamInv
<1>3. n <= dec.idx * dec.f
  BY <1>2 DEF FinishedInv
<1>4. CASE dec.idx = 0
  <2>1. dec.delivered = <<>> /\ dec.pending = <<>>
    BY <1>1, <1>4 DEF AcceptedInv
  <2>2. dec.idx * dec.f = 0
    BY <1>1, <1>4, SMT
  <2>3. n = 0
    BY <1>1, <1>3, <2>2
  <2>4. pushed[s] = <<>>
    BY <1>1, <2>3
  <2>5. Consistent(n, dec.delivered, dec.pending)
    BY <2>1, <2>3 DEF Consistent
  <2>6. SubSeq(<<>> \o <<>>, 1, 0) = <<>>
    OBVIOUS
  <2> QED  BY <2>1, <2>3, <2>4, <2>5, <2>6
<1>5. CASE dec.idx # 0
  <2>1. /\ dec.pending = Piece(pushed[s], dec.f, dec.idx)
        /\ Len(dec.delivered) = (dec.idx - 1) * dec.f
        /\ Agree(dec.delivered, pushed[s])
    BY <1>1, <1>5 DEF AcceptedInv
  <2>2. dec.idx \in Nat \ {0} /\ dec.idx \in 1..Chunks(s)
    BY <1>1, <1>5
  <2>3. JoinsUp(dec.delivered, dec.pending, pushed[s], dec.f, dec.idx)
    BY <1>1, <2>1, <2>2, Joined
  <2>4. (dec.idx - 1) * dec.f < n
    BY <1>2, <2>2 DEF ChunkInv
  <2>5. dec.pending # <<>>
    BY <1>1, <2>3 DEF JoinsUp
  <2>6. Len(dec.delivered) < n /\ n <= Len(dec.delivered) + Len(dec.pending)
    BY <1>3, <2>1, <2>3, <2>4 DEF JoinsUp
  <2>7. Consistent(n, dec.delivered, dec.pending)
    BY <1>1, <2>5, <2>6 DEF Consistent
  <2>8. w \in Seq(Codepoints) /\ n <= Len(w) /\ Agree(w, pushed[s])
    BY <1>3, <2>3 DEF JoinsUp
  <2>9. SubSeq(w, 1, n) = pushed[s]
    BY <1>1, <2>8, CutToText
  <2> QED  BY <2>7, <2>9
<1> QED
  BY <1>4, <1>5

\* A sentinel: the whole plaintext, or an error on a stream that was tampered with.
LEMMA ReadSentinelStep ==
    ASSUME Inv, NEW fr \in Emitted, NEW trailing \in BOOLEAN, ReadSentinel(fr, trailing)
    PROVE  dec' \in Decryptors /\ DecInv' /\ ReleasedIsWhole' /\ GenuineAccepted'
<1> DEFINE s  == dec.nonce
           ok == Verifies(fr) /\ Consistent(fr.total, dec.delivered, dec.pending) /\ ~trailing
           w  == dec.delivered \o dec.pending
           st == IF ok THEN "ok" ELSE "error"
           d  == IF ok THEN SubSeq(w, 1, fr.total) ELSE dec.delivered
           g  == IF trailing THEN "no" ELSE Follows(fr)
<1>1. dec.state = "reading" /\ fr.kind = "sentinel"
      /\ enc' = enc /\ emitted' = emitted /\ pushed' = pushed
  BY DEF ReadSentinel
<1>2. /\ dec \in Decryptors
      /\ s \in Streams /\ dec.f \in 1..MaxFrame /\ dec.aad \in Aads /\ dec.idx \in 0..MaxIdx
      /\ dec.read \in Nat
      /\ dec.delivered \in Seq(Codepoints) /\ dec.pending \in Seq(Codepoints)
      /\ pushed[s] \in Seq(Chars)
  BY <1>1, ReaderFacts
<1>3. dec' = Ended(dec, st, d, g)
  BY Zenon DEF ReadSentinel, Ended
<1>4. dec' = Decryptor(st, s, dec.f, dec.aad, dec.idx, d, dec.pending, dec.read + 1, g)
  <2> HIDE DEF st, d, g
  <2> QED  BY <1>2, <1>3, SentinelRead
<1>5. g \in {"yes", "no"}
  BY DEF Follows
<1>6. CASE ok
  <2>1. /\ HeaderFits /\ enc[s].state = "finished" /\ dec.idx = Chunks(s)
        /\ fr.total = Len(pushed[s])
    BY <1>1, <1>6, VerifiedFrame
  <2>2. SubSeq(w, 1, Len(pushed[s])) = pushed[s]
    BY <1>1, <2>1, CountFits
  <2>3. st = "ok" /\ d = pushed[s]
    BY <1>6, <2>1, <2>2
  <2>4. d \in Seq(Codepoints)
    BY <1>2, <2>3, CharsAreCodepoints
  <2> HIDE DEF st, d, g
  <2>5. dec' \in Decryptors
    BY <1>2, <1>4, <1>5, <2>3, <2>4 DEF Decryptor, Decryptors
  <2>6. dec'.state = "ok" /\ dec'.nonce = s /\ dec'.aad = dec.aad /\ dec'.delivered = pushed[s]
    BY <1>4, <2>3 DEF Decryptor
  <2> QED
    BY <1>1, <2>1, <2>5, <2>6 DEF DecInv, ReleasedIsWhole, GenuineAccepted, HeaderFits
<1>7. CASE ~ok
  <2>1. g # "yes"
    <3>1. ASSUME g = "yes" PROVE FALSE
      <4>1. ~trailing /\ Follows(fr) = "yes"
        BY <3>1
      <4>2. /\ HeaderFits /\ Verifies(fr) /\ enc[s].state = "finished"
            /\ dec.idx = Chunks(s) /\ fr.total = Len(pushed[s])
        BY <1>1, <4>1, GenuineVerifies
      <4>3. Consistent(fr.total, dec.delivered, dec.pending)
        BY <1>1, <4>2, CountFits
      <4> QED  BY <1>7, <4>1, <4>2, <4>3
    <3> QED  BY <3>1
  <2>2. st = "error" /\ d = dec.delivered
    BY <1>7
  <2> HIDE DEF st, d, g
  <2>3. dec' \in Decryptors
    BY <1>2, <1>4, <1>5, <2>2 DEF Decryptor, Decryptors
  <2>4. dec'.state = "error" /\ dec'.genuine = "no"
    BY <1>4, <1>5, <2>1, <2>2 DEF Decryptor
  <2> QED  BY <2>3, <2>4 DEF DecInv, ReleasedIsWhole, GenuineAccepted
<1> QED
  BY <1>6, <1>7

LEMMA ReadGarbageStep ==
    ASSUME Inv, ReadGarbage
    PROVE  dec' \in Decryptors /\ DecInv' /\ ReleasedIsWhole' /\ GenuineAccepted'
<1>1. dec' = Broken(dec) /\ dec.state = "reading"
  BY Zenon DEF ReadGarbage, Broken
<1>2. /\ dec \in Decryptors
      /\ dec.nonce \in Streams /\ dec.f \in 1..MaxFrame /\ dec.aad \in Aads
      /\ dec.idx \in 0..MaxIdx /\ dec.read \in Nat
      /\ dec.delivered \in Seq(Codepoints) /\ dec.pending \in Seq(Codepoints)
  BY <1>1, ReaderFacts
<1>3. dec' = Decryptor("error", dec.nonce, dec.f, dec.aad, dec.idx, dec.delivered, dec.pending,
                       dec.read, "no")
  BY <1>1, <1>2, GarbageRead
<1>4. dec' \in Decryptors
  BY <1>2, <1>3 DEF Decryptor, Decryptors
<1>5. dec'.state = "error" /\ dec'.genuine = "no"
  BY <1>3 DEF Decryptor
<1> QED
  BY <1>4, <1>5 DEF DecInv, ReleasedIsWhole, GenuineAccepted

-----------------------------------------------------------------------------
(* The theorems *)

\* A step of one encryptor.
LEMMA EncryptorStep ==
    ASSUME Inv, NEW s \in Streams, TypeOK', StreamInv(s)', Prolongs(s), dec' = dec,
           \A r \in Streams \ {s} : enc'[r] = enc[r] /\ emitted'[r] = emitted[r] /\ pushed'[r] = pushed[r]
    PROVE  Inv'
<1>1. ASSUME NEW r \in Streams PROVE StreamInv(r)' /\ Prolongs(r)
  <2>1. CASE r = s
    BY <2>1
  <2>2. CASE r # s
    BY <2>2, StreamUntouched, UntouchedProlongs DEF Inv
  <2> QED  BY <2>1, <2>2
<1>2. DecInv' /\ ReleasedIsWhole' /\ GenuineAccepted'
  BY <1>1, DecryptorKeeps
<1> QED
  BY <1>1, <1>2 DEF Inv

\* A step of the decryptor.
LEMMA DecryptorStep ==
    ASSUME Inv, enc' = enc, emitted' = emitted, pushed' = pushed, dec' \in Decryptors,
           DecInv', ReleasedIsWhole', GenuineAccepted'
    PROVE  Inv'
<1>1. TypeOK'
  BY DEF Inv, TypeOK
<1>2. ASSUME NEW s \in Streams PROVE StreamInv(s)'
  BY StreamUntouched DEF Inv
<1> QED
  BY <1>1, <1>2 DEF Inv

LEMMA InvInit == ASSUME Init PROVE Inv
<1>1. TypeOK
  BY DEF Init, TypeOK
<1>2. \A s \in Streams : enc[s].state = "none" /\ emitted[s] = <<>> /\ pushed[s] = <<>>
  BY DEF Init
<1>3. \A s \in Streams : StreamInv(s)
  BY <1>2 DEF StreamInv
<1>4. dec.state = "idle"
  BY DEF Init
<1> QED
  BY <1>1, <1>3, <1>4 DEF Inv, DecInv, ReleasedIsWhole, GenuineAccepted

LEMMA InvNext == ASSUME Inv, [Next]_vars PROVE Inv'
<1>1. ASSUME NEW s \in Streams, NEW f \in 1..MaxFrame, NEW a \in Aads, New(s, f, a) PROVE Inv'
  <2>1. \A r \in Streams \ {s} : enc'[r] = enc[r] /\ emitted'[r] = emitted[r] /\ pushed'[r] = pushed[r]
    BY <1>1 DEF New, Inv, TypeOK
  <2>2. dec' = dec
    BY <1>1 DEF New
  <2> QED  BY <1>1, <2>1, <2>2, NewStep, EncryptorStep
<1>2. ASSUME NEW s \in Streams, NEW ch \in Chars, Push(s, ch) PROVE Inv'
  <2>1. \A r \in Streams \ {s} : enc'[r] = enc[r] /\ emitted'[r] = emitted[r] /\ pushed'[r] = pushed[r]
    BY <1>2, Zenon DEF Push, Inv, TypeOK
  <2>2. dec' = dec
    BY <1>2, Zenon DEF Push
  <2> QED  BY <1>2, <2>1, <2>2, PushStep, EncryptorStep
<1>3. ASSUME NEW s \in Streams, Finish(s) PROVE Inv'
  <2>1. \A r \in Streams \ {s} : enc'[r] = enc[r] /\ emitted'[r] = emitted[r] /\ pushed'[r] = pushed[r]
    BY <1>3, Zenon DEF Finish, Inv, TypeOK
  <2>2. dec' = dec
    BY <1>3, Zenon DEF Finish
  <2> QED  BY <1>3, <2>1, <2>2, FinishStep, EncryptorStep
<1>4. ASSUME NEW s \in Streams, NEW f \in 1..MaxFrame, NEW a \in Aads, ReadHeader(s, f, a)
      PROVE  Inv'
  <2>1. enc' = enc /\ emitted' = emitted /\ pushed' = pushed
    BY <1>4 DEF ReadHeader
  <2> QED  BY <1>4, <2>1, ReadHeaderStep, DecryptorStep
<1>5. ASSUME NEW fr \in Emitted, ReadChunk(fr) PROVE Inv'
  <2>1. enc' = enc /\ emitted' = emitted /\ pushed' = pushed
    BY <1>5 DEF ReadChunk
  <2> QED  BY <1>5, <2>1, ReadChunkStep, DecryptorStep
<1>6. ASSUME NEW fr \in Emitted, NEW trailing \in BOOLEAN, ReadSentinel(fr, trailing) PROVE Inv'
  <2>1. enc' = enc /\ emitted' = emitted /\ pushed' = pushed
    BY <1>6 DEF ReadSentinel
  <2> QED  BY <1>6, <2>1, ReadSentinelStep, DecryptorStep
<1>7. CASE ReadGarbage
  <2>1. enc' = enc /\ emitted' = emitted /\ pushed' = pushed
    BY <1>7 DEF ReadGarbage
  <2> QED  BY <1>7, <2>1, ReadGarbageStep, DecryptorStep
<1>8. CASE UNCHANGED vars
  <2>1. enc' = enc /\ emitted' = emitted /\ pushed' = pushed /\ dec' = dec
    BY <1>8 DEF vars
  <2>2. TypeOK' /\ \A s \in Streams : StreamInv(s)' /\ Prolongs(s)
    BY <2>1, StreamUntouched, UntouchedProlongs DEF Inv, TypeOK
  <2>3. DecInv' /\ ReleasedIsWhole' /\ GenuineAccepted'
    BY <2>1, <2>2, DecryptorKeeps
  <2> QED  BY <2>2, <2>3 DEF Inv
<1>9. CASE Next
  <2>1. TRUE \in BOOLEAN /\ FALSE \in BOOLEAN
    OBVIOUS
  <2> QED  BY <1>1, <1>2, <1>3, <1>4, <1>5, <1>6, <1>7, <1>9, <2>1, Zenon DEF Next
<1> QED
  BY <1>8, <1>9

\* Encryptors, frames and the decryptor keep their shape, every stream consists of
\* the pieces of what was pushed, and the decryptor holds a prefix of them.
THEOREM StreamInvariant == Spec => []Inv
  BY InvInit, InvNext, PTL DEF Spec

\* decrypt_stream_ae_v8 releases the whole plaintext of one finished stream, for the
\* same associated data, and nothing else, whatever frames it is shown.
THEOREM ReleaseIsWhole == Spec => []ReleasedIsWhole
<1>1. Inv => ReleasedIsWhole
  BY DEF Inv
<1> QED
  BY <1>1, StreamInvariant, PTL

\* decrypt_stream_ae_v8 rejects no stream that it is shown as StreamV8Encryptor
\* produced it, up to the last chunk index.
THEOREM GenuineIsAccepted == Spec => []GenuineAccepted
<1>1. Inv => GenuineAccepted
  BY DEF Inv
<1> QED
  BY <1>1, StreamInvariant, PTL

\* The check of the chunk index in push and finish keeps the sub-nonces of all
\* chunks under a key distinct.
THEOREM SubNoncesAreUnique == Spec => []SubNoncesUnique
<1>1. ASSUME Inv PROVE SubNoncesUnique
  <2> SUFFICES ASSUME NEW s \in Streams, NEW r \in Streams,
                      NEW m \in DOMAIN emitted[s], NEW n \in DOMAIN emitted[r],
                      emitted[s][m].kind = "chunk", emitted[r][n].kind = "chunk",
                      emitted[s][m].sub = emitted[r][n].sub
               PROVE  s = r /\ m = n
    BY DEF SubNoncesUnique
  <2>1. m \in 1..Len(emitted[s]) /\ n \in 1..Len(emitted[r])
    BY <1>1 DEF Inv, TypeOK
  <2>2. /\ emitted[s][m] = Chunk(s, enc[s].f, enc[s].aad, m - 1, Piece(pushed[s], enc[s].f, m))
        /\ emitted[r][n] = Chunk(r, enc[r].f, enc[r].aad, n - 1, Piece(pushed[r], enc[r].f, n))
    BY <1>1, <2>1, FrameShape
  <2>3. emitted[s][m].sub = <<s, m - 1>> /\ emitted[r][n].sub = <<r, n - 1>>
    BY <2>2 DEF Chunk, derive_stream_v8_sub_nonce
  <2>4. <<s, m - 1>> = <<r, n - 1>>
    BY <2>3
  <2>5. s = r /\ m - 1 = n - 1
    BY <2>4
  <2> QED  BY <2>1, <2>5
<1> QED
  BY <1>1, StreamInvariant, PTL

\* The i-th of k slices that the all-at-once encryptor cuts is the i-th piece.
LEMMA SliceIsPiece ==
    ASSUME NEW text \in Seq(Chars), NEW f \in Nat \ {0}, NEW k \in Nat \ {0}, NEW i \in 1..k,
           Len(text) <= k * f, (k - 1) * f < Len(text)
    PROVE  Filled(SubSeq(text, (i - 1) * f + 1, IF i = k THEN Len(text) ELSE i * f), f)
             = Piece(text, f, i)
<1> DEFINE m    == (i - 1) * f
           h    == IF i = k THEN Len(text) ELSE i * f
           part == SubSeq(text, m + 1, h)
<1>1. m \in Nat /\ i * f = m + f /\ i * f \in Nat /\ (k - 1) * f \in Nat
  BY SMT
<1>2. i # k => i * f < Len(text)
  <2>1. i # k => i * f <= (k - 1) * f
    BY MulMono
  <2> QED  BY <2>1, <1>1
<1>3. h \in Nat /\ m < h /\ h <= Len(text)
  <2>1. CASE i = k
    BY <2>1, <1>1
  <2>2. CASE i # k
    BY <2>2, <1>1, <1>2
  <2> QED  BY <2>1, <2>2
<1>4. \A j \in 1..f : j <= h - m <=> m + j <= Len(text)
  BY <1>1, <1>2, <1>3
<1> HIDE DEF m, h
<1>5. Len(part) = h - m /\ \A j \in 1..(h - m) : part[j] = text[m + j]
  BY <1>1, <1>3
<1> HIDE DEF part
<1>6. \A j \in 1..f : (IF j <= Len(part) THEN part[j] ELSE Filler)
                        = (IF m + j <= Len(text) THEN text[m + j] ELSE Filler)
  BY <1>1, <1>3, <1>4, <1>5
<1>7. Filled(part, f) = [j \in 1..f |-> IF m + j <= Len(text) THEN text[m + j] ELSE Filler]
  BY <1>6 DEF Filled
<1> QED
  BY <1>7 DEF Piece, part, m, h

\* StreamV8Encryptor, fed one codepoint at a time, returns the frames that
\* encrypt_stream_ae_v8_inner returns for the whole plaintext.
THEOREM IncrementalEncryptorAgrees == Spec => []IncrementalAgrees
<1>1. ASSUME Inv PROVE IncrementalAgrees
  <2> SUFFICES ASSUME NEW s \in Streams, enc[s].state = "finished"
               PROVE  emitted[s] = EncryptAll(s, enc[s].f, enc[s].aad, pushed[s])
    BY DEF IncrementalAgrees
  <2> DEFINE f    == enc[s].f
             a    == enc[s].aad
             text == pushed[s]
             k    == Chunks(s)
             Slice(i) == SubSeq(text, (i - 1) * f + 1, IF i = k THEN Len(text) ELSE i * f)
             body == [i \in 1..k |-> Chunk(s, f, a, i - 1, Filled(Slice(i), f))]
             last == Sentinel(s, f, a, k, Len(text))
  <2>1. /\ enc[s] \in Encryptors /\ text \in Seq(Chars) /\ emitted[s] \in Seq(Frames)
        /\ ChunkInv(s) /\ FinishedInv(s)
    BY <1>1 DEF Inv, TypeOK, StreamInv
  <2>2. f \in 1..MaxFrame /\ f \in Nat \ {0} /\ a \in Aads
    BY <2>1 DEF Encryptors
  <2>3. k \in 0..MaxIdx /\ k \in Nat /\ Len(emitted[s]) = k + 1
    BY <1>1, <2>1, ChunkLimit DEF Chunks
  <2>4. Len(text) <= k * f /\ emitted[s][k + 1] = last
    BY <2>1, <2>3 DEF FinishedInv
  <2>5. \A i \in 1..k : /\ emitted[s][i] = Chunk(s, f, a, i - 1, Piece(text, f, i))
                        /\ (i - 1) * f < Len(text)
    BY <2>1 DEF ChunkInv
  <2>6. k > 0 => (k - 1) * f < Len(text)
    <3>1. k > 0 => k \in 1..k
      BY <2>3
    <3> QED  BY <2>5, <3>1
  <2>7. (Len(text) + f - 1) \div f = k
    <3>1. Len(text) \in Nat
      BY <2>1
    <3> HIDE DEF text, f, k
    <3> QED  BY <2>2, <2>3, <2>4, <2>6, <3>1, RoundUp
  <2>8. EncryptAll(s, f, a, text) = body \o <<last>>
    BY <2>7, Zenon DEF EncryptAll
  <2>9. ASSUME NEW i \in 1..k PROVE Chunk(s, f, a, i - 1, Filled(Slice(i), f)) = emitted[s][i]
    <3>1. /\ text \in Seq(Chars) /\ f \in Nat \ {0} /\ k \in Nat \ {0}
          /\ Len(text) <= k * f /\ (k - 1) * f < Len(text)
      BY <2>1, <2>2, <2>3, <2>4, <2>6
    <3> HIDE DEF text, f, k
    <3>2. Filled(Slice(i), f) = Piece(text, f, i)
      BY <3>1, SliceIsPiece, Zenon
    <3> QED  BY <2>5, <3>2
  <2>10. body = [i \in 1..k |-> emitted[s][i]]
    BY <2>9
  <2> HIDE DEF body, last, k
  <2>11. body \o <<last>> = emitted[s]
    BY <2>1, <2>3, <2>4, <2>10
  <2> QED  BY <2>8, <2>11
<1> QED
  BY <1>1, StreamInvariant, PTL
=============================================================================
