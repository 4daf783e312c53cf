------------------------------ MODULE StreamV8 ------------------------------
(***************************************************************************)
(* The v8 streaming AEAD (rust/src/lib.rs): StreamV8Encryptor, which turns *)
(* codepoints into a header, one frame per full chunk and a sentinel, and  *)
(* decrypt_stream_ae_v8, which reads frames in order and releases the      *)
(* plaintext once the sentinel has verified.                               *)
(*                                                                         *)
(* Several streams are produced under one key, each with a nonce of its    *)
(* own.  The decryptor may be shown the frames of all of them in any       *)
(* order, any number of times, behind any header.  HMAC is ideal: a tag    *)
(* verifies exactly for the values it was computed over.  Token emission   *)
(* and masking are the identity on codepoints here.                        *)
(***************************************************************************)
EXTENDS Naturals, Sequences

CONSTANTS
    Streams,        \* streams under one key, named by their nonces
    Chars,          \* codepoints of plaintexts
    Filler,         \* derive_stream_v8_filler_cp's codepoint, which texts may hold too
    Aads,           \* associated data
    MaxFrame,       \* STREAM_AE_V8_MAX_FRAME, scaled down
    MaxIdx          \* u32::MAX, scaled down

ASSUME StreamV8Assumption ==
    /\ MaxFrame \in Nat \ {0}
    /\ MaxIdx \in Nat \ {0}

VARIABLES
    enc,        \* per stream, its StreamV8Encryptor
    emitted,    \* per stream, the frames it has returned so far
    pushed,     \* history: per stream, the codepoints pushed
    dec         \* one call of decrypt_stream_ae_v8

vars == <<enc, emitted, pushed, dec>>

-----------------------------------------------------------------------------
(* Frames *)

\* stream_v8_header: every tag covers it whole.
stream_v8_header(f, nonce) == <<f, nonce>>

\* derive_stream_v8_sub_nonce: one keystream, and one set of noise positions, per
\* nonce and chunk index.
derive_stream_v8_sub_nonce(nonce, idx) == <<nonce, idx>>

\* emit_stream_v8_chunk: the codepoints are encoded under the sub-nonce, and the
\* tag covers the other fields.
Chunk(s, f, a, idx, cps) ==
    [kind |-> "chunk", header |-> stream_v8_header(f, s), aad |-> a, idx |-> idx,
     sub |-> derive_stream_v8_sub_nonce(s, idx), cps |-> cps]

\* The sentinel: its tag covers the chunk count and the number of real codepoints.
Sentinel(s, f, a, count, total) ==
    [kind |-> "sentinel", header |-> stream_v8_header(f, s), aad |-> a, idx |-> count,
     total |-> total]

\* A partial chunk filled up to f codepoints.
Filled(buf, f) == [j \in 1..f |-> IF j <= Len(buf) THEN buf[j] ELSE Filler]

\* encrypt_stream_ae_v8_inner: the frames of a whole plaintext at once.
EncryptAll(s, f, a, text) ==
    LET n == (Len(text) + f - 1) \div f
        Part(i) == SubSeq(text, (i - 1) * f + 1, IF i = n THEN Len(text) ELSE i * f)
    IN  [i \in 1..n |-> Chunk(s, f, a, i - 1, Filled(Part(i), f))]
            \o <<Sentinel(s, f, a, n, Len(text))>>

\* Fault: the tag leaves the position of the chunk out.
VerifiesAnywhere(fr) ==
    fr.header = stream_v8_header(dec.f, dec.nonce) /\ fr.aad = dec.aad

\* A frame's tag equals the one computed for the decryptor's header and position.
Verifies(fr) ==
    fr.header = stream_v8_header(dec.f, dec.nonce) /\ fr.aad = dec.aad /\ fr.idx = dec.idx

\* History: fr is the next frame of the stream the header announced.
Follows(fr) ==
    LET frames == emitted[dec.nonce]
    IN  IF dec.genuine = "yes" /\ dec.read < Len(frames) /\ frames[dec.read + 1] = fr
          THEN "yes" ELSE "no"

-----------------------------------------------------------------------------
Init ==
    /\ enc = [s \in Streams |-> [state |-> "none"]]
    /\ emitted = [s \in Streams |-> <<>>]
    /\ pushed = [s \in Streams |-> <<>>]
    /\ dec = [state |-> "idle"]

(* StreamV8Encryptor *)

\* new: a fresh nonce, and the header.
New(s, f, a) ==
    /\ enc[s].state = "none"
    /\ enc' = [enc EXCEPT ![s] =
         [state |-> "open", f |-> f, aad |-> a, idx |-> 0, total |-> 0, buf |-> <<>>]]
    /\ UNCHANGED <<emitted, pushed, dec>>

\* Fault: the chunk index wraps.
PushWraps(s, ch) ==
    LET e == enc[s]
        buf == Append(e.buf, ch)
    IN  /\ e.state = "open"
        /\ e.total < MaxFrame * (MaxIdx + 2)
        /\ pushed' = [pushed EXCEPT ![s] = Append(@, ch)]
        /\ IF Len(buf) >= e.f
             THEN /\ emitted' = [emitted EXCEPT ![s] = Append(@, Chunk(s, e.f, e.aad, e.idx, buf))]
                  /\ enc' = [enc EXCEPT ![s].total = @ + 1, ![s].buf = <<>>,
                                        ![s].idx = (@ + 1) % (MaxIdx + 1)]
             ELSE /\ enc' = [enc EXCEPT ![s].total = @ + 1, ![s].buf = buf]
                  /\ UNCHANGED emitted
        /\ UNCHANGED dec

\* push: refused at the last chunk index, else the codepoint is buffered, and a
\* full buffer is emitted as a chunk and wiped.
Push(s, ch) ==
    LET e == enc[s]
        buf == Append(e.buf, ch)
    IN  /\ e.state = "open"
        /\ e.idx # MaxIdx
        /\ pushed' = [pushed EXCEPT ![s] = Append(@, ch)]
        /\ IF Len(buf) >= e.f
             THEN /\ emitted' = [emitted EXCEPT ![s] = Append(@, Chunk(s, e.f, e.aad, e.idx, buf))]
                  /\ enc' = [enc EXCEPT ![s].total = @ + 1, ![s].buf = <<>>, ![s].idx = @ + 1]
             ELSE /\ enc' = [enc EXCEPT ![s].total = @ + 1, ![s].buf = buf]
                  /\ UNCHANGED emitted
        /\ UNCHANGED dec

\* Fault: an empty buffer is flushed as well.
FinishAlwaysFlushes(s) ==
    LET e == enc[s]
    IN  /\ e.state = "open"
        /\ enc' = [enc EXCEPT ![s].state = "finished"]
        /\ emitted' = [emitted EXCEPT ![s] = @
             \o <<Chunk(s, e.f, e.aad, e.idx, Filled(e.buf, e.f)), Sentinel(s, e.f, e.aad, e.idx + 1, e.total)>>]
        /\ UNCHANGED <<pushed, dec>>

\* finish: the partial chunk, if any, and the sentinel.
Finish(s) ==
    LET e == enc[s]
        last == IF e.buf = <<>> THEN <<>> ELSE <<Chunk(s, e.f, e.aad, e.idx, Filled(e.buf, e.f))>>
    IN  /\ e.state = "open"
        /\ enc' = [enc EXCEPT ![s].state = "finished"]
        /\ emitted' = [emitted EXCEPT ![s] = @ \o last
             \o <<Sentinel(s, e.f, e.aad, e.idx + Len(last), e.total)>>]
        /\ UNCHANGED <<pushed, dec>>

(* decrypt_stream_ae_v8 *)

\* A header is read; the receiver brings its own associated data.
ReadHeader(s, f, a) ==
    /\ dec.state = "idle"
    /\ dec' = [state |-> "reading", nonce |-> s, f |-> f, aad |-> a, idx |-> 0,
               delivered |-> <<>>, pending |-> <<>>, read |-> 0,
               genuine |-> IF enc[s].state # "none" /\ f = enc[s].f /\ a = enc[s].aad
                             THEN "yes" ELSE "no"]
    /\ UNCHANGED <<enc, emitted, pushed>>

\* A chunk frame: its tag is verified, the pending chunk is delivered and this
\* one is held back, since it may be the last.
ReadChunk(fr) ==
    LET seen == [dec EXCEPT !.genuine = Follows(fr), !.read = @ + 1]
    IN  /\ dec.state = "reading"
        /\ fr.kind = "chunk"
        /\ dec' = IF Verifies(fr) /\ dec.idx # MaxIdx
                    THEN [seen EXCEPT !.delivered = dec.delivered \o dec.pending,
                                      !.pending = fr.cps, !.idx = dec.idx + 1]
                    ELSE [seen EXCEPT !.state = "error"]
        /\ UNCHANGED <<enc, emitted, pushed>>

\* Fault: a full last chunk is taken for an inconsistent one.
ConsistentStrict(total, delivered, pending) ==
    IF pending = <<>> THEN total = Len(delivered)
                      ELSE total > Len(delivered) /\ total < Len(delivered) + Len(pending)

\* The number of real codepoints fits the decoded chunks, and the final chunk
\* carries at least one of them.
Consistent(total, delivered, pending) ==
    IF pending = <<>> THEN total = Len(delivered)
                      ELSE total > Len(delivered) /\ total <= Len(delivered) + Len(pending)

\* A sentinel frame: tag, consistency, filler stripped; trailing bytes are an error.
ReadSentinel(fr, trailing) ==
    LET ok == Verifies(fr) /\ Consistent(fr.total, dec.delivered, dec.pending) /\ ~trailing
    IN  /\ dec.state = "reading"
        /\ fr.kind = "sentinel"
        /\ dec' = [dec EXCEPT
             !.state = IF ok THEN "ok" ELSE "error",
             !.delivered = IF ok THEN SubSeq(@ \o dec.pending, 1, fr.total) ELSE @,
             !.genuine = IF trailing THEN "no" ELSE Follows(fr),
             !.read = @ + 1]
        /\ UNCHANGED <<enc, emitted, pushed>>

\* The stream ends early, or holds bytes no encryptor emitted.
ReadGarbage ==
    /\ dec.state = "reading"
    /\ dec' = [dec EXCEPT !.state = "error", !.genuine = "no"]
    /\ UNCHANGED <<enc, emitted, pushed>>

-----------------------------------------------------------------------------
Emitted == UNION {{emitted[s][n] : n \in DOMAIN emitted[s]} : s \in Streams}

Next ==
    \/ \E s \in Streams :
         \/ \E f \in 1..MaxFrame, a \in Aads : New(s, f, a) \/ ReadHeader(s, f, a)
         \/ \E ch \in Chars : Push(s, ch)
         \/ Finish(s)
    \/ \E fr \in Emitted : ReadChunk(fr) \/ ReadSentinel(fr, FALSE) \/ ReadSentinel(fr, TRUE)
    \/ ReadGarbage

Spec == Init /\ [][Next]_vars

-----------------------------------------------------------------------------
(* Properties *)

\* What the decryptor releases is the whole plaintext of one finished stream,
\* sealed with the same associated data: nothing cut off, reordered, repeated,
\* spliced from another stream, and no filler.
ReleasedIsWhole ==
    dec.state = "ok" =>
        /\ enc[dec.nonce].state = "finished"
        /\ enc[dec.nonce].aad = dec.aad
        /\ dec.delivered = pushed[dec.nonce]

\* A stream shown as it was produced is never rejected, also at the last chunk
\* index and with a full or an empty last chunk.
GenuineAccepted == dec.state = "error" => dec.genuine = "no"

\* No two chunks of all the streams under a key share a sub-nonce, and with it a
\* keystream, however long a stream grows.
SubNoncesUnique ==
    \A s, r \in Streams : \A m \in DOMAIN emitted[s], n \in DOMAIN emitted[r] :
        LET x == emitted[s][m]
            y == emitted[r][n]
        IN  x.kind = "chunk" /\ y.kind = "chunk" /\ x.sub = y.sub => s = r /\ m = n

\* The incremental encryptor produces exactly the frames that the all-at-once
\* encryptor produces for the same codepoints.
IncrementalAgrees ==
    \A s \in Streams : enc[s].state = "finished" =>
        emitted[s] = EncryptAll(s, enc[s].f, enc[s].aad, pushed[s])
=============================================================================
