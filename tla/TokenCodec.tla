----------------------------- MODULE TokenCodec -----------------------------
(***************************************************************************)
(* The block codecs between plaintext codepoints and tokens                *)
(* (rust/src/lib.rs): PadProfile::block_size, pad_to_block and             *)
(* unpad_message; for v8 emit_tokens_v8 and decrypt_core_v8, with runs of  *)
(* noise capped and the stream topped up to a fixed length; for a chunk of *)
(* the v8 stream the same emitter and decrypt_v8_stream_chunk_core,        *)
(* without padding; for v7 emit_tokens_v7 and decrypt_core, without a cap. *)
(*                                                                         *)
(* Emitter and decoder each walk the token positions and must make the     *)
(* same noise decisions without exchanging them.  The HMAC-derived values  *)
(* are free: is_noise_pos answers anything, the same to both, and the      *)
(* addends depend on a seed.  Sizes are scaled down; a byte of the length  *)
(* prefix has ByteBase values.                                             *)
(***************************************************************************)
EXTENDS Naturals, Sequences

CONSTANTS
    MAX_NOISE_RUN,  \* noise tokens in a row, at most, in v8
    V7_NOISE_RUN_GUARD,     \* the same in v7, where more are an error
    PAD_MIN_EXP,    \* the smallest block is 2 ^ PAD_MIN_EXP
    PAD_MAX_EXP,    \* the largest block is 2 ^ PAD_MAX_EXP
    ByteBase,       \* 256, scaled down
    MAX_CODEPOINT,  \* 0x10FFFF, scaled down
    Surrogates,     \* 0xD800 to 0xDFFF, scaled down
    Primes,         \* the key's prime tuple, scaled down
    Messages,       \* plaintexts
    Seeds,          \* outcomes of the HMAC derivations
    Profiles        \* padding profiles in use

\* Unicode scalar values.
Codepoints == (0..MAX_CODEPOINT) \ Surrogates

ASSUME TokenCodecAssumption ==
    /\ MAX_NOISE_RUN \in Nat \ {0} /\ V7_NOISE_RUN_GUARD \in Nat /\ MAX_CODEPOINT \in Nat
    /\ PAD_MIN_EXP \in Nat /\ PAD_MAX_EXP \in Nat /\ PAD_MIN_EXP <= PAD_MAX_EXP
    /\ 2 ^ PAD_MAX_EXP <= ByteBase * ByteBase
    /\ ByteBase \in 1..(MAX_CODEPOINT + 1) /\ 1 <= MAX_CODEPOINT
    /\ Primes \in Seq(Nat \ {0, 1}) /\ Primes # <<>>
    /\ \A s \in Surrogates : s \in Nat /\ s > 1 /\ s >= ByteBase
    /\ Messages \subseteq Seq(Codepoints)
    /\ Seeds \subseteq Nat
    /\ Profiles \subseteq [kind : {"bucket", "coarse", "frame"}, arg : Nat]

VARIABLES
    format,     \* "v7", "v8" or "chunk"
    seed,       \* the outcome of this call's HMAC derivations
    message,    \* the plaintext
    padded,     \* pad_to_block's output
    noise,      \* what is_noise_pos answers, position by position
    tokens,     \* cypher
    decoded,    \* codepoints the decoder has recovered
    realIdx,    \* real tokens emitted so far, or recovered so far
    ctPos,      \* the decoder's position
    origin,     \* "genuine" tokens, some "cut" off, or "other" ones
    phase       \* "emit", "decode", "done" or "error"

vars == <<format, seed, message, padded, noise, tokens, decoded, realIdx, ctPos, origin, phase>>

-----------------------------------------------------------------------------
(* Padding *)

\* bit_length: the number of binary digits of n.
BitLength(n) == CHOOSE e \in 0..(n + 1) : 2 ^ e > n /\ \A i \in 0..(e - 1) : 2 ^ i <= n

\* PadProfile::block_size; 0 stands for an error.
BlockSize(profile, n) ==
    LET e == IF BitLength(n) > PAD_MIN_EXP THEN BitLength(n) ELSE PAD_MIN_EXP
        g == profile.arg
        span == PAD_MAX_EXP - PAD_MIN_EXP
        frames == {2 ^ i : i \in PAD_MIN_EXP..PAD_MAX_EXP}
    IN  CASE n >= 2 ^ PAD_MAX_EXP -> 0
          [] n < 2 ^ PAD_MAX_EXP /\ profile.kind = "bucket" -> 2 ^ e
          [] n < 2 ^ PAD_MAX_EXP /\ profile.kind = "coarse" ->
               IF g = 0 \/ span % g # 0 THEN 0
               ELSE 2 ^ (PAD_MIN_EXP + g * ((e - PAD_MIN_EXP + g - 1) \div g))
          [] n < 2 ^ PAD_MAX_EXP /\ profile.kind = "frame" ->
               IF g \notin frames \/ n >= g THEN 0 ELSE g

\* pad_to_block: a two-byte length, the message, padding up to the block size (1
\* stands for any padding codepoint).
Pad(msg, block) ==
    LET n == Len(msg)
    IN  <<n \div ByteBase, n % ByteBase>> \o msg \o [i \in 1..(block - n) |-> 1]

\* An error: no codepoint is that large.
Malformed == <<MAX_CODEPOINT + 1>>

\* Fault: a length beyond the data is cut down to it.
unpad_message_clamped(cps) ==
    IF Len(cps) < 2 \/ cps[1] >= ByteBase \/ cps[2] >= ByteBase THEN Malformed
    ELSE LET n == cps[1] * ByteBase + cps[2]
         IN  SubSeq(cps, 3, IF 2 + n <= Len(cps) THEN 2 + n ELSE Len(cps))

\* The length prefix must be canonical and fit.
unpad_message(cps) ==
    IF \/ Len(cps) < 2 \/ cps[1] >= ByteBase \/ cps[2] >= ByteBase
       \/ 2 + cps[1] * ByteBase + cps[2] > Len(cps)
    THEN Malformed
    ELSE SubSeq(cps, 3, 2 + cps[1] * ByteBase + cps[2])

-----------------------------------------------------------------------------
(* Tokens *)

\* The prime and the addend, in [1, k - 1], of the current real token.
Prime == Primes[(realIdx % Len(Primes)) + 1]
Addend == 1 + ((seed + realIdx) % (Prime - 1))

\* noise_token; its value is never looked at again.
NoiseToken == seed * Prime + 1

\* The fixed length of the ciphertext of n padded codepoints.
Ceiling(n) == n * (MAX_NOISE_RUN + 1)

-----------------------------------------------------------------------------
Init ==
    /\ seed \in Seeds
    /\ message \in Messages
    /\ \/ format = "chunk" /\ message # <<>> /\ padded = message
       \/ \E profile \in Profiles :
            LET block == BlockSize(profile, Len(message)) IN
            /\ format \in {"v7", "v8"}
            /\ format = "v7" => profile.kind = "bucket"
            /\ block # 0
            /\ padded = Pad(message, block)
    /\ noise = <<>>
    /\ tokens = <<>>
    /\ decoded = <<>>
    /\ realIdx = 0
    /\ ctPos = 0
    /\ origin = "genuine"
    /\ phase = "emit"

(* emit_tokens_v8 *)

Capped == format \in {"v8", "chunk"}

\* Fault: a noise run may be one token too long.
EmitRealLate(run, answer) ==
    /\ Capped /\ phase = "emit"
    /\ realIdx < Len(padded)
    /\ ~answer
    /\ noise' = noise \o [i \in 1..(run + 1) |-> TRUE] \o <<answer>>
    /\ tokens' = tokens \o [i \in 1..(run + 1) |-> NoiseToken] \o <<padded[realIdx + 1] * Prime + Addend>>
    /\ realIdx' = realIdx + 1
    /\ UNCHANGED <<format, seed, message, padded, decoded, ctPos, origin, phase>>

\* One codepoint: run noise tokens, then its real token.  After MAX_NOISE_RUN of
\* them the position is not asked about, so its answer is free.
EmitReal(run, answer) ==
    /\ Capped /\ phase = "emit"
    /\ realIdx < Len(padded)
    /\ run < MAX_NOISE_RUN => ~answer
    /\ noise' = noise \o [i \in 1..run |-> TRUE] \o <<answer>>
    /\ tokens' = tokens \o [i \in 1..run |-> NoiseToken] \o <<padded[realIdx + 1] * Prime + Addend>>
    /\ realIdx' = realIdx + 1
    /\ UNCHANGED <<format, seed, message, padded, decoded, ctPos, origin, phase>>

\* The tail is topped up with noise to the ceiling.
EmitTail(answer) ==
    LET missing == Ceiling(Len(padded)) - Len(tokens)
    IN  /\ Capped /\ phase = "emit"
        /\ realIdx = Len(padded)
        /\ tokens' = tokens \o [i \in 1..missing |-> NoiseToken]
        /\ noise' = noise \o [i \in 1..missing |-> answer]
        /\ realIdx' = 0
        /\ phase' = "decode"
        /\ UNCHANGED <<format, seed, message, padded, decoded, ctPos, origin>>

(* emit_tokens_v7 *)

\* One codepoint: noise tokens while the answers say so, then its real token.
EmitRealV7(run) ==
    /\ format = "v7" /\ phase = "emit"
    /\ realIdx < Len(padded)
    /\ noise' = noise \o [i \in 1..run |-> TRUE] \o <<FALSE>>
    /\ tokens' = tokens \o [i \in 1..run |-> NoiseToken] \o <<padded[realIdx + 1] * Prime + Addend>>
    /\ realIdx' = realIdx + 1
    /\ UNCHANGED <<format, seed, message, padded, decoded, ctPos, origin, phase>>

\* More than V7_NOISE_RUN_GUARD noise positions in a row: nothing is returned.
EmitAbortsV7 ==
    /\ format = "v7" /\ phase = "emit"
    /\ realIdx < Len(padded)
    /\ tokens' = <<>>
    /\ phase' = "error"
    /\ UNCHANGED <<format, seed, message, padded, noise, decoded, realIdx, ctPos, origin>>

\* The last real token ends the stream.
EmitEndV7 ==
    /\ format = "v7" /\ phase = "emit"
    /\ realIdx = Len(padded)
    /\ realIdx' = 0
    /\ phase' = "decode"
    /\ UNCHANGED <<format, seed, message, padded, noise, tokens, decoded, ctPos, origin>>

\* Tokens of another origin reach the decoder, from a holder of the key or through
\* the v7 call that takes bare tokens: a stream cut short, a token off its
\* residue, or a length prefix that is no byte.
OtherEncoder ==
    /\ phase = "decode"
    /\ ctPos = 0
    /\ origin = "genuine"
    /\ \/ /\ \E n \in 0..(Len(tokens) - 1) : tokens' = SubSeq(tokens, 1, n)
          /\ origin' = "cut"
       \/ /\ \E i \in 1..Len(tokens), d \in {1, ByteBase * Primes[1]} :
               tokens' = [tokens EXCEPT ![i] = @ + d]
          /\ origin' = "other"
    /\ UNCHANGED <<format, seed, message, padded, noise, decoded, realIdx, ctPos, phase>>

(* decrypt_core_v8, decrypt_v8_stream_chunk_core *)

\* The token count is (B + 2) * (MAX_NOISE_RUN + 1) for a reachable block size B,
\* or that of the chunk size the stream's header announces.
LegalCount ==
    /\ Len(tokens) % (MAX_NOISE_RUN + 1) = 0
    /\ LET n == Len(tokens) \div (MAX_NOISE_RUN + 1)
       IN  IF format = "chunk" THEN n = Len(padded)
           ELSE \E e \in PAD_MIN_EXP..PAD_MAX_EXP : n = 2 ^ e + 2

RealCount == Len(tokens) \div (MAX_NOISE_RUN + 1)

\* Fault: the decoder asks about every position.
SkippedUncapped == CHOOSE r \in 0..Len(tokens) :
    /\ \A i \in 1..r : noise[ctPos + i]
    /\ ctPos + r = Len(tokens) \/ ~noise[ctPos + r + 1]

\* The noise tokens the decoder skips before the next real one.
Skipped == CHOOSE r \in 0..MAX_NOISE_RUN :
    /\ ctPos + r <= Len(tokens)
    /\ \A i \in 1..r : noise[ctPos + i]
    /\ r = MAX_NOISE_RUN \/ ctPos + r = Len(tokens) \/ ~noise[ctPos + r + 1]

\* A token is codepoint * k + addend, for a Unicode scalar value.
WellFormed(token) ==
    /\ token >= Addend /\ (token - Addend) % Prime = 0
    /\ (token - Addend) \div Prime \in Codepoints

\* What the caller gets for the recovered codepoints; a chunk has no padding.
Recovered == IF format = "chunk" THEN decoded ELSE unpad_message(decoded)

\* One iteration of the decoding loop.
DecodeReal ==
    LET pos == ctPos + Skipped
        token == tokens[pos + 1]
    IN  /\ Capped /\ phase = "decode"
        /\ LegalCount
        /\ realIdx < RealCount
        /\ pos < Len(tokens)
        /\ WellFormed(token)
        /\ decoded' = Append(decoded, (token - Addend) \div Prime)
        /\ ctPos' = pos + 1
        /\ realIdx' = realIdx + 1
        /\ UNCHANGED <<format, seed, message, padded, noise, tokens, origin, phase>>

\* An illegal count, an exhausted stream or a malformed token.
DecodeFails ==
    LET pos == ctPos + Skipped
    IN  /\ Capped /\ phase = "decode"
        /\ \/ ~LegalCount
           \/ realIdx < RealCount /\ pos >= Len(tokens)
           \/ realIdx < RealCount /\ pos < Len(tokens) /\ ~WellFormed(tokens[pos + 1])
           \/ realIdx = RealCount /\ Recovered = Malformed
        /\ phase' = "error"
        /\ UNCHANGED <<format, seed, message, padded, noise, tokens, decoded, realIdx, ctPos, origin>>

\* All real tokens are recovered; trailing filler is not looked at.
DecodeDone ==
    /\ Capped /\ phase = "decode"
    /\ LegalCount
    /\ realIdx = RealCount
    /\ Recovered # Malformed
    /\ decoded' = Recovered
    /\ phase' = "done"
    /\ UNCHANGED <<format, seed, message, padded, noise, tokens, realIdx, ctPos, origin>>

(* decrypt_core *)

\* Each position is asked about on its own.
SkipsV7 == noise[ctPos + 1]

\* One position of the stream.
DecodePositionV7 ==
    /\ format = "v7" /\ phase = "decode"
    /\ ctPos < Len(tokens)
    /\ ctPos' = ctPos + 1
    /\ IF SkipsV7 THEN UNCHANGED <<decoded, realIdx, phase>>
       ELSE IF WellFormed(tokens[ctPos + 1])
       THEN /\ decoded' = Append(decoded, (tokens[ctPos + 1] - Addend) \div Prime)
            /\ realIdx' = realIdx + 1
            /\ UNCHANGED phase
       ELSE phase' = "error" /\ UNCHANGED <<decoded, realIdx>>
    /\ UNCHANGED <<format, seed, message, padded, noise, tokens, origin>>

\* The whole stream is consumed.
DecodeEndV7 ==
    /\ format = "v7" /\ phase = "decode"
    /\ ctPos = Len(tokens)
    /\ IF Recovered = Malformed
       THEN phase' = "error" /\ UNCHANGED decoded
       ELSE phase' = "done" /\ decoded' = Recovered
    /\ UNCHANGED <<format, seed, message, padded, noise, tokens, realIdx, ctPos, origin>>

-----------------------------------------------------------------------------
Next ==
    \/ \E answer \in BOOLEAN :
         EmitTail(answer) \/ \E run \in 0..MAX_NOISE_RUN : EmitReal(run, answer)
    \/ \E run \in 0..V7_NOISE_RUN_GUARD : EmitRealV7(run)
    \/ EmitAbortsV7
    \/ EmitEndV7
    \/ OtherEncoder
    \/ DecodePositionV7
    \/ DecodeEndV7
    \/ DecodeReal
    \/ DecodeFails
    \/ DecodeDone

Spec == Init /\ [][Next]_vars

-----------------------------------------------------------------------------
(* Properties *)

\* Decoding inverts encoding for every format, profile, length and noise
\* realisation: what was emitted never fails to decode and yields the message, of
\* which no padding is left.  In v8 the number of tokens tells nothing of the noise.
RoundTrip ==
    origin = "genuine" /\ tokens # <<>> =>
        /\ phase # "error" /\ (phase = "done" => decoded = message)
        /\ Capped /\ phase # "emit" => Len(tokens) = Ceiling(Len(padded))

\* Whatever key holder made the tokens, a v8 block or chunk that passes the count
\* check has a position left for each real token still to come, so the checks for
\* tokens that end early (lib.rs, "Truncated v8 ciphertext") never fire.
BudgetSuffices ==
    Capped /\ phase = "decode" /\ LegalCount /\ realIdx < RealCount =>
        ctPos + Skipped < Len(tokens)

\* Tokens cut off the end, where nothing authenticates their number, cost at most
\* padding: the decoder recovers the whole message or reports an error, never a
\* shorter text (the bound on the length prefix in unpad_message).
CutNeverShortens == origin = "cut" /\ phase = "done" => decoded = message
=============================================================================
