------------------------------ MODULE BlockApi ------------------------------
(***************************************************************************)
(* The block encryption calls (rust/src/lib.rs, rust/src/key.rs): the      *)
(* legacy v7 family, keyed by the prime tuple itself, and the v8 family,   *)
(* keyed by an independent sk, with the order of their checks.             *)
(*                                                                         *)
(* HMAC is ideal, an injective pair of key and input, except for what the  *)
(* code does to its arguments: the tuple is cut to five bytes an element   *)
(* and a short key is filled up with zeros, so different tuples can be one *)
(* HMAC key; an input is a flat sequence, so its parts are told apart only *)
(* by the length prefix.  A token opens under the HMAC key, nonce,         *)
(* position and key element it was made with, and is malformed under any   *)
(* other; TokenCodec has the token streams themselves.  An error carries   *)
(* the check it comes from.                                                *)
(***************************************************************************)
EXTENDS Keys, SequencesExt

CONSTANTS
    KeyTuples,      \* tuples callers pass, of any kind
    Sks, Aads, Texts,
    MAX_PLAINTEXT_CODEPOINTS,
    MaxAadV7,       \* 2 ^ 32 - 1: what the 4-byte length prefix holds
    HmacBlock,      \* key elements that fit an HMAC block
    Blocks,         \* block sizes of the padding ladder
    Frame           \* F of the Frame profile

ASSUME BlockApiAssumption ==
    /\ KeyTuples \subseteq Seq(Nat)
    /\ Aads \subseteq Seq({<<"byte", x>> : x \in 0 .. 255})
    /\ Texts \subseteq Seq(Nat)
    /\ MAX_PLAINTEXT_CODEPOINTS \in Nat /\ MAX_PLAINTEXT_CODEPOINTS <= 65535
    /\ MaxAadV7 \in Nat /\ HmacBlock \in Nat /\ Frame \in Nat
    /\ Blocks \subseteq Nat /\ \E b \in Blocks : MAX_PLAINTEXT_CODEPOINTS < b

VARIABLES
    seals,      \* what was sealed so far, and how
    last        \* the last call that opened something, or tried to seal

vars == <<seals, last>>

(* Bytes and conversions *)

Byte(x) == <<"byte", x>>

\* The UTF-8 bytes of a codepoint.
Utf8(c) ==
    CASE c < 128 -> <<Byte(c)>>
      [] c >= 128 /\ c < 2048 -> <<Byte(192 + c \div 64), Byte(128 + (c % 64))>>
      [] c >= 2048 /\ c < 65536 ->
           <<Byte(224 + c \div 4096), Byte(128 + ((c \div 64) % 64)), Byte(128 + (c % 64))>>
      [] c >= 65536 ->
           <<Byte(240 + c \div 262144), Byte(128 + ((c \div 4096) % 64)),
             Byte(128 + ((c \div 64) % 64)), Byte(128 + (c % 64))>>

as_bytes(text) == FlattenSeq([i \in DOMAIN text |-> Utf8(text[i])])

\* char::from_u32 succeeds.
Scalar(c) == c <= 55295 \/ (c >= 57344 /\ c <= 1114111)

Scalars(text) == \A i \in DOMAIN text : Scalar(text[i])
ByteValued(text) == \A i \in DOMAIN text : text[i] <= 255

(* Keys of the derivations *)

\* Five bytes of each element.
key_bytes(key) == [i \in DOMAIN key |-> key[i] % (MAX_SERIALISABLE_KEY_PRIME + 1)]

\* HMAC fills a key of up to a block with zeros.
HmacKey(kb) ==
    IF Len(kb) > HmacBlock THEN <<"v7 hashed", kb>>
    ELSE <<"v7", [i \in 1 .. HmacBlock |-> IF i \in DOMAIN kb THEN kb[i] ELSE 0]>>

KeyV7(key) == HmacKey(key_bytes(key))

FORMAT_BLOCK_V8 == 1
derive_format_subkey(sk, format) == <<"v8", sk, format>>
KeyV8(sk) == derive_format_subkey(sk, FORMAT_BLOCK_V8)

hmac_digest(kb, input) == <<kb, input>>

(* Derivations *)

\* Fault: the length is left out.
be_len_prefix_empty(n, width) == <<>>

be_len_prefix(n, width) == <<<<"length", width, n>>>>

\* The assertion in be_len_prefix.
PrefixPanics(n, width) == width = 4 /\ n > MaxAadV7

compute_auth_tag(kb, aad, nonce, body, width) ==
    hmac_digest(kb, <<<<"domain", 3>>, nonce>> \o be_len_prefix(Len(aad), width) \o aad \o body)

\* Fault: the AAD runs into the message.
synthetic_nonce_unprefixed(kb, aad, text) ==
    <<"synthetic", hmac_digest(kb, <<<<"domain", 10>>>> \o aad \o as_bytes(text))>>

synthetic_nonce(kb, aad, text) ==
    <<"synthetic",
      hmac_digest(kb, <<<<"domain", 10>>>> \o be_len_prefix(Len(aad), 8) \o aad \o as_bytes(text))>>

(* Tokens, masked and serialised *)

Element(key, i) == key[((i - 1) % Len(key)) + 1]
Cell(kb, nonce, i, k, c) == <<"cell", kb, nonce, i, k, c>>

\* PadProfile::block_size: the next step of the ladder, or always the same one; 0
\* stands for an error.
BlockSize(profile, n) ==
    CASE profile = "bucket" -> CHOOSE b \in Blocks : n < b /\ \A c \in Blocks : n < c => b <= c
      [] profile = "frame" -> IF n < Frame /\ Frame \in Blocks THEN Frame ELSE 0

\* Padding, token emission, fixed-width encoding and masking.
Body(text, key, kb, nonce, block) ==
    LET n == Len(text)
        padded == <<n \div 256, n % 256>> \o text \o [i \in 1 .. (block - n) |-> 32]
    IN  [i \in DOMAIN padded |-> Cell(kb, nonce, i, Element(key, i), padded[i])]

Result(status, why, text) == [status |-> status, why |-> why, text |-> text]
Err(why) == Result("err", why, <<>>)
Panic(why) == Result("panic", why, <<>>)

\* Unmasking, decoding and unpadding.  The residue modulo key.len() and the
\* addend modulo k - 1 panic on a tuple no policy admits.
Decode(body, key, kb, nonce) ==
    LET bad == {i \in DOMAIN body :
                  body[i] # Cell(kb, nonce, i, Element(key, i), body[i][Len(body[i])])}
        first == CHOOSE i \in bad : \A j \in bad : i <= j
        cps == [i \in DOMAIN body |-> body[i][6]]
    IN  IF key = <<>> THEN Panic("tokens")
        ELSE IF bad # {} THEN IF Element(key, first) < 2 THEN Panic("tokens") ELSE Err("tokens")
        ELSE IF \/ ~Scalars(cps) \/ Len(cps) < 2 \/ cps[1] > 255 \/ cps[2] > 255
                \/ 2 + cps[1] * 256 + cps[2] > Len(cps)
             THEN Err("tokens")
        ELSE Result("ok", "none", SubSeq(cps, 3, 2 + cps[1] * 256 + cps[2]))

Ciphertext(form, nonce, body, tag) ==
    [form |-> form, nonce |-> nonce, body |-> body, tag |-> tag, cut |-> "no"]
NoCiphertext == Ciphertext("none", <<>>, <<>>, <<>>)

(* Sealing *)

check_v7_aad_len(aad) == Len(aad) <= MaxAadV7

seal_v7(text, key, nonce, aad, form) ==
    LET body == Body(text, key, KeyV7(key), nonce, BlockSize("bucket", Len(text)))
    IN  Ciphertext(form, nonce, body, compute_auth_tag(KeyV7(key), aad, nonce, body, 4))

\* The low-level call: tokens, no AAD and no tag.
encrypt(text, key, nonce) ==
    Ciphertext("tokens", nonce, Body(text, key, KeyV7(key), nonce, BlockSize("bucket", Len(text))), <<>>)

encrypt_bytes_v8_core(text, key, sk, aad, profile) ==
    LET kb == KeyV8(sk)
        nonce == synthetic_nonce(kb, aad, text)
        body == Body(text, key, kb, nonce, BlockSize(profile, Len(text)))
    IN  Ciphertext("bytes", nonce, body, compute_auth_tag(kb, aad, nonce, body, 8))

(* Opening *)

\* Base64 text, or bytes that end within a token, have no tag where one is read.
Unread(ct) == ct.form # "bytes" \/ ct.cut = "ragged"

\* Fault: the tuple is not looked at.
open_v7_unvalidated(ct, key, aad) ==
    IF ~check_v7_aad_len(aad) THEN Err("aad")
    ELSE IF ct.cut = "short" THEN Err("short")
    ELSE IF Unread(ct) \/ ct.tag # compute_auth_tag(KeyV7(key), aad, ct.nonce, ct.body, 4) THEN Err("auth")
    ELSE Decode(ct.body, key, KeyV7(key), ct.nonce)

\* Fault: the AAD length is written as in v8.
open_v7_wide(ct, key, aad) ==
    IF ~check_v7_aad_len(aad) THEN Err("aad")
    ELSE IF ct.cut = "short" THEN Err("short")
    ELSE IF Unread(ct) \/ ct.tag # compute_auth_tag(KeyV7(key), aad, ct.nonce, ct.body, 8) THEN Err("auth")
    ELSE IF ~validate_key_v7_decrypt(key) THEN Err("key")
    ELSE Decode(ct.body, key, KeyV7(key), ct.nonce)

\* The tag first, under whatever the tuple serialises to, then the tuple.
open_v7(ct, key, aad) ==
    IF ~check_v7_aad_len(aad) THEN Err("aad")
    ELSE IF PrefixPanics(Len(aad), 4) THEN Panic("aad")
    ELSE IF ct.cut = "short" THEN Err("short")
    ELSE IF Unread(ct) \/ ct.tag # compute_auth_tag(KeyV7(key), aad, ct.nonce, ct.body, 4) THEN Err("auth")
    ELSE IF ~validate_key_v7_decrypt(key) THEN Err("key")
    ELSE Decode(ct.body, key, KeyV7(key), ct.nonce)

decrypt(ct, key) ==
    IF ~validate_key_v7_decrypt(key) THEN Err("key")
    ELSE Decode(ct.body, key, KeyV7(key), ct.nonce)

decrypt_bytes(ct, key, aad) == open_v7(ct, key, aad)

decrypt_str(ct, key, aad) ==
    IF ct.form # "base64" THEN Err("base64") ELSE decrypt_bytes([ct EXCEPT !.form = "bytes"], key, aad)

\* Fault: values are narrowed to a byte.
decrypt_raw_narrowing(ct, key, aad) ==
    LET r == open_v7(ct, key, aad)
    IN  [r EXCEPT !.text = [i \in DOMAIN r.text |-> r.text[i] % 256]]

decrypt_raw(ct, key, aad) ==
    LET r == open_v7(ct, key, aad)
    IN  IF r.status = "ok" /\ ~ByteValued(r.text) THEN Err("convention") ELSE r

decrypt_bytes_v8_core(ct, key, sk, aad) ==
    IF ct.cut = "short" THEN Err("short")
    ELSE IF ct.cut = "ragged" THEN Err("count")
    ELSE IF Unread(ct) \/ ct.tag # compute_auth_tag(KeyV8(sk), aad, ct.nonce, ct.body, 8) THEN Err("auth")
    ELSE Decode(ct.body, key, KeyV8(sk), ct.nonce)

decrypt_bytes_v8(ct, key, sk, aad) ==
    IF ~validate_key(key) THEN Err("policy") ELSE decrypt_bytes_v8_core(ct, key, sk, aad)

-----------------------------------------------------------------------------
NoCall == [call |-> "none", key |-> <<>>, sk |-> "none", aad |-> <<>>, ct |-> NoCiphertext,
           result |-> Err("none")]

Init == seals = <<>> /\ last = NoCall

\* A seal that succeeds joins the others; an error leaves nothing behind.
Sealed(call, key, sk, aad, text, valid, ct) ==
    IF valid
    THEN /\ seals' = Append(seals, [call |-> call, key |-> key, sk |-> sk, aad |-> aad,
                                    text |-> text, ct |-> ct])
         /\ UNCHANGED last
    ELSE /\ last' = [NoCall EXCEPT !.call = call, !.key = key, !.aad = aad]
         /\ UNCHANGED seals

\* generate_nonce_with_crng_check: never the previous one.
Fresh == <<"random", Len(seals)>>

(* One v7 seal: a second one says nothing new. *)

Fits(text) == Len(text) <= MAX_PLAINTEXT_CODEPOINTS

\* The low-level call takes codepoints of any kind, and no AAD.
Encrypt(key, text) ==
    /\ seals = <<>>
    /\ Sealed("encrypt", key, "none", <<>>, text,
              Fits(text) /\ Scalars(text) /\ validate_key(key), encrypt(text, key, Fresh))

EncryptBytes(key, aad, text) ==
    /\ seals = <<>> /\ Scalars(text)
    /\ Sealed("encrypt_bytes", key, "none", aad, text,
              validate_key(key) /\ check_v7_aad_len(aad) /\ Fits(text),
              seal_v7(text, key, Fresh, aad, "bytes"))

\* encrypt_bytes, in base64
EncryptStr(key, aad, text) ==
    /\ seals = <<>> /\ Scalars(text)
    /\ Sealed("encrypt_str", key, "none", aad, text,
              validate_key(key) /\ check_v7_aad_len(aad) /\ Fits(text),
              seal_v7(text, key, Fresh, aad, "base64"))

\* One codepoint per byte of data.
EncryptRaw(key, aad, data) ==
    /\ seals = <<>> /\ ByteValued(data)
    /\ Sealed("encrypt_raw", key, "none", aad, data,
              validate_key(key) /\ check_v7_aad_len(aad) /\ Fits(data),
              seal_v7(data, key, Fresh, aad, "bytes"))

\* encrypt_bytes_v8_with_profile, and its _key variant under a NapqesKey, of
\* which there is none for a tuple that does not validate.  A second seal, for
\* the sake of the nonces, is under the tuple of the first.
SealV8(call, profile, key, sk, aad, text) ==
    /\ \/ seals = <<>>
       \/ Len(seals) = 1 /\ seals[1].call = "encrypt_v8" /\ seals[1].key = key
    /\ Scalars(text)
    /\ call = "encrypt_v8_key" => validate_key(key)
    /\ Sealed("encrypt_v8", key, sk, aad, text,
              /\ validate_key(key)
              /\ Fits(text)
              /\ BlockSize(profile, Len(text)) # 0,
              encrypt_bytes_v8_core(text, key, sk, aad, profile))

(* What reaches the opener: a ciphertext and the AAD it is opened with *)

Arrival(ct, aad) == [ct |-> ct, aad |-> aad]

Arrivals(s) ==
    LET ct == s.ct IN
    {Arrival(ct, aad) : aad \in Aads}
    \cup {Arrival([ct EXCEPT !.cut = "short"], s.aad), Arrival([ct EXCEPT !.cut = "ragged"], s.aad),
          Arrival([ct EXCEPT !.tag = <<>>], s.aad),
          Arrival([ct EXCEPT !.nonce = <<"random", 9>>], s.aad),
          Arrival([ct EXCEPT !.body = Front(@)], s.aad),
          Arrival([ct EXCEPT !.body = Tail(@)], Append(s.aad, Head(ct.body)))}
    \cup IF s.aad = <<>> THEN {}
         ELSE {Arrival([ct EXCEPT !.body = <<Last(s.aad)>> \o @], Front(s.aad))}

Opens(call, ct, key, sk, aad) ==
    CASE call = "decrypt" -> decrypt(ct, key)
      [] call = "decrypt_bytes" -> decrypt_bytes(ct, key, aad)
      [] call = "decrypt_str" -> decrypt_str(ct, key, aad)
      [] call = "decrypt_raw" -> decrypt_raw(ct, key, aad)
      [] call = "decrypt_v8" -> decrypt_bytes_v8(ct, key, sk, aad)
      [] call = "decrypt_v8_key" -> decrypt_bytes_v8_core(ct, key, sk, aad)

V7Calls == {"decrypt_bytes", "decrypt_str", "decrypt_raw"}
V8Calls == {"decrypt_v8", "decrypt_v8_key"}
OpenCalls == V7Calls \cup V8Calls

Open(call, arrival, key, sk) ==
    /\ Len(seals) = 1
    /\ call = "decrypt" <=> seals[1].ct.form = "tokens"
    /\ call = "decrypt_v8_key" => validate_key(key)
    /\ last' = [call |-> call, key |-> key, sk |-> sk, aad |-> arrival.aad, ct |-> arrival.ct,
                result |-> Opens(call, arrival.ct, key, sk, arrival.aad)]
    /\ UNCHANGED seals

Next ==
    /\ last = NoCall
    /\ \/ \E key \in KeyTuples, text \in Texts :
             \/ Encrypt(key, text)
             \/ \E aad \in Aads :
                  EncryptBytes(key, aad, text) \/ EncryptStr(key, aad, text) \/ EncryptRaw(key, aad, text)
       \/ \E call \in {"encrypt_v8", "encrypt_v8_key"}, profile \in {"bucket", "frame"},
             key \in KeyTuples, sk \in Sks, aad \in Aads, text \in Texts :
               SealV8(call, profile, key, sk, aad, text)
       \/ \E s \in {seals[i] : i \in DOMAIN seals}, key \in KeyTuples :
             \E arrival \in Arrivals(s) :
               \/ \E call \in V7Calls \cup {"decrypt"} : Open(call, arrival, key, "none")
               \/ \E call \in V8Calls, sk \in Sks : Open(call, arrival, key, sk)

Spec == Init /\ [][Next]_vars

-----------------------------------------------------------------------------
(* Properties *)

\* The calls made for what was sealed, under its key, with nothing changed.
Matching ==
    /\ last.ct = seals[1].ct /\ last.aad = seals[1].aad
    /\ last.key = seals[1].key
    /\ CASE seals[1].call = "encrypt" -> last.call = "decrypt"
         [] seals[1].call = "encrypt_bytes" -> last.call = "decrypt_bytes"
         [] seals[1].call = "encrypt_str" -> last.call = "decrypt_str"
         [] seals[1].call = "encrypt_raw" -> last.call = "decrypt_raw"
         [] seals[1].call = "encrypt_v8" -> last.call \in V8Calls /\ last.sk = seals[1].sk

Opened == last.call \in OpenCalls \cup {"decrypt"}

\* Whatever a call accepts and seals, its counterpart opens, to the same text.
RoundTrips == Opened /\ Matching => last.result = Result("ok", "none", seals[1].text)

\* No call panics, whatever tuple, AAD or ciphertext it is given: a tuple that
\* serialises to the HMAC key of another passes the tag and is then refused,
\* before the token arithmetic divides by it (validate_key_v7_decrypt).
NeverPanics == last.result.status # "panic"

\* Past the tag check, nonce, body and AAD are those sealed, each where it was:
\* nothing moves between AAD and body (be_len_prefix).  So an error about the tuple
\* or the text is never shown to the maker of a forgery (the order in open_v7).
VerifiedIsSealed ==
    last.call \in OpenCalls /\ last.result.why \in {"key", "tokens", "convention", "none"} =>
        last.aad = seals[1].aad /\ last.ct = seals[1].ct

\* A call returns either an error or exactly the values that were sealed, under
\* any key and any plaintext convention: text read as bytes is refused above
\* U+00FF, never narrowed, and bytes read as text keep their values.
OpensToSealed == last.result.status = "ok" => last.result.text = seals[1].text

\* Two v8 seals under one sk share a nonce only for the same AAD and message, and
\* are then the same ciphertext if they are padded alike (synthetic_nonce).
NoncesSeparate ==
    \A i, j \in DOMAIN seals :
        LET a == seals[i]
            b == seals[j]
        IN  /\ a.ct.nonce = b.ct.nonce => <<a.sk, a.aad, a.text>> = <<b.sk, b.aad, b.text>>
            /\ <<a.sk, a.aad, a.text, a.key>> = <<b.sk, b.aad, b.text, b.key>>
                  /\ Len(a.ct.body) = Len(b.ct.body) => a.ct = b.ct
=============================================================================
