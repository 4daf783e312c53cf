---------------------------- MODULE KeyEstablish -----------------------------
(***************************************************************************)
(* How a NAPQES key comes to be (rust/src/lib.rs, key.rs, kem.rs).         *)
(*                                                                         *)
(* "generate": generate_prime_numbers draws candidates one by one under a  *)
(*   draw budget, for generate_v8_key and NapqesKey.                       *)
(* "exchange": a sender encapsulates to a public key and the recipient     *)
(*   decapsulates, FrodoKEM alone or hybridised with X25519; each side     *)
(*   expands its own seed into primes, one digest at a time.  The public   *)
(*   key and the ciphertext may change on the way.                         *)
(* "classify": one call of is_prime.                                       *)
(*                                                                         *)
(* The primitives are ideal.  FrodoKEM rejects implicitly: what it did not *)
(* make for this key decapsulates to an unrelated secret.  An X25519       *)
(* shared secret is the set of the two scalars, empty (all-zero) for a     *)
(* small-order point; a point has several encodings.  HKDF and HMAC are    *)
(* injective; digests are drawn when first needed, and equal seeds see     *)
(* equal digests.                                                          *)
(***************************************************************************)
EXTENDS Keys

CONSTANTS
    Probes,                     \* arguments of is_prime
    Counts, Ranges,             \* arguments of generate_v8_key
    KEYGEN_DRAWS_PER_PRIME,
    NAPQES_KEY_COUNT, MIN_PRIME, MAX_PRIME,     \* kem.rs
    Digests,                    \* leading 8 bytes of an HMAC digest
    MaxDraws                    \* bound: by then a seed's digests are new primes

\* kem.rs draws below MAX_PRIME, lib.rs up to MAX_KEY_PRIME.
ASSUME KemInterval ==
    /\ {MIN_PRIME, MAX_PRIME} \subseteq Nat
    /\ MIN_KEY_PRIME <= MIN_PRIME
    /\ MIN_PRIME < MAX_PRIME
    /\ MAX_PRIME <= MAX_KEY_PRIME + 1

ASSUME KeyEstablishAssumption ==
    /\ NAPQES_KEY_COUNT \in 1 .. MAX_KEY_ELEMENTS
    /\ KEYGEN_DRAWS_PER_PRIME \in Nat
    /\ Probes \subseteq Nat
    /\ Counts \subseteq Nat
    /\ Ranges \subseteq Nat \X Nat
    /\ Digests \subseteq Nat

VARIABLES
    way,        \* "classify", "generate" or "exchange"
    query,      \* [pc, n, prime]: the call of is_prime
    gen,        \* the running generate_v8_key
    sender, recipient,      \* the two parties' calls into kem.rs
    publicKey,  \* as it reached the sender
    sent,       \* the ciphertext encapsulate returned
    received    \* the ciphertext handed to decapsulate

vars == <<way, query, gen, sender, recipient, publicKey, sent, received>>

Modes == {"frodo", "frodo_v8", "hybrid"}

(* Blobs: a FrodoKEM part and, in a hybrid one, an X25519 part *)

Absent == [point |-> "none", enc |-> "none"]
Point(p) == [point |-> p, enc |-> "canonical"]

NoCt == [to |-> "none", altered |-> FALSE]
NoBlob == [pq |-> NoCt, ec |-> Absent, size |-> "none"]
NoPublicKey == [pq |-> "none", ec |-> Absent, size |-> "none"]

\* PublicKey::from_bytes and Ciphertext::from_bytes look at the length alone.
WellSized(blob, mode) == blob.size = "whole" /\ (blob.ec # Absent <=> mode = "hybrid")

OwnPublicKey(mode) ==
    [pq |-> "recipient", ec |-> IF mode = "hybrid" THEN Point("static") ELSE Absent, size |-> "whole"]

Otherwise(blob, change) == IF blob.ec = Absent THEN blob ELSE change

\* What the sender may take for the recipient's public key.
PublicKeys(mode) ==
    LET own == OwnPublicKey(mode) IN
    {own, [own EXCEPT !.pq = "other"], [own EXCEPT !.size = "cut"]}
    \cup {Otherwise(own, [own EXCEPT !.ec = e]) :
            e \in {Point("other"), Point("small"), [point |-> "static", enc |-> "alias"]}}

\* What may arrive of a ciphertext.
Arrivals(ct) ==
    {ct, [ct EXCEPT !.pq.altered = TRUE], [ct EXCEPT !.size = "cut"],
     [ct EXCEPT !.ec = IF @ = Absent THEN Point("other") ELSE Absent]}
    \cup {Otherwise(ct, [ct EXCEPT !.ec = e]) :
            e \in {Point("other"), Point("small"), [point |-> "ephemeral", enc |-> "alias"]}}

(* Primitives *)

FrodoEncapsulate(pk) == [to |-> pk, altered |-> FALSE]
FrodoSecret(ct, from) == [ct |-> ct, from |-> from]
FrodoDecapsulate(ct, sk) ==
    FrodoSecret(ct, IF ct.to = sk /\ ~ct.altered THEN "encapsulation" ELSE "rejection")

diffie_hellman(scalar, public) == IF public.point = "small" THEN {} ELSE {scalar, public.point}

Hkdf(salt, ikm, info) == [salt |-> salt, ikm |-> ikm, info |-> info]
NoSeed == Hkdf("none", <<>>, <<>>)

(* Derivations of kem.rs *)

\* Fault: the ephemeral key is left out.
hybrid_transcript_no_ephemeral(pk_pq, ct_pq, pk_ec_static, pk_ec_ephemeral) ==
    <<"v2", pk_pq, ct_pq, pk_ec_static>>

hybrid_transcript(pk_pq, ct_pq, pk_ec_static, pk_ec_ephemeral) ==
    <<"v2", pk_pq, ct_pq, pk_ec_static, pk_ec_ephemeral>>

FrodoSeed(ss) == Hkdf("NAPQES-v6-FrodoKEM-640-prime-key", <<ss>>, <<"v1">>)
derive_v8_sk(ss) == Hkdf("NAPQES-v6-FrodoKEM-640-prime-key", <<ss>>, <<"v1-sk-v8">>)
HybridSeed(ss_pq, ss_ec, transcript) ==
    Hkdf("NAPQES-hybrid-FrodoKEM640AES-X25519-prime-key", <<ss_pq, ss_ec>>, transcript)

(* Parties *)

Party(pc, mode, seed, sk) ==
    [pc |-> pc, mode |-> mode, seed |-> seed, sk |-> sk, draws |-> <<>>, primes |-> <<>>]

Failed(mode) == Party("err", mode, NoSeed, NoSeed)

FrodoParty(mode, ss) ==
    Party("expand", mode, FrodoSeed(ss), IF mode = "frodo_v8" THEN derive_v8_sk(ss) ELSE NoSeed)

\* derive_napqes_key_hybrid
HybridParty(ss_pq, ss_ec, transcript) ==
    IF ss_ec = {} THEN Failed("hybrid")
    ELSE Party("expand", "hybrid", HybridSeed(ss_pq, ss_ec, transcript), NoSeed)

Init ==
    /\ way \in {"classify", "generate", "exchange"}
    /\ query = [pc |-> "idle", n |-> 0, prime |-> FALSE]
    /\ gen = [pc |-> "idle", count |-> 0, min |-> 0, max |-> 0, primes |-> <<>>, attempts |-> 0]
    /\ sender = Party("idle", "frodo", NoSeed, NoSeed)
    /\ recipient = Party("idle", "frodo", NoSeed, NoSeed)
    /\ publicKey = NoPublicKey
    /\ sent = NoBlob
    /\ received = NoBlob

exchange == <<sender, recipient, publicKey, sent, received>>

(* classify *)

Classify(n) ==
    /\ way = "classify" /\ query.pc = "idle"
    /\ query' = [pc |-> "done", n |-> n, prime |-> is_prime(n)]
    /\ UNCHANGED <<way, gen, exchange>>

(* generate *)

\* generate_v8_key up to the drawing loop of generate_prime_numbers
Generate(count, min, max) ==
    /\ way = "generate" /\ gen.pc = "idle"
    /\ gen' = [gen EXCEPT !.count = count, !.min = min, !.max = max,
                 !.pc = IF /\ MIN_KEY_PRIME <= min /\ max <= MAX_KEY_PRIME
                           /\ count \in 1 .. MAX_KEY_ELEMENTS
                           /\ min < max
                        THEN "draw" ELSE "err"]
    /\ UNCHANGED <<way, query, exchange>>

Taken(primes) == {primes[i] : i \in DOMAIN primes}

\* Fault: only a candidate that was kept counts against the budget.
DrawUncounted(num) ==
    LET kept == num \notin Taken(gen.primes) /\ is_prime(num) IN
    /\ gen.pc = "draw" /\ num \in gen.min .. gen.max
    /\ gen' = IF ~kept THEN gen
              ELSE [gen EXCEPT !.primes = Append(@, num), !.attempts = @ + 1,
                      !.pc = IF Len(gen.primes) + 1 = gen.count THEN "ok" ELSE "draw"]
    /\ UNCHANGED <<way, query, exchange>>

\* One turn of the loop, and what follows it when it was the last: the tuple,
\* or an error with the primes wiped.
Draw(num) ==
    LET primes == IF num \notin Taken(gen.primes) /\ is_prime(num)
                  THEN Append(gen.primes, num) ELSE gen.primes
        attempts == gen.attempts + 1
    IN  /\ gen.pc = "draw" /\ num \in gen.min .. gen.max
        /\ gen' = IF Len(primes) = gen.count
                  THEN [gen EXCEPT !.primes = primes, !.attempts = attempts, !.pc = "ok"]
                  ELSE IF attempts = gen.count * KEYGEN_DRAWS_PER_PRIME
                  THEN [gen EXCEPT !.primes = [i \in DOMAIN primes |-> 0], !.attempts = attempts, !.pc = "err"]
                  ELSE [gen EXCEPT !.primes = primes, !.attempts = attempts]
        /\ UNCHANGED <<way, query, exchange>>

(* exchange *)

\* encapsulate, encapsulate_v8, encapsulate_hybrid, to the public key pk
Encapsulate(mode, pk) ==
    LET ct == FrodoEncapsulate(pk.pq)
        ss == FrodoSecret(ct, "encapsulation")
    IN  /\ way = "exchange" /\ sender.pc = "idle"
        /\ publicKey' = pk
        /\ sender' =
             IF ~WellSized(pk, mode) THEN Failed(mode)
             ELSE IF mode # "hybrid" THEN FrodoParty(mode, ss)
             ELSE HybridParty(ss, diffie_hellman("ephemeral", pk.ec),
                              hybrid_transcript(pk.pq, ct, pk.ec, Point("ephemeral")))
        /\ sent' = IF sender'.pc = "err" THEN NoBlob
                   ELSE [pq |-> ct, ec |-> IF mode = "hybrid" THEN Point("ephemeral") ELSE Absent,
                         size |-> "whole"]
        /\ UNCHANGED <<way, query, gen, recipient, received>>

\* Fault: the recipient's own point and the ephemeral one change places.
DecapsulateSwapped(mode, ct) ==
    LET ss == FrodoDecapsulate(ct.pq, "recipient") IN
    /\ sent # NoBlob /\ recipient.pc = "idle"
    /\ received' = ct
    /\ recipient' =
         IF ~WellSized(ct, mode) THEN Failed(mode)
         ELSE IF mode # "hybrid" THEN FrodoParty(mode, ss)
         ELSE HybridParty(ss, diffie_hellman("static", ct.ec),
                          hybrid_transcript("recipient", ct.pq, ct.ec, Point("static")))
    /\ UNCHANGED <<way, query, gen, sender, publicKey, sent>>

\* decapsulate, decapsulate_v8, decapsulate_hybrid.  A hybrid secret key carries
\* its FrodoKEM public key, and the static point is computed from the scalar.
Decapsulate(mode, ct) ==
    LET ss == FrodoDecapsulate(ct.pq, "recipient") IN
    /\ sent # NoBlob /\ recipient.pc = "idle"
    /\ received' = ct
    /\ recipient' =
         IF ~WellSized(ct, mode) THEN Failed(mode)
         ELSE IF mode # "hybrid" THEN FrodoParty(mode, ss)
         ELSE HybridParty(ss, diffie_hellman("static", ct.ec),
                          hybrid_transcript("recipient", ct.pq, Point("static"), ct.ec))
    /\ UNCHANGED <<way, query, gen, sender, publicKey, sent>>

\* Fault: no check against the primes already found.
ExpandedRepeating(party, digest) ==
    LET raw == MIN_PRIME + (digest % (MAX_PRIME - MIN_PRIME)) IN
    [party EXCEPT !.draws = Append(@, digest), !.primes = IF is_prime(raw) THEN Append(@, raw) ELSE @]

\* One turn of expand_seed_to_primes.
Expanded(party, digest) ==
    LET raw == MIN_PRIME + (digest % (MAX_PRIME - MIN_PRIME)) IN
    [party EXCEPT !.draws = Append(@, digest),
                  !.primes = IF raw \notin Taken(@) /\ is_prime(raw) THEN Append(@, raw) ELSE @]

\* A turn, and what follows the last one: derive_v8_key ends in NapqesKey::new.
Turn(party, digest) ==
    LET p == Expanded(party, digest) IN
    IF Len(p.primes) < NAPQES_KEY_COUNT THEN p
    ELSE IF p.mode = "frodo_v8" /\ ~validate_key(p.primes) THEN Failed(p.mode)
    ELSE [p EXCEPT !.pc = "ok"]

\* HMAC(seed, counter) is this digest, as far as the other party has seen.
Consistent(party, other, digest) ==
    LET counter == Len(party.draws) + 1 IN
    /\ other.seed = party.seed /\ counter <= Len(other.draws) => digest = other.draws[counter]
    /\ counter >= MaxDraws => Len(Expanded(party, digest).primes) > Len(party.primes)

SenderExpand(digest) ==
    /\ sender.pc = "expand" /\ Consistent(sender, recipient, digest)
    /\ sender' = Turn(sender, digest)
    /\ UNCHANGED <<way, query, gen, recipient, publicKey, sent, received>>

RecipientExpand(digest) ==
    /\ recipient.pc = "expand" /\ Consistent(recipient, sender, digest)
    /\ recipient' = Turn(recipient, digest)
    /\ UNCHANGED <<way, query, gen, sender, publicKey, sent, received>>

-----------------------------------------------------------------------------
Generation ==
    \/ \E count \in Counts, range \in Ranges : Generate(count, range[1], range[2])
    \/ \E num \in gen.min .. gen.max : Draw(num)

Next ==
    \/ \E n \in Probes : Classify(n)
    \/ Generation
    \/ \E mode \in Modes, view \in Modes : \E pk \in PublicKeys(view) : Encapsulate(mode, pk)
    \/ \E mode \in Modes, ct \in Arrivals(sent) : Decapsulate(mode, ct)
    \/ \E digest \in Digests : SenderExpand(digest) \/ RecipientExpand(digest)

\* The generating thread is scheduled; nothing is assumed of what it draws.
Spec == Init /\ [][Next]_vars /\ WF_vars(Generation)

-----------------------------------------------------------------------------
(* Properties *)

\* Trial division with the wheel of small primes and the corrected square root
\* decides primality, at the squares of primes above 53 too (is_prime).
PrimalityExact == query.pc = "done" => (query.prime <=> Prime(query.n))

IntervalPrimes == {n \in MIN_KEY_PRIME .. MAX_KEY_PRIME : Prime(n)}

GoodKey(primes) ==
    /\ Len(primes) \in 1 .. MAX_KEY_ELEMENTS
    /\ Distinct(primes)
    /\ \A i \in DOMAIN primes : primes[i] \in IntervalPrimes

\* Every tuple a generator or a derivation hands out is one the key policy of
\* the encryptors accepts, so the calls that skip validation never meet a bad
\* key, and deriving a v8 key never fails after the exchange has succeeded
\* (generate_prime_numbers, expand_seed_to_primes, NapqesKey::new).
KeysGood ==
    /\ gen.pc = "ok" => GoodKey(gen.primes) /\ validate_key(gen.primes)
    /\ \A p \in {sender, recipient} : p.pc = "ok" => GoodKey(p.primes)

\* An exchange nobody touched succeeds on both sides and ends in the same tuple
\* in the same order, and in the same sk.
UntouchedAgree ==
    /\ sender.mode = recipient.mode
    /\ publicKey = OwnPublicKey(sender.mode)
    /\ received = sent
    => /\ "err" \notin {sender.pc, recipient.pc}
       /\ sender.pc = "ok" /\ recipient.pc = "ok" =>
            sender.primes = recipient.primes /\ sender.sk = recipient.sk

\* Two parties that hold one seed saw the same exchange: the same kind of key
\* establishment, the recipient's own public key and the same ciphertext, byte
\* for byte.  An X25519 point in another encoding, which leaves the shared
\* secret alone, or a hybrid exchange cut down to its FrodoKEM half, leaves them
\* without a common key (hybrid_transcript, the HKDF salts).
AgreementBindsExchange ==
    sender.seed = recipient.seed /\ sender.seed # NoSeed =>
        /\ sender.mode = "hybrid" <=> recipient.mode = "hybrid"
        /\ publicKey = OwnPublicKey(sender.mode)
        /\ received = sent

\* A generation always ends, with a key or an error, however unlucky the draws
\* and however few primes the interval holds (the draw budget).
GenerationEnds == gen.pc = "draw" ~> gen.pc \in {"ok", "err"}
=============================================================================
