# NAPQES: TLA+ models and proofs

NAPQES is an authenticated-encryption codec (Rust crate, with a Python reference
and a C port), a FIPS-style self-test gate around it, and the Legacy Shield
gateway, which tunnels Modbus/TCP and DNP3 traffic through it. This directory
models the parts with state, concurrency, failure or a protocol, checks them with
TLC on small instances, and proves the most important results with TLAPS for
every value of the constants. Paths below are relative to the repository root.

## Inventory

| part | state it keeps | operations | interacts with |
|---|---|---|---|
| POST latch (`rust/src/self_test.rs`) | `POST_STATE` (atomic), `POST_LOCK`, thread-local `IN_POST` | `run_power_on_self_tests`, `require_post`, `enter_error_state` | every gated entry point; its own known-answer tests call gated entry points |
| continuous RNG test (`rust/src/lib.rs`) | `PREV_NONCE` under a mutex | `generate_nonce_with_crng_check` | drives the latch into its error state |
| block codecs (`rust/src/lib.rs`) | none: one call | `pad_to_block`, `emit_tokens_v8`, `decrypt_core_v8`, `emit_tokens_v7`, `decrypt_core`, `unpad_message` | used by the block calls and the stream |
| block calls (`rust/src/lib.rs`, `key.rs`) | none: one call | `encrypt_bytes_v8`, `decrypt_bytes_v8`, the v7 `encrypt*` and `decrypt*`, and the `_key` variants | key policies, codec, tag; used by the framing layer |
| v8 streaming AEAD (`rust/src/lib.rs`) | `StreamV8Encryptor`: buffer, chunk index, total | `new`, `push`, `finish`, `decrypt_stream_ae_v8` | the codec per chunk |
| framing layer (`rust/src/ot_frame.rs`) | `SequenceCounter`'s two maps, `FileKeyStore`, `SessionKeyStore` | `next_seq`, `validate_recv`, `load`, `insert`, `wrap_pdu`, `unwrap_pdu` | called by every connection task of a gateway |
| key exchange (`rust/src/kem_exchange.rs`) | one loop per gateway, its TCP stream | `run_initiator_loop`, `run_responder_loop` | replaces the wildcard entry of the `SessionKeyStore` |
| gateway (`rust/src/bin/ls_gateway.rs`) | `GatewayState` shared by all tasks | ingress and egress handlers, `forward_envelope`, `handle_egress` | composes framing and key exchange |
| protocol parsers (`rust/src/protocols/`) | none | `extract_pdu`, `extract_payload`, `reconstruct` | called once per `read()` of an ingress connection |
| keys (`rust/src/lib.rs`, `key.rs`) | none | `generate_prime_numbers`, `is_prime`, `validate_key` | keys of everything above |
| key derivation (`rust/src/kem.rs`) | none | `encapsulate*`, `decapsulate*`, `hybrid_transcript`, `expand_seed_to_primes` | used by the key exchange |
| Python reference, C port | none, or an incremental decryptor | the same formats | cross-checked by known-answer tests |

What is hard here, and what must hold:

* *The latch.* Threads call, re-run POST and hit the RNG test at the same time;
  `require_post` loads the state without the lock, twice. Failure must be sticky,
  the error state must refuse every later call, a waiter must read an outcome, and
  no call may hang.
* *The framing layer.* Connection tasks race on the counters; the network delays,
  repeats, reorders and alters; either gateway restarts and loses its counters.
  Numbers must be unique, acceptance ordered and authentic, and only authentic
  frames may move the window.
* *The key exchange.* Connections are reset, retried and left behind in the
  backlog, and either side restarts or cannot bind. After an ACK both sides must
  use one key, and agreement must come back.
* *The wire.* Writer and reader must agree on where an envelope ends. The ingress
  takes one `read()` for one frame, whatever the network makes of it: what is sealed
  must still be a frame, no buffer may panic the parser, and what the egress rebuilds
  must parse.
* *The block calls.* v7 verifies a tag under a tuple it has not validated, different
  tuples can be one HMAC key, and AAD and body share one HMAC input. Nothing but what
  was sealed may come out, nothing may panic, no byte may move between AAD and body.
* *The keys.* Every tuple that is generated or derived must meet the encryptors'
  policy, two ends must derive the same one exactly when they saw the same exchange,
  and generation must end.
* *The codec and the stream.* Emitter and decoder derive the noise positions
  independently and must stay in step at the run cap; a stream must be released
  whole or not at all, at every boundary of chunk size and index.

`PROJECT.json` lists each hazard at its line, with the properties that address it.

## Modules

| module | models | run module |
|---|---|---|
| `PostGate` | the latch, the gate and the RNG test; a step is one access to shared state | itself |
| `PostGateProofs` | its inductive invariant and theorems | |
| `OtChannel` | what the tunnel promises: an abstract specification | |
| `OtFrame` | counters, window, key stores, `wrap_pdu`/`unwrap_pdu`, under the gateways' tasks | `MCOtFrame` |
| `OtFrameProofs` | its inductive invariant, theorems and the refinement of `OtChannel` | |
| `KemExchange` | both loops over TCP connections | itself |
| `KemExchangeProofs` | its inductive invariant and theorems | |
| `Gateway` | `OtFrame` and `KemExchange` over the same key stores, in KEM mode | `MCGateway` |
| `GatewayProofs` | that it implements both, and its theorems, from instances of both components' proofs; the theorems of `GatewayWire` | |
| `OtParse` | the Modbus and DNP3 parsers, CRC and reconstruction | |
| `GatewayWire` | a field connection's reads, envelope bytes, `forward_envelope`'s prefix, `handle_egress`'s reader and what it rebuilds | `MCGatewayWire` |
| `StreamV8` | the stream encryptor, incremental and all at once, and the decryptor | itself |
| `StreamV8Proofs` | its inductive invariant and theorems | |
| `TokenCodec` | padding, token emission and decoding: v7, v8 and the stream's chunks | `MCTokenCodec` |
| `TokenCodecProofs` | its inductive invariant and theorems | |
| `Keys` | primality and the two key policies | |
| `KeyEstablish` | key generation, and key establishment by FrodoKEM or the hybrid | `MCKeyEstablish` |
| `KeyEstablishProofs` | exactness of `is_prime`, its inductive invariant and theorems | |
| `BlockApi` | the block calls of v7 and v8 | `MCBlockApi` |
| `BlockApiProofs` | what the calls compute, and its theorems | |

**PostGate.** `postState`, `postLock`, `inPost`, `nonceLock` and `prevNonce` are
the statics of the crate; `pc`, `caller` and `nonce` are each thread's position and
locals. The program points of `require_post` are `gate`, `gateReload`, `gateLock`
and `gateLocked`; those of a POST run start with `post`, with `kats` for the
known-answer tests, which may call gated operations from within, fail, or panic
(the guards unwind, the state stays `RUNNING`). `panicked`, `cleanCall`,
`lateCall`, `refused` and `stuckSeen` are history. The one atomic is taken as
sequentially consistent; the code uses acquire and release on it, and with a
single location the two agree.

**OtFrame.** A frame is numbered (`IngressNumber`: `next_seq`) and sealed
(`IngressSeal`: `load`, `wrap_pdu`, forward) in two steps, so tasks interleave
between them; likewise opened (`EgressOpen`: `load`, AEAD) and validated
(`EgressValidate`: `validate_recv`). `wire` holds every blob ever sent: delivery
is any blob, any number of times, under any header, or bytes nobody sealed. The
AEAD is ideal: a blob opens only under its key and its associated data. Installs
put any key into the wildcard entry at any time; `Gateway` narrows this to what
the exchange does. Restarts empty the counters and start a new life.

**OtChannel.** `Seal` and `Accept` with strictly increasing numbers per channel,
and `Restart`. Loss is allowed. `OtFrame` implements it with `sealed` mapped to the
frames on the wire.

**KemExchange.** A connection's `link` says which ends and whether the network
still hold; `down` and `up` hold the one unread message in each direction. A
closed end is seen after the data already sent; a reset may lose what is in flight,
and a write into a reset connection may succeed. FrodoKEM is ideal.

**Gateway.** Instances of the two modules, `ingressKey` and `egressKey` being the
wildcard entries of the stores. Restarts take both parts of a process down.
`opening` and `delivered` are history: which blob each task opened, and which blobs
were accepted in which life of the egress.

**OtParse, GatewayWire.** Real bytes and offsets: MBAP and DNP3 link headers with the
CRC the code computes; magic, protocol, device, number and length of an envelope.
Sequence numbers stay within three bytes (`MAX_SEQ`), as devices and blob lengths do,
and of a `u32` above `MAX_BLOB` only that fact is kept. A blob is any byte string
(`Blobs`). A `read()` of the ingress returns any number of the waiting bytes; the egress
uses `read_exact`, which hides segmentation, so a write to it appears at once.
What a field device may write is a set of frames per protocol: well formed, malformed,
or (DNP3) with a length below five (`ModbusWritten`, `Dnp3Written`). `aligned` and
`taken` are history: whether every read so far was exactly one frame, and how many
were; so are `sealed` and `sent`. `relayed` holds, for each PDU the egress opened, the
frame it rebuilt and the bytes `forward_envelope` writes to the device for it. Every
device has a key here and `wrap_pdu` succeeds: the `KEY_MISSING` paths of the three
handlers, which spend a number at the ingress and drop the envelope at the egress, are
alternatives of `IngressSeal` and `EgressOpen` in `OtFrame`, and so is an envelope lost
to a failing `wrap_pdu`. `sender` tells the documented envelope ("bare") from
what `forward_envelope` writes. `HandedAsSent` is about the first, because the reader
loses the second (`ForwardedIsRead`). The specification is called `WireSpec`, its parts
`WireInit` and `WireNext`, so that one module can prove theorems of it and of `Gateway`.

**StreamV8.** Two streams under one key; the decryptor is shown frames of either in
any order. Tags are ideal: they verify exactly for the fields they cover. The mask on
the sentinel's codepoint count is left out: it is a function of header and chunk
count, which the sentinel's tag covers as well. The filler of a last chunk is a
codepoint that texts hold too (in the run it is one of them), as in the code: only the
sentinel's count tells them apart.

**TokenCodec.** `is_noise_pos` answers freely, the same to both sides. The
arithmetic of a token (codepoint times prime plus addend) and of the two-byte
length prefix is kept, with scaled-down primes and byte size, and so is the rejection
of surrogates (`Codepoints`). `OtherEncoder` stands
for tokens that are fewer than those emitted, or altered: made by a key holder, or
handed to the v7 call that takes bare tokens.

**Keys, KeyEstablish.** `is_prime` is the code's algorithm; its floating-point root
(`F64Sqrt`) is exact for a third of the numbers and off by one either way for the
others, as above 2^52. The run has this one pattern of errors; that the corrections
reach the root from any estimate is proved (`RootCorrected`). Three ways, chosen at the start: classify one number, generate
a tuple draw by draw, or establish a key. In the last, sender and recipient each
expand a seed digest by digest, and the public key and the ciphertext may be altered,
cut, exchanged or re-encoded on the way. FrodoKEM (with implicit rejection), X25519,
HKDF and HMAC are ideal; digests are drawn when needed and equal seeds see equal ones.

**BlockApi.** One seal (two in v8, for the sake of the nonces), then one call that
opens it, or an altered ciphertext, under any tuple, sk and AAD. HMAC is injective on
key and input, *after* what the code does to them: five bytes per element, zero
filling up to a block (`HmacBlock` elements), a flat input with length prefixes. UTF-8
and the two-byte length in front of a padded text are as in the code; the ladder of
block sizes is a set (`Blocks`) of which the model needs only that it has one above the
longest text. An error carries the check it came from, which is how the order of the checks is observed.

In each module the operators marked `Fault:` are plausible bugs of one definition;
`PROJECT.json` pairs each property with one that breaks it.

## Runs

| run | checks | bounds and why they suffice |
|---|---|---|
| `post_gate` | `TypeOK`, `LateCallRefused`, `WaiterSeesOutcome`, `RunningIsOwned`, `StuckGeneratorIsFatal`, `FailedIsSticky`, `EveryCallReturns` | 2 threads, 2 calls each, 2 nonces: one thread runs or re-runs POST while the other calls or draws; the safety part is proved for any number |
| `post_gate_refusal` | `NoSpuriousRefusal`, violated | the same |
| `ot_frame` | `TypeOK`, `WindowIsAuthentic`, `AcceptedIsAuthentic`, `SequenceNumbersUnique`, `AcceptedInOrder`, `ChannelSpec` | 2 devices so that a header can name the wrong one, 2 keys, 2 tasks a side, one restart each; histories stop at two sealed frames or restarts in all (`FewFrames`); proved for all values |
| `kem_exchange` | `AgreementAfterAck`, `KeysAgreeAgain` | 3 connections (one served, one stale, one new), 5 keys so that one is always fresh, 2 faults |
| `gateway` | `SettledFramesOpen`, `AcceptedOnceEver`, `TunnelSpec` | 1 device, 2 numbers, 1 fault and 1 restart a side, 4 keys: one before the restart, one under way, one after it and one fresh |
| `gateway_rekey` | `InFlightFramesContinue`, violated | no faults: a re-key is enough |
| `gateway_wire` | `HandedAsSent`, `AlignedReadsIntact`, `Dnp3SealsWholeFrames`, `SegmentationNeverPanics`, `ReassemblyInverts` | 2 field frames out of 4 per protocol (different lengths, length zero, a payload that begins like a frame, a bad CRC, a header below its minimum), every way to cut their bytes into reads; a blob that is itself an envelope; `NoFalseHeader` is evaluated for these frames |
| `gateway_wire_forward` | `ForwardedIsRead`, violated | the same, with blobs that end before and after the 23 bytes the reader takes for a header |
| `stream_v8` | `ReleasedIsWhole`, `GenuineAccepted`, `SubNoncesUnique`, `IncrementalAgrees` | 2 streams, frame sizes 1 and 2, index limit 2: empty, partial, full and last-index chunks all occur |
| `token_codec` | `RoundTrip`, `BudgetSuffices`, `CutNeverShortens` | all formats and padding profiles, blocks 1 to 4, noise cap and guard 1, codepoints up to 7 (`MAX_CODEPOINT`) with a surrogate at 6, which an altered token can reach, one message of each length up to one above the largest block (`Messages`), every noise realisation |
| `key_establish` | `PrimalityExact`, `KeysGood`, `UntouchedAgree`, `AgreementBindsExchange`, `GenerationEnds` | numbers around 59^2, the first square the trial loop decides; an interval with a handful of primes, the KEM's half-open one ending just above the policy's (`MAX_PRIME` = `MAX_KEY_PRIME` + 1), and tuples of 2; 3 draws per prime; a seed's digests are new primes from the third on (`MaxDraws`) |
| `block_api` | `RoundTrips`, `NeverPanics`, `VerifiedIsSealed`, `OpensToSealed`, `NoncesSeparate` | 13 tuples: good, aliased by zero filling or truncation, empty, too long, repeated, composite, 1; AAD up to one above the v7 limit (`MaxAadV7`); texts of one, two and three UTF-8 bytes, a surrogate, too long; blocks of 2 and 4, so that the profiles differ |

`CHECK_DEADLOCK FALSE` is set for `stream_v8`, `token_codec`, `key_establish` and
`block_api` alone, whose single calls end. Symmetry is used only without liveness properties.

### What the runs show

All passing properties hold of the code as it is. Three statements of the
repository do not:

* `post_gate_refusal`: `require_post` loads `POST_STATE` at lines 159 and 163 of
  `self_test.rs` without the lock. If a re-run of POST stores `RUNNING` between
  them, an operational module refuses the call, which the comments at lines 148
  and 1146 exclude.
* `gateway_rekey`: `SessionKeyStore` keeps one wildcard entry and the egress loads
  it for each envelope, so frames in flight under the old key fail after a re-key;
  `kem_exchange.rs:38` says that they continue.
* `gateway_wire_forward`: `forward_envelope` writes a 4-byte length that
  `handle_egress` does not read, so no envelope the ingress forwards is decrypted.
  Because of this `OtFrame` and `Gateway` start from envelopes that the egress has
  delimited; what they show about a tunnel applies once both ends agree on the
  prefix, or to a peer that writes bare envelopes.

Observations with no run of their own:

* The comment at `lib.rs:997` counts exhaustion states that reach the "Truncated v8
  ciphertext" branch; `BudgetSuffices` shows that none does after the count check.
* `AcceptedOnceEver` holds in KEM mode because a restart loses the session keys along
  with the window. With a key file, frames accepted before a restart of the egress
  are acceptable again.
* A DNP3 header with a valid CRC and a length below 5 panics its connection's task
  (`dnp3.rs:137`); `SegmentationNeverPanics` shows that no segmentation of other
  traffic does.
* Modbus has no checksum: a read that starts inside a frame can be taken for a frame.
  `AlignedReadsIntact` is what holds, under the handlers' own expectation.
* The prefix of `forward_envelope` also goes to the device behind the egress, before the
  rebuilt frame (`ls_gateway.rs:347`). A Modbus device reads its four bytes as transaction
  and protocol id and refuses the frame, as `extract_pdu` does, although
  `protocols/mod.rs:4` has the PDU re-framed for delivery. `ReassemblyInverts` is about
  `reassemble_modbus` alone: the frame it returns is right, what is delivered is not.
* The egress forwards a DNP3 payload without a link header: nothing calls
  `dnp3::reconstruct`, and the envelope does not carry all of the header it needs.
* The egress rebuilds Modbus frames with transaction id 0. The listener's protocol, not
  the envelope's, decides how a PDU is rebuilt.
* An MBAP length of zero is sealed as an empty PDU, which comes out as six bytes.
* `generate_prime_numbers` takes an interval of one number for an empty one, also when
  that number is a prime.
* The v8 tag is keyed by `sk` alone: a wrong prime tuple under the right `sk` passes
  the tag and fails in the tokens (`VerifiedIsSealed` counts that as verified).
* `expand_seed_to_primes` has no draw budget; it ends because its interval holds far
  more primes than the tuple needs.

### Fairness

* `PostGate`: weak fairness of each thread's own work (the operating system runs
  threads that can run; a lock holder always releases), and strong fairness of the
  return from the known-answer tests, because they are a finite straight line of
  calls and cannot go on for ever. Which calls are made, when, and how the tests end
  is not fair. `EveryCallReturns` also means the lock order is free of deadlock.
* `KemExchange`: weak fairness of each loop as one task that the runtime wakes on
  its sockets and timers. Faults are not fair and are bounded by `MaxFaults`, as
  agreement can only be expected when they stop. A responder that cannot bind returns
  for good, which `KeysAgreeAgain` excepts. The model has no peer that holds a
  connection open in silence for ever.

* `KeyEstablish`: weak fairness of the generating call, a loop of one thread. Nothing
  is assumed of what it draws: `GenerationEnds` rests on the draw budget alone.

## Proofs

Every safety property that a passing run checks is proved for every value of the
constants. All theorems are proved from the named assumptions on the constants only
(two of `GatewayWire` from a further hypothesis on the frames, see there), which TLC
evaluates on every run:

| assumption | says |
|---|---|
| `PostGateAssumption`, `KemExchangeAssumption` | bounds are numbers, null values lie outside their sets |
| `OtFrameAssumption`, `GatewayAssumption` | the same, and the key file is a function on the devices |
| `GatewayWireAssumption` | frames and blobs are bytes, a frame is laid out as its kind says, no blob is longer than `MAX_BLOB` |
| `StreamV8Assumption` | the filler is no codepoint of a text; frame size and index limit are at least 1 |
| `TokenCodecAssumption` | the noise cap is at least 1, primes are at least 2, the largest block's length fits in two bytes, a byte's value is a codepoint |
| `KeyBounds`, `KemInterval`, `KeyEstablishAssumption` | the policy's interval starts at 2 or later and serialises; the KEM's interval is within it; its tuple is not longer than the policy allows |
| `BlockApiAssumption` | AADs are bytes, texts are numbers, the longest text's length fits in two bytes and some block is longer |

Nothing is assumed finite: any number of threads, tasks, devices, keys, connections,
calls, restarts, streams, messages, frames and blobs.

**PostGateProofs** (`TypeCorrect`, `StickyFailure`, `ErrorStateRefuses`,
`WaitersSeeOutcome`, `RunningOwned`, `StuckFatal`). The invariants are not inductive
alone: that a POST run cannot overwrite a failure depends on who holds `POST_LOCK` at
which program point. `IInv` adds `LockInv` (the points at which a thread holds each
lock), `InPostInv` (`IN_POST` is set exactly while the tests run and return), `CallerInv`
(a test's call is decided at its first load, so only an operation is past it) and `StateInv` (what `POST_STATE` may be
at each point; in particular the thread about to store `PASSED` or `FAILED` sees
`RUNNING`).

**OtFrameProofs** (`TypeCorrect`, `UniqueNumbers`, `InOrder`, `Authentic`,
`WindowAuthentic`, `Refinement`). `IInv` adds to the properties `NumberInv` (a number in a
task's hands or on the wire in this life is at most the counter, and no two coincide),
`OpenedInv` (what an egress task holds was sealed) and `WindowInv` (the mark of
the window is the number of the last accepted frame). `WindowIsAuthentic` follows
from `WindowInv` and `AcceptedIsAuthentic`; `Refinement` maps numbering and the egress
opening to stutters, sealing to `Seal`, and a successful `validate_recv` to
`Accept`, whose guard on the last number is `WindowInv`.

**KemExchangeProofs** (`ExchangeTyped`, `AgreementHoldsAfterAck`). `AgreementAfterAck`
speaks of two loops and one key; what preserves it is the order of the backlog. `Inv`
says that a connection waits at most once and is not held elsewhere (`QueuedOnce`), that
the initiator's connection is the youngest (`Youngest`: it is served, or last in the
queue), that a ciphertext in flight fits its connection's key (`CiphertextFits`), and
that after the ACK the queue is empty of anything that could still install a key
(`SettledAfterAck`).

**GatewayProofs**, of `Gateway` (`ImplementsFraming`, `ImplementsChannel`,
`ImplementsExchange`, `SettledFramesAreOpened`, `NeverAcceptedTwice`). The two component proof modules are instantiated at the
composition's variables; each action of `Gateway` is shown to be a step or a stutter of
both, so both invariants carry over. `Own` adds what neither can say: which keys can
still come out of an exchange under way, that a key installed in this life of the egress
has sealed nothing that an earlier life accepted, and which blob a task has opened.
`ImplementsChannel` joins `ImplementsFraming` to the refinement of `OtFrameProofs`.

**GatewayProofs**, of `GatewayWire` (`WireInvariant`, `EnvelopesHandedAsSent`,
`AlignedFramesSealed`, `ReassemblyInvertsExtraction`, `Dnp3PayloadsAreFrames`,
`SplitReadsNeverPanic`). None of the properties says where a connection's bytes come
from, so none is inductive. `Laid(s, cut, P)` does: what waits in a connection is the end of
the pieces `P`, piece `k` between `cut[k - 1]` and `cut[k]`, ends of pieces already read
being negative. A read shifts the cuts, a write adds one, a connection that ends early
cuts the bytes off (`LaidDrop`, `LaidExtend`, `LaidPrefix`). `WireInv` says this of the
field connection and the frames written (`FieldInv`, with a cut at zero as long as reads
were aligned), and of the secure connection and the envelopes sent (`StreamInv`, with the
cut after the last envelope handed on always at zero). Layout lemmas give what
`EnvelopeBytes` puts where, that `ParseEnvelope` inverts it (`EnvelopeLaid`,
`ParseInverts`), and each parser as a case distinction on its input (`ExtractPdu`,
`ExtractPayload`); so the length `handle_egress` reads is the next envelope's, whatever
the blobs hold. `OriginInv` keeps the frame of everything sealed, `RebuiltInv` that
what was rebuilt parses back (`RebuiltParses`, for every PDU a read can yield).

The two theorems about reads that start anywhere in DNP3 traffic take a hypothesis,
`NoFalseHeader`: no ten bytes inside a device's frames, across the border of two of them
included, start with 0x05 0x64 and carry the CRC of a header. Nothing in the code excludes
such bytes, which are a frame to `extract_payload`; a 16-bit CRC makes them rare. For
frames without them, a read that starts inside a frame is rejected, and one that starts
at a frame seals that frame or nothing (`Dnp3Window`). Modbus needs no such hypothesis,
because it promises less: `AlignedReadsIntact` covers aligned reads only, and
`extract_pdu` never panics.

**StreamV8Proofs** (`ReleaseIsWhole`, `GenuineIsAccepted`, `SubNoncesAreUnique`,
`IncrementalEncryptorAgrees`). `StreamInv` gives the k-th frame of a stream as a function
of what was pushed (`Piece`: the codepoints of its place, filled up), the chunk index and
the total; `AcceptedInv` says that a decryptor that has accepted k chunks holds the first
k - 1 of them as delivered and the k-th as pending, of one stream. Release is then
whole by the sentinel's count, and the two encryptors agree because both are `Piece`.

**TokenCodecProofs** (`DecodingInverts`, `BudgetIsEnough`, `CutIsSafe`). The emitter and
the decoder share nothing but the noise answers. `Inv` says that there is a function
from the padded codepoints to token positions, increasing, with only noise in between,
that respects the noise cap; the decoder follows the same one (`Following`). The
ceiling of the token count bounds it. The blocks are powers of two, about which the prover
knows nothing; their facts come from the library's theorem on the size of a power set.

**KeyEstablishProofs** (`IsPrimeExact`, `PrimalityIsExact`, `KeysAreGood`,
`UntouchedExchangeAgrees`, `AgreementBinds`). `IsPrimeExact` is about `is_prime` for every
natural number: any estimate of the root is corrected to the exact one, a composite has a
divisor not above its root, and a least divisor is either 2, one of the fifteen small
primes, or an odd number from 59 on that the loop meets. `GenInv` keeps the primes
drawn distinct and in the interval; `PartyInv` says that a party's primes are the ones its
digests lead to, `SenderBegun` and `RecipientBegun` that its seed is the one its view of
the exchange leads to, `SameDigests` that equal seeds see equal digests.

**BlockApiProofs** (`SealsOpen`, `CallsNeverPanic`, `OnlySealedVerifies`,
`NothingElseOpens`, `NoncesDoSeparate`). The calls have no state, so the invariant only
says that seals and answers come from the calls; the content is in the lemmas. `TagBinds`
and `NonceBinds`: a flat HMAC input determines its parts because the length
of the AAD precedes it. `BytesDecode`: UTF-8 is uniquely decodable, as a byte that leads
a codeword never continues one; a text is read back from its end. `DecodesTo`:
whatever the key, cells of a body decode to the text or to an error. `DecodeNeverPanics`:
a tuple that passes either policy is not empty and has no element below 2.

Induction over naturals and positions is by least counterexample, from the library's
theorem that `<` is well-founded on the naturals (`NatLeast`).

Model-checked only: the liveness properties `EveryCallReturns`, `KeysAgreeAgain` and
`GenerationEnds`, because fairness and ENABLED are outside the prover's reach.

## Not modelled

* Cryptography: HMAC, the masking keystream, FrodoKEM, X25519 and HKDF are ideal where
  a model uses them. That a seal of v7 can fail at the noise guard is in `TokenCodec`
  and not in `BlockApi`. The test-only calls with a caller's nonce are left out.
* The start and the death of a gateway's listeners (`wait_for_key`,
  `start_ot_listeners`, `run_task_loop`): a listener that fails stays down, which leaves
  nothing to check.
* The statistical test suite (`sts.rs`: floating point), command lines, SIEM text,
  configuration parsing, the integrity sidecar, the known-answer tests and generators
  and the drone demonstration: no state, or pure I/O.
* The Python reference and the C port: the same formats again; buffer capacities of
  the C port and the early release of the Python stream decryptor are not covered.
* Wiping of secrets.
* Memory ordering weaker than sequential consistency, allocation failure,
  overflow of the 64-bit sequence counter (it wraps in release builds after
  2^64 frames).

## Status

Modelled and checked: the latch, the framing layer, the key exchange and their
composition, the wire and the parsers, the stream, the codecs, the keys and the block
calls. Proved: every safety property of all of them, the refinement of the abstract
channel, by the framing layer and by the composition, and that the composition implements
its two parts. The three liveness properties rest on TLC. The findings are the three runs
that expect a violation: if the code is changed to meet what its comments say, those
properties belong with the passing ones.
