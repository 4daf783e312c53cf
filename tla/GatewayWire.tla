----------------------------- MODULE GatewayWire -----------------------------
(***************************************************************************)
(* The bytes of one message through both gateways: a field device's        *)
(* connection as the ingress reads it, the envelope on the secure side,    *)
(* how handle_egress cuts that connection into envelopes, and the frame it *)
(* rebuilds for the device behind it.                                      *)
(*                                                                         *)
(* The ingress takes whatever one read() returns for one frame, so the     *)
(* model lets a read return any number of the waiting bytes.  The egress   *)
(* uses read_exact, which hides how the network splits the bytes, so a     *)
(* write to it appears at once; a connection may end anywhere.  An         *)
(* envelope reaches the egress in one of two ways: as the documented wire  *)
(* format has it ("bare"), or as forward_envelope writes it ("forward"),   *)
(* on a connection of its own and with a length before it.                 *)
(***************************************************************************)
EXTENDS OtParse

CONSTANTS
    Senders,        \* the ways considered, among "bare" and "forward"
    Frames,         \* Frames[p]: what a field device of protocol p may write, as records
                    \* [kind, bytes, body], see WellWritten
    Seqs,           \* values the sequence counters may have reached
    Blobs,          \* the v8 blobs that encryption may return, as any bytes
    MaxFrames       \* bound: frames written by the field device

VARIABLES
    sender,     \* how envelopes are written to the egress
    protocol,   \* the protocol of the field connection and of the egress listener
    base,       \* the first sequence number of every device in this history
    written,    \* history: the frames the field device wrote
    field,      \* bytes of the field connection that the ingress has not read
    task,       \* the connection's task: "reading", "closed" or "panicked"
    aligned,    \* history: every read so far returned exactly one frame
    taken,      \* history: the frames read before the first read that did not
    sealed,     \* history: [env, pdu], what wrap_pdu made
    sent,       \* history: the envelopes that went out, in order
    stream,     \* bytes of the current secure connection the egress has not read
    open,       \* "open": the peer may write more; "ended": the stream ends here
    handed,     \* envelopes that reached unwrap_pdu's decryption
    relayed,    \* [frame, bytes]: what the egress rebuilt for the device behind it, and
                \* what it wrote to that device
    reported    \* the gateways that sent a PARSE_ERR or an AUTH_FAIL event

fieldVars == <<base, written, field, task, aligned, taken, sealed, sent>>
wireVars == <<sender, protocol, fieldVars, stream, open, handed, relayed, reported>>

MODBUS == 1
DNP3 == 2
ProtocolIds == {MODBUS, DNP3}
READ_BUFFER == 4096
ENVELOPE_HEADER_SIZE == 23
ENVELOPE_MAGIC == <<78, 81>>
MAX_BLOB == 48 + 160 * (65536 + 2)
MAX_SEQ == 16777215     \* bound: sequence numbers of three bytes

(* What a field device writes *)

\* An MBAP header and what its length field declares, which may be nothing.
ModbusWritten(f) ==
    LET b == f.bytes
        length == b[5] * 256 + b[6]
    IN  /\ f.kind = "frame" =>
             /\ Len(b) = IF f.body = <<>> THEN 7 ELSE 6 + Len(f.body)
             /\ b[3] = 0 /\ b[4] = 0 /\ length = Len(f.body)
             /\ \A i \in DOMAIN f.body : b[6 + i] = f.body[i]
        /\ f.kind = "malformed" => Len(b) < 7 \/ b[3] # 0 \/ b[4] # 0 \/ Len(b) < 6 + length
        /\ f.kind # "short"

\* Ten bytes from o + 1 on that pass for a DNP3 link header.
Dnp3HeaderAt(b, o) ==
    /\ b[o + 1] = 5 /\ b[o + 2] = 100
    /\ crc16_dnp(SubSeq(b, o + 3, o + 8)) = b[o + 10] * 256 + b[o + 9]

\* A link header and its payload; "short" is one that declares fewer than five bytes.
Dnp3Written(f) ==
    /\ Len(f.bytes) >= 10
    /\ f.kind = "malformed" <=> ~Dnp3HeaderAt(f.bytes, 0)
    /\ f.kind = "frame" =>
         /\ f.bytes[3] = Len(f.body) + 5
         /\ Len(f.bytes) = 10 + Len(f.body)
         /\ \A i \in DOMAIN f.body : f.bytes[10 + i] = f.body[i]
    /\ f.kind = "short" => f.bytes[3] < 5

ASSUME GatewayWireAssumption ==
    /\ Senders \subseteq {"bare", "forward"}
    /\ \A p \in ProtocolIds : \A f \in Frames[p] :
          /\ f \in [kind : {"frame", "malformed", "short"}, bytes : Seq(0..255), body : Seq(0..255)]
          /\ f.bytes # <<>>
          /\ IF p = MODBUS THEN ModbusWritten(f) ELSE Dnp3Written(f)
    /\ Seqs \subseteq Nat
    /\ \A b \in Blobs : b \in Seq(0..255) /\ Len(b) <= MAX_BLOB
    /\ MaxFrames \in Nat

\* No frame, whatever follows it, holds ten bytes that pass for a header anywhere
\* but at its start: the header CRC of DNP3 makes this likely, no more.
NoFalseHeader ==
    \A f, g \in Frames[DNP3] : \A o \in 1..(Len(f.bytes) - 1) :
        ~Dnp3HeaderAt(f.bytes \o g.bytes, o)

-----------------------------------------------------------------------------
(* Layout *)

\* to_be_bytes in w bytes, of a number that fits three.
BigEndian(n, w) == [i \in 1..(w - 3) |-> 0] \o <<n \div 65536, (n \div 256) % 256, n % 256>>

\* u32::from_be_bytes, of a number above MAX_BLOB only that it is.
U32(b) == IF b[1] > 0 THEN MAX_BLOB + 1 ELSE (b[2] * 256 + b[3]) * 256 + b[4]

\* from_be_bytes of eight bytes that hold a small number.
U64(b) == U32(SubSeq(b, 5, 8))

\* Fault: the length field counts the header too.
EnvelopeBytesWholeLength(e) ==
    ENVELOPE_MAGIC \o <<e.protocol>> \o BigEndian(e.device, 8) \o BigEndian(e.seq, 8)
        \o BigEndian(ENVELOPE_HEADER_SIZE + Len(e.blob), 4) \o e.blob

\* wrap_pdu's output, with an opaque blob.
EnvelopeBytes(e) ==
    ENVELOPE_MAGIC \o <<e.protocol>> \o BigEndian(e.device, 8) \o BigEndian(e.seq, 8)
        \o BigEndian(Len(e.blob), 4) \o e.blob

\* forward_envelope: a 4-byte length, then the data.
ForwardedBytes(data) == BigEndian(Len(data), 4) \o data

\* The fields parse_envelope_header finds in one envelope's worth of bytes.
ParseEnvelope(buf) ==
    [protocol |-> buf[3], device |-> U64(SubSeq(buf, 4, 11)), seq |-> U64(SubSeq(buf, 12, 19)),
     blob |-> SubSeq(buf, ENVELOPE_HEADER_SIZE + 1, Len(buf))]

\* The parser of the field connection's handler.
Extract(buf) == IF protocol = MODBUS THEN extract_pdu(buf) ELSE extract_payload(buf)

\* Fault: the unit id is written again before the PDU, which already starts with it.
RebuiltTwice(pdu) ==
    IF protocol = MODBUS
      THEN ModbusReconstruct([transaction_id |-> 0], <<IF pdu = <<>> THEN 0 ELSE pdu[1]>> \o pdu)
      ELSE pdu

\* What handle_egress makes of an opened PDU: reassemble_modbus, with a
\* transaction id of zero, or the DNP3 payload as it is, without a link header.
Rebuilt(pdu) ==
    IF protocol = MODBUS
      THEN ModbusReconstruct([transaction_id |-> 0, unit_id |-> IF pdu = <<>> THEN 0 ELSE pdu[1]], pdu)
      ELSE pdu

\* The frame of an opened PDU and the bytes forward_envelope writes for it.
Relay(pdu) == [frame |-> Rebuilt(pdu), bytes |-> ForwardedBytes(Rebuilt(pdu))]

-----------------------------------------------------------------------------
WireInit ==
    /\ sender \in Senders
    /\ protocol \in ProtocolIds
    /\ base \in Seqs
    /\ written = <<>>
    /\ field = <<>>
    /\ task = "reading"
    /\ aligned = TRUE
    /\ taken = 0
    /\ sealed = <<>>
    /\ sent = <<>>
    /\ stream = <<>>
    /\ open = "open"
    /\ handed = <<>>
    /\ relayed = <<>>
    /\ reported = {}

\* The field device writes a frame.
FieldWrite(f) ==
    /\ Len(written) < MaxFrames
    /\ task = "reading"
    /\ written' = Append(written, f)
    /\ field' = field \o f.bytes
    /\ UNCHANGED <<sender, protocol, base, task, aligned, taken, sealed, sent, stream, open, handed,
                   relayed, reported>>

\* read() returns n of the waiting bytes.
Read(n) ==
    /\ task = "reading"
    /\ n \in 1..Len(field)
    /\ n <= READ_BUFFER
    /\ field' = SubSeq(field, n + 1, Len(field))
    /\ aligned' = (aligned /\ taken < Len(written) /\ n = Len(written[taken + 1].bytes))
    /\ taken' = IF aligned' THEN taken + 1 ELSE taken

\* The handler's parse error: an event, and on with the next read.
ReadRejected(n) ==
    /\ Read(n)
    /\ Extract(SubSeq(field, 1, n)).outcome = "err"
    /\ reported' = reported \cup {"ingress"}
    /\ UNCHANGED <<sender, protocol, base, written, task, sealed, sent, stream, open, handed, relayed>>

\* The parser panics: the connection's task is gone, and its bytes with it.
ReadPanics(n) ==
    /\ Read(n)
    /\ Extract(SubSeq(field, 1, n)).outcome = "panic"
    /\ task' = "panicked"
    /\ UNCHANGED <<sender, protocol, base, written, sealed, sent, stream, open, handed, relayed, reported>>

\* The handler seals the PDU under the next sequence number and forwards the
\* envelope; a connection that fails loses it.  Every device has a key here:
\* KEY_MISSING and a failing wrap_pdu are outcomes of OtFrame's IngressSeal.
ReadSealed(n, blob) ==
    LET parsed == Extract(SubSeq(field, 1, n))
        counter == base + Cardinality({i \in DOMAIN sealed : sealed[i].env.device = parsed.device})
        env == [protocol |-> protocol, device |-> parsed.device, seq |-> counter, blob |-> blob]
    IN  /\ Read(n)
        /\ parsed.outcome = "ok"
        /\ counter \in Nat /\ counter <= MAX_SEQ
        /\ sealed' = Append(sealed, [env |-> env, pdu |-> parsed.pdu])
        /\ \/ /\ sender = "bare"
              /\ open = "open"
              /\ stream' = stream \o EnvelopeBytes(env)
              /\ sent' = Append(sent, env)
              /\ UNCHANGED open
           \/ /\ sender = "forward"
              /\ stream = <<>>
              /\ stream' = ForwardedBytes(EnvelopeBytes(env))
              /\ sent' = Append(sent, env)
              /\ open' = "ended"
           \/ UNCHANGED <<stream, sent, open>>
        /\ UNCHANGED <<sender, protocol, base, written, task, handed, relayed, reported>>

\* The device closes its connection: read() returns 0 once the bytes are read.
FieldClose ==
    /\ task = "reading"
    /\ field = <<>>
    /\ task' = "closed"
    /\ UNCHANGED <<sender, protocol, base, written, field, aligned, taken, sealed, sent, stream, open,
                   handed, relayed, reported>>

\* The secure connection ends, possibly before its last bytes arrived.
End(n) ==
    /\ open = "open"
    /\ n \in 0..Len(stream)
    /\ stream' = SubSeq(stream, 1, n)
    /\ open' = "ended"
    /\ UNCHANGED <<sender, protocol, fieldVars, handed, relayed, reported>>

\* One iteration of handle_egress: header, blob, magic, protocol id, unwrap_pdu
\* (which opens exactly what was sealed), rebuild, forward.  A wrong magic is a
\* PARSE_ERR, an unknown protocol or a failed opening an AUTH_FAIL; both go on
\* with whatever bytes follow.  KEY_MISSING is an outcome of OtFrame's EgressOpen.
EgressEnvelope ==
    LET n == ENVELOPE_HEADER_SIZE + U32(SubSeq(stream, 20, 23))
        buf == SubSeq(stream, 1, n)
        wellFormed == SubSeq(buf, 1, 2) = ENVELOPE_MAGIC /\ buf[3] \in ProtocolIds
        opened == {s \in Range(sealed) : s.env = ParseEnvelope(buf)}
    IN  /\ Len(stream) >= ENVELOPE_HEADER_SIZE
        /\ n <= ENVELOPE_HEADER_SIZE + MAX_BLOB
        /\ Len(stream) >= n
        /\ stream' = SubSeq(stream, n + 1, Len(stream))
        /\ handed' = IF wellFormed THEN Append(handed, ParseEnvelope(buf)) ELSE handed
        /\ \/ /\ wellFormed
              /\ \E s \in opened : relayed' = Append(relayed, Relay(s.pdu))
              /\ UNCHANGED reported
           \/ /\ ~(wellFormed /\ opened # {})
              /\ reported' = reported \cup {"egress"}
              /\ UNCHANGED relayed
        /\ UNCHANGED <<sender, protocol, fieldVars, open>>

\* The iteration that breaks the loop: a stream that ends inside an envelope, or
\* a length above MAX_BLOB (reported).  The connection and its bytes are gone.
EgressBreak ==
    LET declared == U32(SubSeq(stream, 20, 23))
    IN  /\ stream # <<>>
        /\ \/ /\ Len(stream) < ENVELOPE_HEADER_SIZE /\ open = "ended"
              /\ UNCHANGED reported
           \/ /\ Len(stream) >= ENVELOPE_HEADER_SIZE /\ declared > MAX_BLOB
              /\ reported' = reported \cup {"egress"}
           \/ /\ Len(stream) >= ENVELOPE_HEADER_SIZE /\ declared <= MAX_BLOB
              /\ Len(stream) < ENVELOPE_HEADER_SIZE + declared /\ open = "ended"
              /\ UNCHANGED reported
        /\ stream' = <<>>
        /\ open' = "ended"
        /\ UNCHANGED <<sender, protocol, fieldVars, handed, relayed>>

\* Everything is written and read.
Done ==
    /\ task # "reading" /\ stream = <<>> /\ open = "ended"
    /\ UNCHANGED wireVars

-----------------------------------------------------------------------------
WireNext ==
    \/ \E f \in Frames[protocol] : FieldWrite(f)
    \/ \E n \in 1..Len(field) :
          ReadRejected(n) \/ ReadPanics(n) \/ \E b \in Blobs : ReadSealed(n, b)
    \/ FieldClose
    \/ \E n \in 0..Len(stream) : End(n)
    \/ EgressEnvelope
    \/ EgressBreak
    \/ Done

WireSpec == WireInit /\ [][WireNext]_wireVars

-----------------------------------------------------------------------------
(* Properties *)

\* In the documented wire format, whatever is read from the field, whatever bytes
\* the blobs hold and wherever the secure connection ends, what reaches decryption
\* are the envelopes that went out, whole and in their order; nothing is lost while
\* the connection lasts, and the egress never reports anything.
HandedAsSent ==
    sender = "bare" =>
        /\ Len(handed) <= Len(sent)
        /\ \A n \in DOMAIN handed : handed[n] = sent[n]
        /\ open = "open" /\ stream = <<>> => handed = sent
        /\ "egress" \notin reported

\* Every envelope the ingress gateway forwards reaches decryption on the egress.
ForwardedIsRead ==
    sender = "forward" /\ stream = <<>> => handed = sent

\* While the network returns one frame per read (what handle_ingress_modbus and
\* handle_ingress_dnp3 count on), each well-formed frame is sealed exactly once,
\* in order, with the bytes that follow its header and nothing else.
AlignedReadsIntact ==
    aligned /\ field = <<>> /\ task # "panicked" =>
        \E origin \in [DOMAIN sealed -> DOMAIN written] :
            /\ \A i, j \in DOMAIN sealed : i < j => origin[i] < origin[j]
            /\ {origin[i] : i \in DOMAIN sealed} = {k \in DOMAIN written : written[k].kind = "frame"}
            /\ \A i \in DOMAIN sealed : sealed[i].pdu = written[origin[i]].body

\* However the reads fall, a DNP3 payload that is sealed is the body of one frame
\* the device wrote: the header CRC of extract_payload keeps a read that starts
\* inside a frame from being taken for one.
Dnp3SealsWholeFrames ==
    protocol = DNP3 =>
        \A s \in Range(sealed) : \E f \in Range(written) : f.kind = "frame" /\ s.pdu = f.body

\* However the reads fall, a device whose headers declare at least five bytes never
\* loses its connection to a panic of the parser.
SegmentationNeverPanics ==
    task = "panicked" => \E f \in Range(written) : f.kind = "short"

\* The parser takes the sealed PDU s, and its device, out of the frame.
ParsesTo(frame, s) ==
    /\ Extract(frame).outcome = "ok"
    /\ Extract(frame).pdu = s.pdu
    /\ Extract(frame).device = s.env.device

\* reassemble_modbus inverts extract_pdu: whatever was read, sealed and opened, the
\* frame it builds from the PDU parses to that PDU, for the same unit.  A PDU without
\* a byte (an MBAP length of zero) is the exception: it gives six bytes, no frame.
\* This is the frame handed to forward_envelope.  The bytes the device gets begin with
\* forward_envelope's length and do not parse.
ReassemblyInverts ==
    protocol = MODBUS =>
        \A r \in Range(relayed) : \E s \in Range(sealed) :
            IF s.pdu = <<>> THEN Len(r.frame) = 6 ELSE ParsesTo(r.frame, s)
=============================================================================
