---------------------------- MODULE MCGatewayWire ----------------------------
(* GatewayWire on a few frames of each protocol. *)
EXTENDS GatewayWire

Frame(bytes, body) == [kind |-> "frame", bytes |-> bytes, body |-> body]
NoFrame(kind, bytes) == [kind |-> kind, bytes |-> bytes, body |-> <<>>]

\* Two requests of different length, one with a length field of zero and one with
\* a foreign protocol id.
ModbusFrames ==
    {Frame(<<0, 1, 0, 0, 0, 2, 17, 3>>, <<17, 3>>),
     Frame(<<0, 2, 0, 0, 0, 3, 17, 6, 0>>, <<17, 6, 0>>),
     Frame(<<0, 3, 0, 0, 0, 0, 17>>, <<>>),
     NoFrame("malformed", <<0, 4, 0, 1, 0, 2, 17, 3>>)}

Outstation == [control |-> 196, destination |-> 1, source |-> 2]

\* A request, one whose payload begins like a frame, one whose header has a bad
\* CRC, and a header whose length field is below 5.
Dnp3Frames ==
    {Frame(Dnp3Reconstruct(Outstation, <<192, 1>>), <<192, 1>>),
     Frame(Dnp3Reconstruct(Outstation, <<5, 100, 3, 0>>), <<5, 100, 3, 0>>),
     NoFrame("malformed", DNP3_START_BYTES \o <<5, 196, 1, 0, 2, 0, 0, 0>>),
     NoFrame("short", Dnp3Header(4, Outstation))}

MCFrames == <<ModbusFrames, Dnp3Frames>>

Filler(n) == [i \in 1..n |-> 255]

\* A blob whose bytes are an envelope.
MCBlobs == {EnvelopeBytes([protocol |-> 1, device |-> 17, seq |-> 1, blob |-> Filler(2)])}

\* Blobs that end before and after the 23 bytes the egress reads first.
MCForwardBlobs == {Filler(3), Filler(30)}

ASSUME NoFalseHeader
=============================================================================
