------------------------------ MODULE OtParse --------------------------------
(***************************************************************************)
(* The Modbus/TCP and DNP3 link-layer parsers of protocols/: what they     *)
(* accept from a buffer, what they hand on as the PDU, and how a frame is  *)
(* rebuilt.  Buffers are sequences of bytes.                               *)
(*                                                                         *)
(* A parser returns a record: outcome "ok", "err" or "panic" (a slice      *)
(* whose end lies before its start), the header and the PDU.               *)
(***************************************************************************)
EXTENDS Naturals, SequencesExt

MBAP_HEADER_SIZE == 7
DLL_HEADER_SIZE == 10
DNP3_START_BYTES == <<5, 100>>

Err == [outcome |-> "err"]

BigEndian16(n) == <<n \div 256, n % 256>>
LittleEndian16(n) == <<n % 256, n \div 256>>

-----------------------------------------------------------------------------
(* Modbus/TCP *)

\* Fault: the length field is taken to count the bytes after unit_id.
extract_pdu_past_unit(buf) ==
    LET length == buf[5] * 256 + buf[6]
    IN  IF \/ Len(buf) < MBAP_HEADER_SIZE \/ SubSeq(buf, 3, 4) # <<0, 0>>
           \/ Len(buf) - MBAP_HEADER_SIZE < length
          THEN Err
          ELSE [outcome |-> "ok", device |-> buf[7],
                header |-> [transaction_id |-> buf[1] * 256 + buf[2], unit_id |-> buf[7]],
                pdu |-> SubSeq(buf, 7, 7 + length)]

\* extract_pdu: the first `length` bytes from unit_id on; what follows them in
\* the buffer is ignored.
extract_pdu(buf) ==
    LET length == buf[5] * 256 + buf[6]
    IN  IF \/ Len(buf) < MBAP_HEADER_SIZE               \* TooShort
           \/ SubSeq(buf, 3, 4) # <<0, 0>>              \* BadProtocolId
           \/ Len(buf) - 6 < length                     \* LengthMismatch
          THEN Err
          ELSE [outcome |-> "ok", device |-> buf[7],
                header |-> [transaction_id |-> buf[1] * 256 + buf[2], unit_id |-> buf[7]],
                pdu |-> SubSeq(buf, 7, 6 + length)]

\* modbus::reconstruct.
ModbusReconstruct(header, pdu) ==
    BigEndian16(header.transaction_id) \o <<0, 0>> \o BigEndian16(Len(pdu) % 65536) \o pdu

-----------------------------------------------------------------------------
(* DNP3 *)

\* Exclusive or of two 16-bit numbers.
Xor16(a, b) ==
    FoldFunction(+, 0, [k \in 0..15 |-> 2 ^ k * (((a \div 2 ^ k) + (b \div 2 ^ k)) % 2)])

\* precompute_crc_table's inner loop, one shift; 42684 is 0xA6BC.
CrcShift(crc) == IF crc % 2 = 1 THEN Xor16(crc \div 2, 42684) ELSE crc \div 2

CRC_TABLE ==
    [i \in 0..255 |-> CrcShift(CrcShift(CrcShift(CrcShift(
                      CrcShift(CrcShift(CrcShift(CrcShift(i))))))))]

CrcByte(b, crc) == Xor16(crc \div 256, CRC_TABLE[Xor16(crc, b) % 256])

crc16_dnp(data) == 65535 - FoldLeft(LAMBDA crc, b : CrcByte(b, crc), 0, data)

\* Fault: the two CRC bytes are not counted.
total_frame_len_without_crc(length) == length + 3

total_frame_len(length) == length + 5

\* The header and the bytes up to the declared end; block CRCs are not looked at.
\* A length field below 5 puts the end before the start, and the slice panics.
Dnp3Parsed(buf) ==
    IF total_frame_len(buf[3]) < DLL_HEADER_SIZE THEN [outcome |-> "panic"]
    ELSE [outcome |-> "ok", device |-> buf[8] * 256 + buf[7],
          header |-> [control |-> buf[4], destination |-> buf[6] * 256 + buf[5],
                      source |-> buf[8] * 256 + buf[7]],
          pdu |-> SubSeq(buf, DLL_HEADER_SIZE + 1, total_frame_len(buf[3]))]

\* Fault: the header CRC is not compared.
extract_payload_no_crc(buf) ==
    IF \/ Len(buf) < DLL_HEADER_SIZE
       \/ SubSeq(buf, 1, 2) # DNP3_START_BYTES
       \/ Len(buf) < total_frame_len(buf[3])
      THEN Err
      ELSE Dnp3Parsed(buf)

extract_payload(buf) ==
    IF \/ Len(buf) < DLL_HEADER_SIZE                                     \* TooShort
       \/ SubSeq(buf, 1, 2) # DNP3_START_BYTES                           \* BadStartBytes
       \/ crc16_dnp(SubSeq(buf, 3, 8)) # buf[10] * 256 + buf[9]          \* HeaderCrcMismatch
       \/ Len(buf) < total_frame_len(buf[3])                             \* InsufficientPayload
      THEN Err
      ELSE Dnp3Parsed(buf)

\* A link header with a given length field, its CRC included.
Dnp3Header(length, header) ==
    LET body == <<length, header.control>> \o LittleEndian16(header.destination)
                    \o LittleEndian16(header.source)
    IN  DNP3_START_BYTES \o body \o LittleEndian16(crc16_dnp(body))

\* dnp3::reconstruct.
Dnp3Reconstruct(header, payload) == Dnp3Header((Len(payload) + 5) % 256, header) \o payload
=============================================================================
