----------------------------- MODULE FrameCodec -----------------------------
(***************************************************************************)
(* The bytes on the link (components/automower/automower_protocol.cpp,     *)
(* crc8_maxim.cpp, and the frames that ble_manager.cpp builds itself).     *)
(* Sequences count from 1: byte i of the code is element i + 1 here.       *)
(* Bug_X is a plausible mistake in the code behind X, for the mutants.     *)
(***************************************************************************)
EXTENDS Naturals, Sequences

Byte == 0..255
U16(n) == <<n % 256, (n \div 256) % 256>>
U32(n) == U16(n % 65536) \o U16(n \div 65536)
ReadU16(s, i) == s[i + 1] + 256 * s[i + 2]
\* Values from 2^31 on do not occur in the bounded inputs.
ReadU32(s, i) == ReadU16(s, i) + 65536 * ReadU16(s, i + 2)

\* Exclusive or of two bytes, digit by digit.  (Bitwise has it, but not for the
\* proofs.)
Xor(a, b) ==
    LET digit(n) == ((a \div n) + (b \div n)) % 2
    IN  digit(1) + 2 * digit(2) + 4 * digit(4) + 8 * digit(8)
        + 16 * digit(16) + 32 * digit(32) + 64 * digit(64) + 128 * digit(128)

\* CRC-8/MAXIM-DOW: eight shifts with the reflected polynomial per byte.
CrcShift(b) == IF b % 2 = 1 THEN Xor(b \div 2, 140) ELSE b \div 2
CrcTable == [b \in Byte |->
    LET twice(c) == CrcShift(CrcShift(c))
    IN  twice(twice(twice(twice(b))))]
\* maxim(): its loop over the bytes.
Crc(bytes) ==
    LET crc[n \in 0..Len(bytes)] ==
            IF n = 0 THEN 0 ELSE CrcTable[Xor(crc[n - 1], bytes[n])]
    IN  crc[Len(bytes)]

\* Bytes 0..8 of every frame, and the CRC over bytes 1..8.
Header(len, channel, linked) ==
    LET h == <<2, 253>> \o U16(len) \o U32(channel) \o <<linked>>
    IN  Append(h, Crc(Tail(h)))
\* The CRC over all but byte 0, and the end mark.
Sealed(frame) == frame \o <<Crc(Tail(frame)), 3>>

\* The length field counts the two bytes before it.
Bug_Encode(channel, major, minor, payload) ==
    Sealed(Header(18 + Len(payload), channel, 1) \o <<0, 175>>
           \o U16(major) \o U16(minor) \o U16(Len(payload)) \o payload)

\* encode_request()
Encode(channel, major, minor, payload) ==
    Sealed(Header(16 + Len(payload), channel, 1) \o <<0, 175>>
           \o U16(major) \o U16(minor) \o U16(Len(payload)) \o payload)

\* Only the shape is looked at, not the CRC of the header.
Bug_Decodes(in) ==
    /\ Len(in) >= 21 /\ in[1] = 2 /\ in[2] = 253 /\ in[Len(in)] = 3
    /\ ReadU16(in, 2) + 4 = Len(in)
    /\ Len(in) = 21 + ReadU16(in, 17)

\* decode_response(): what it accepts.  The CRC of the payload is not tested.
Decodes(in) ==
    /\ Len(in) >= 21
    /\ in[1] = 2 /\ in[2] = 253
    /\ in[Len(in)] = 3
    /\ ReadU16(in, 2) + 4 = Len(in)
    /\ in[10] = Crc(SubSeq(in, 2, 9))
    /\ Len(in) = 21 + ReadU16(in, 17)

\* As a request, which has no result byte.
Bug_Decoded(in) == [major   |-> ReadU16(in, 12), minor |-> ReadU16(in, 14),
                    result  |-> in[17],
                    payload |-> SubSeq(in, 19, 18 + ReadU16(in, 17))]

\* What it returns, and byte 16, which its callers read.
Decoded(in) == [major   |-> ReadU16(in, 12), minor |-> ReadU16(in, 14),
                result  |-> in[17],
                payload |-> SubSeq(in, 20, 19 + ReadU16(in, 17))]

\* Every frame has the length rule of a request.
Bug_Expected(buf) == ReadU16(buf, 2) + 4

\* gap_event_cb, NOTIFY_RX: how long the frame at the start of the buffer is.
Expected(buf) == ReadU16(buf, 2) + IF buf[12] = 175 THEN 4 ELSE 2
IsComplete(buf) ==
    /\ Len(buf) >= 12 /\ buf[1] = 2 /\ buf[2] = 253
    /\ Len(buf) >= Expected(buf)

\* build_channel_setup() and build_handshake(): frames of the handshake.
ChannelSetup(channel) ==
    Sealed(Header(22, 0, 0) \o <<20>> \o U32(channel) \o U32(0)
           \o <<77, 97, 105, 110, 0>>)
HandshakeFrame(channel) == Sealed(Header(10, channel, 0) \o <<8, 1>>)

\* add_task() and decode_task(): start, duration, Monday to Sunday.
TaskPayload(task) ==
    U32(task.start) \o U32(task.duration)
    \o [d \in 1..7 |-> IF task.use_on[d] THEN 1 ELSE 0]
TaskDecodes(resp) == Len(resp) >= 15
DecodeTask(resp) == [start  |-> ReadU32(resp, 0), duration |-> ReadU32(resp, 4),
                     use_on |-> [d \in 1..7 |-> resp[8 + d] # 0]]

-----------------------------------------------------------------------------
(* The mower's side, external: from the layouts the code and its comments  *)
(* describe.                                                               *)

Answer(channel, major, minor, result, payload) ==
    Sealed(Header(17 + Len(payload), channel, 1) \o <<1, 175>>
           \o U16(major) \o U16(minor) \o <<result>>
           \o U16(Len(payload)) \o payload)

\* A request the mower understands.
Understood(in) ==
    /\ Len(in) >= 20 /\ in[1] = 2 /\ in[2] = 253 /\ in[Len(in)] = 3
    /\ ReadU16(in, 2) + 4 = Len(in)
    /\ in[10] = Crc(SubSeq(in, 2, 9)) /\ in[12] = 175
    /\ Len(in) = 20 + ReadU16(in, 16)
    /\ in[Len(in) - 1] = Crc(SubSeq(in, 2, Len(in) - 2))
Request(in) == [major |-> ReadU16(in, 12), minor |-> ReadU16(in, 14),
                payload |-> SubSeq(in, 19, 18 + ReadU16(in, 16))]

\* The echo of a link frame: its length field counts to the end.
Echo(frame) ==
    LET len == U16(Len(frame) - 2)
        h   == <<2, 253>> \o len \o SubSeq(frame, 5, 9)
    IN  Sealed(Append(h, Crc(Tail(h))) \o SubSeq(frame, 11, Len(frame) - 2))
=============================================================================
