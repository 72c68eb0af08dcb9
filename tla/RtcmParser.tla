----------------------------- MODULE RtcmParser -----------------------------
(***************************************************************************)
(* feed_rtcm_byte(): how BaseStation finds RTCM frames in what the         *)
(* receiver sends.  A frame is a preamble, two header bytes with reserved  *)
(* bits and the length, a payload and a CRC.  The format is scaled down:   *)
(* four byte values, of which the largest is the preamble, a length of one *)
(* byte and a CRC of one byte.                                             *)
(***************************************************************************)
EXTENDS Naturals, Sequences

CONSTANTS
    MaxPayload,  \* the longest payload tried
    MaxStream,   \* the longest stream of frames tried
    MaxInput     \* the longest arbitrary input tried

ASSUME ParserAssumption == MaxPayload \in 0..3 /\ MaxStream \in Nat /\ MaxInput \in Nat

Preamble == 3
Bytes == 0..Preamble
HeaderSize == 3
CrcSize == 1
BufferSize == HeaderSize + Preamble + CrcSize  \* rtcm_frame_ has room for any length

\* Like CRC-24Q, it tells any two inputs apart that differ in one byte.
rtcm_crc24q(data) ==
    LET crc[n \in 0..Len(data)] == IF n = 0 THEN 1 ELSE (crc[n - 1] + data[n]) % (Preamble + 1)
    IN  crc[Len(data)]

\* rtcm_frame_ and rtcm_frame_expected_, and what was published so far.
Parser(frame, expected, out) == [frame |-> frame, expected |-> expected, out |-> out]
reset_rtcm_parser(p) == Parser(<<>>, 0, p.out)

\* The reserved bits of the second byte are zero.
reserved_clear(byte) == byte = 0

\* The frame is complete: it is published if its CRC is right.
CrcHolds(f) == f[Len(f)] = rtcm_crc24q(SubSeq(f, 1, Len(f) - CrcSize))
end_of_frame(p, f) ==
    reset_rtcm_parser([p EXCEPT !.out = IF CrcHolds(f) THEN Append(@, f) ELSE @])

\* Mutant of feed_rtcm_byte: a preamble in the place of the second byte is lost.
feed_rtcm_byte_NoRestart(p, byte) ==
    LET f == Append(p.frame, byte) IN
    CASE Len(f) = 1 -> IF byte = Preamble THEN Parser(f, 0, p.out) ELSE p
      [] Len(f) = 2 -> IF reserved_clear(byte) THEN Parser(f, 0, p.out) ELSE reset_rtcm_parser(p)
      [] Len(f) = 3 -> Parser(f, byte + HeaderSize + CrcSize, p.out)
      [] OTHER -> IF Len(f) < p.expected THEN Parser(f, p.expected, p.out) ELSE end_of_frame(p, f)
feed_rtcm_byte(p, byte) ==
    LET f == Append(p.frame, byte)
        expected == byte + HeaderSize + CrcSize IN
    CASE Len(f) = 1 -> IF byte = Preamble THEN Parser(f, 0, p.out) ELSE p
      [] Len(f) = 2 -> IF reserved_clear(byte) THEN Parser(f, 0, p.out)
                       ELSE Parser(IF byte = Preamble THEN <<byte>> ELSE <<>>, 0, p.out)
      [] Len(f) = 3 -> IF expected > BufferSize THEN reset_rtcm_parser(p) ELSE Parser(f, expected, p.out)
      [] OTHER -> IF Len(f) < p.expected THEN Parser(f, p.expected, p.out) ELSE end_of_frame(p, f)

\* read_data_uart(): what is published of an input.
read_data_uart(input) ==
    LET fed[n \in 0..Len(input)] == IF n = 0 THEN Parser(<<>>, 0, <<>>) ELSE feed_rtcm_byte(fed[n - 1], input[n])
    IN  fed[Len(input)].out

-----------------------------------------------------------------------------
Inputs(set, n) == UNION {[1..k -> set] : k \in 0..n}
Header(n) == <<Preamble, 0, n>>
Framed(payload) ==
    LET data == Header(Len(payload)) \o payload IN Append(data, rtcm_crc24q(data))
Frames == {Framed(payload) : payload \in Inputs(Bytes, MaxPayload)}
Noise == Inputs(Bytes \ {Preamble}, 1) \cup {<<Preamble>>}
Damaged(f) == {[f EXCEPT ![i] = b] : i \in HeaderSize + 1..Len(f), b \in Bytes} \ {f}

\* Streams of k frames with noise around them.
NoiseOnly == {[bytes |-> noise, frames |-> <<>>] : noise \in Noise}
Longer(s, f, noise) == [bytes |-> s.bytes \o f \o noise, frames |-> Append(s.frames, f)]
OneMore(S) == {Longer(s, f, noise) : s \in S, f \in Frames, noise \in Noise}
Streams[k \in 0..MaxStream] == IF k = 0 THEN NoiseOnly ELSE OneMore(Streams[k - 1])

AllFound == [k \in 0..MaxStream |-> \A s \in Streams[k] : read_data_uart(s.bytes) = s.frames]
DamageIsContained == \A f, g \in Frames : \A d \in Damaged(f) : read_data_uart(d \o g) = <<g>>
OnlyFrames ==
    \A input \in Inputs(Bytes, MaxInput) :
        \A i \in DOMAIN read_data_uart(input) :
            \E payload \in Inputs(Bytes, Preamble) : read_data_uart(input)[i] = Framed(payload)
=============================================================================
