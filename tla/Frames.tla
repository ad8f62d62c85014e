------------------------------- MODULE Frames -------------------------------
(***************************************************************************)
(* A frame on the wire, as the host and FramedIO (Communication/Interfaces *)
(* /FramedIO.c) have agreed on it:  [ type length payload checksum ]  with *)
(* four bytes of length and the 16 bit sum of the payload.                 *)
(***************************************************************************)
EXTENDS Naturals, Sequences

Byte          == 0 .. 255
Word          == {w \in Nat : w < 65536}    \* of the sum
SeNone        == 0
StartFlag     == 91    \* '['
EndFlag       == 93    \* ']'
LengthBytes   == 4
ChecksumBytes == 2

SumOf(payload) ==
    LET s[i \in 0 .. Len(payload)] == IF i = 0 THEN 0 ELSE (s[i - 1] + payload[i]) % 65536
    IN  s[Len(payload)]

HeadOf(type, length) ==
    <<StartFlag, type,
      (length \div 16777216) % 256, (length \div 65536) % 256, (length \div 256) % 256, length % 256>>

FootOf(sum) == <<sum \div 256, sum % 256, EndFlag>>

Encoded(f) == HeadOf(f.type, Len(f.payload)) \o f.payload \o FootOf(SumOf(f.payload))
=============================================================================
