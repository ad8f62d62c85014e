----------------------------- MODULE MessageSizes -----------------------------
(***************************************************************************)
(* How many bytes the messages take, and how many the stack has made room  *)
(* for.  Both buffers are created once, with sizes computed from the       *)
(* configuration (NanopbPacker_calculateBufferSize and the one of the      *)
(* unpacker); a message that is longer is cut off by nanopb, and nobody    *)
(* looks at the result of pb_encode.  The packer also computes the length  *)
(* of a channel itself, because nanopb asks for it before the data.        *)
(*                                                                         *)
(* A value that is not known here counts as if it took all of its bits.    *)
(* Proto3 leaves out a field that is zero.                                 *)
(***************************************************************************)
EXTENDS Naturals

\* pb_encode_varint: seven bits to a byte
VarintWidth(value) ==
    IF value < 128 THEN 1
    ELSE IF value < 16384 THEN 2
    ELSE IF value < 2097152 THEN 3
    ELSE IF value < 268435456 THEN 4 ELSE 5

VarintField(value) == IF value = 0 THEN 0 ELSE 1 + VarintWidth(value)

WidestField == 1 + 5      \* the tag and 32 bits
EnumField   == 1 + 1

-----------------------------------------------------------------------------
(***************************************************************************)
(* A channel of SC_DATA with `size' samples: writeChannel announces the    *)
(* length of what writeChannelData and the id take.                        *)
(***************************************************************************)
\* getWidthOfVarint: four bits to a byte, and 1 for whatever is wider
WidthOfVarint(data) ==
    IF data < 16 THEN 1
    ELSE IF data < 256 THEN 2
    ELSE IF data < 4096 THEN 3 ELSE 1

IdSizeAlways(id) == 1 + WidthOfVarint(id)  \* mutation: counts an id of 0 too

IdSize(id) == IF id # 0 THEN 1 + WidthOfVarint(id) ELSE 0

AnnouncedLength(id, size) == size * 4 + 1 + IdSize(id) + WidthOfVarint(size)

WrittenLength(id, size) == VarintField(id) + 1 + VarintWidth(size * 4) + size * 4

ChannelBytes(id, size) ==
    1 + VarintWidth(AnnouncedLength(id, size)) + WrittenLength(id, size)

-----------------------------------------------------------------------------
(***************************************************************************)
(* The messages.  One with several entries counts as if each of them took  *)
(* what the given one takes: it fits if it fits for the largest.           *)
(***************************************************************************)
TriggerBytes   == 2 + (2 * WidestField + EnumField)
TimestampBytes(size) == 1 + VarintWidth(size * 4) + size * 4

\* packScData, every channel full
DataBytes(conf, id) ==
    TriggerBytes + WidestField + TimestampBytes(conf.sizeOfChannels)
      + conf.amountOfChannels * ChannelBytes(id, conf.sizeOfChannels)

\* writeAddress: an entry with its tag and length; the name ends before nameLength
AddressBytes(id, nameLength) ==
    2 + VarintField(id) + (2 + nameLength) + EnumField + WidestField

\* packScAnnounce, with version "0.5" and a timebase of 32 bits
AnnouncementBytes(conf, id, nameLength) ==
    (1 + 4) + (2 + 3) + VarintField(conf.amountOfChannels)
      + conf.addresses * AddressBytes(id, nameLength)

\* CommandPackLog takes no more than 48 characters out of the log stream
LogBytes == 2 + 48

\* what the host sends: CF_ADDR, CF_RUNNING and CF_TRIGGER, the longest of the others
AddressConfigBytes(conf, id) == conf.amountOfChannels * (2 + VarintField(id) + WidestField + EnumField)
RunningConfigBytes(conf, id) == conf.amountOfChannels * (2 + VarintField(id) + EnumField)
TriggerConfigBytes           == WidestField + EnumField + (1 + 4) + EnumField

-----------------------------------------------------------------------------
Larger(a, b) == IF a > b THEN a ELSE b

OutputBufferSizeForData(conf) ==  \* mutation: the announcement is not thought of
    conf.amountOfChannels * (conf.sizeOfChannels * 4 + 15) + 14 + (4 + 1)
      + ((conf.sizeOfChannels + 1) * 4 + 1)

\* NanopbPacker_calculateBufferSize
OutputBufferSize(conf) ==
    Larger(45 * conf.addresses + 5 * 3,
           (conf.sizeOfChannels * 4 + 15) * conf.amountOfChannels + 14 + (4 + 1)
             + ((conf.sizeOfChannels + 1) * 4 + 1))

\* NanopbUnpacker_calculateBufferSize
InputBufferSize(conf) == Larger(15, Larger(14 * conf.amountOfChannels, 8 * conf.amountOfChannels))
=============================================================================
