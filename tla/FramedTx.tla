------------------------------ MODULE FramedTx ------------------------------
(***************************************************************************)
(* The send side of FramedIO (Communication/Interfaces/FramedIO.c) byte by *)
(* byte.  The head and the foot of a frame have buffers of their own, the  *)
(* payload stays in the output buffer where the packer has put it.  The    *)
(* transport asks with outputSize how much there is to read and calls get  *)
(* for any part of that; one call may take bytes out of all three.         *)
(***************************************************************************)
EXTENDS Frames

CONSTANTS
    TargetFrames,    \* what the stack sends: type and payload
    EarlyResets      \* TRUE iff the application may reset a frame whose head is not read yet

HeadCapacity  == 1 + 1 + LengthBytes
TailCapacity  == ChecksumBytes + 1

ASSUME FramedTxAssumption ==
    /\ TargetFrames \subseteq [type : Byte \ {SeNone}, payload : Seq(Byte)]
    /\ EarlyResets \in BOOLEAN

VARIABLES
    txState,       \* NONE, HEAD, BODY or FOOT
    txReady, txType, txChecksum,
    frameHead, output, frameTail,
    sending,       \* the frame that is to be sent, for the properties
    received       \* what the transport has read of it

txVars == <<txState, txReady, txType, txChecksum, frameHead, output, frameTail, sending, received>>

EmptyFrame == [type |-> SeNone, payload |-> <<>>]

\* FramedIO_create resets the output, which leaves an empty frame to be sent
TxInit ==
    /\ txState = "NONE" /\ txReady = TRUE /\ txType = SeNone /\ txChecksum = 0
    /\ frameHead = <<>> /\ output = <<>> /\ frameTail = <<>>
    /\ sending = EmptyFrame /\ received = <<>>

-----------------------------------------------------------------------------
\* ByteRingBuffer_write of se-lib-c, into the buffer of the head
WrittenHead(bytes) == SubSeq(frameHead \o bytes, 1, HeadCapacity)

\* Serializer isReady
PackerIsReady == output = <<>>

\* update: the packer has written a message
Update(f) ==
    /\ PackerIsReady
    /\ output' = f.payload /\ txReady' = TRUE /\ txType' = f.type
    /\ sending' = f
    /\ UNCHANGED <<txState, txChecksum, frameHead, frameTail, received>>

RunCommunicationTxKeepsReady ==  \* mutation: txDataFramingReady is not cleared
    /\ txState = "NONE" /\ txReady
    /\ frameHead' = WrittenHead(HeadOf(txType, Len(output)))
    /\ txState' = "HEAD"
    /\ received' = <<>>
    /\ UNCHANGED <<txReady, txType, txChecksum, output, frameTail, sending>>

\* runTx
RunCommunicationTx ==
    /\ txState = "NONE" /\ txReady
    /\ frameHead' = WrittenHead(HeadOf(txType, Len(output)))
    /\ txReady' = FALSE /\ txState' = "HEAD"
    /\ received' = <<>>
    /\ UNCHANGED <<txType, txChecksum, output, frameTail, sending>>

(***************************************************************************)
(* FramedIO_getTxData.  It goes on from one part of the frame to the next  *)
(* when that part has been read and `length' is not reached.               *)
(***************************************************************************)
Smaller(a, b) == IF a < b THEN a ELSE b

Rest(bytes, n) == SubSeq(bytes, n + 1, Len(bytes))

\* What is taken out of the head, the payload and the foot, and which of them that ends
FromHead(length) == IF txState = "HEAD" THEN Smaller(Len(frameHead), length) ELSE 0
HeadEnds(length) == txState = "HEAD" /\ FromHead(length) = Len(frameHead)

InBody(length)   == (txState = "BODY" \/ HeadEnds(length)) /\ FromHead(length) < length
FromBody(length) == IF InBody(length) THEN Smaller(Len(output), length - FromHead(length)) ELSE 0
BodyEnds(length) == InBody(length) /\ FromBody(length) = Len(output)

SumAfter(length) == (txChecksum + SumOf(SubSeq(output, 1, FromBody(length)))) % 65536
Foot(length)     == IF BodyEnds(length) THEN FootOf(SumAfter(length)) ELSE frameTail

InFoot(length)   ==
    (txState = "FOOT" \/ BodyEnds(length)) /\ FromHead(length) + FromBody(length) < length
FromFoot(length) ==
    IF InFoot(length) THEN Smaller(Len(Foot(length)), length - FromHead(length) - FromBody(length)) ELSE 0

Get(length) ==
    /\ txState # "NONE"
    /\ received' = received \o SubSeq(frameHead, 1, FromHead(length))
                     \o SubSeq(output, 1, FromBody(length)) \o SubSeq(Foot(length), 1, FromFoot(length))
    /\ frameHead' = Rest(frameHead, FromHead(length))
    /\ output' = Rest(output, FromBody(length))
    /\ frameTail' = Rest(Foot(length), FromFoot(length))
    /\ txChecksum' = IF BodyEnds(length) THEN 0 ELSE SumAfter(length)
    /\ txState' = IF InFoot(length) /\ FromFoot(length) = Len(Foot(length)) THEN "NONE"
                  ELSE IF BodyEnds(length) THEN "FOOT"
                  ELSE IF HeadEnds(length) THEN "BODY" ELSE txState
    /\ UNCHANGED <<txReady, txType, sending>>

OutputSizeOfBuffers ==  \* mutation: the foot is counted only when it has been written
    Len(frameHead) + Len(output) + Len(frameTail)

\* FramedIO_amountOfTxDataPending
OutputSize ==
    CASE txState = "HEAD" -> Len(frameHead) + Len(output) + TailCapacity
      [] txState = "BODY" -> Len(output) + TailCapacity
      [] txState = "FOOT" -> Len(frameTail)
      [] txState = "NONE" -> 0

TransportReads == \E length \in 1 .. OutputSize : Get(length)

ResetTxKeepsChecksum ==  \* mutation
    /\ output' = <<>> /\ txReady' = TRUE /\ txType' = SeNone /\ txState' = "NONE"
    /\ txChecksum' = txChecksum

\* FramedIO_resetTx
ResetTx ==
    /\ output' = <<>> /\ txReady' = TRUE /\ txType' = SeNone /\ txState' = "NONE"
    /\ txChecksum' = 0

\* resetOutput of the transceiver.  The head stays in its buffer, where it spoils the next
\* frame.
ResetOutput ==
    /\ frameHead = <<>> \/ EarlyResets
    /\ ResetTx
    /\ sending' = EmptyFrame
    /\ UNCHANGED <<frameHead, frameTail, received>>

-----------------------------------------------------------------------------
(***************************************************************************)
(* Whatever the sizes of the calls to get, the transport has read the      *)
(* beginning of the frame, and at the end the whole of it, with the        *)
(* checksum of the payload and nothing of a frame that has been reset.     *)
(* An application that resets before it has read the head gets a frame of  *)
(* that head.                                                              *)
(***************************************************************************)
SentIsFrame ==
    /\ txState # "NONE" => received = SubSeq(Encoded(sending), 1, Len(received))
    /\ txState = "NONE" /\ ~txReady => received = Encoded(sending)

(***************************************************************************)
(* "Bytes pending in the output buffer" (ITransceiver.h): outputSize says  *)
(* how much of the frame is left, in each of its parts.  A transport reads *)
(* as much as it says: with less the frame would never end.                *)
(***************************************************************************)
OutputSizeIsRight ==
    txState # "NONE" => Len(received) + OutputSize = Len(Encoded(sending))
=============================================================================
