------------------------------ MODULE FramedRx ------------------------------
(***************************************************************************)
(* The receive side of FramedIO (Communication/Interfaces/FramedIO.c) byte *)
(* by byte, with the hand-over of a complete frame to the serializer       *)
(* (Serialisation/Serializer.c) and the unpacker that reads its payload.   *)
(*                                                                         *)
(* The transport calls put with any number of bytes; chunk holds what that *)
(* call has still to look at.  The payload goes straight into the input    *)
(* buffer, from which the unpacker reads it later: the frame is complete   *)
(* in rxDataReady, but its bytes share the buffer with whatever is put     *)
(* next.                                                                   *)
(***************************************************************************)
EXTENDS Frames, FiniteSets

CONSTANTS
    HostFrames,   \* what the host sends: type and payload
    Malformed,    \* those of them whose payload does not decode
    Decodable,    \* the types that have an unpacker; the others are not read
    Capacity,     \* of the input buffer
    HostPaced,    \* TRUE iff the host sends one frame at a time
    MaxAwaited,   \* bounds the frames of a host that is not paced
    Noise,        \* bytes that may replace one of a frame
    MaxDamages    \* bounds damaged frames, resets, and frames sent behind a leftover

ASSUME FramedRxAssumption ==
    /\ Decodable \subseteq Byte \ {SeNone}
    /\ Capacity \in Nat /\ MaxAwaited \in Nat /\ MaxDamages \in Nat
    /\ HostPaced \in BOOLEAN
    /\ HostFrames \subseteq [type : Byte \ {SeNone}, payload : Seq(Byte)]
    /\ Malformed \subseteq HostFrames
    /\ Noise \subseteq Byte
    /\ \A f \in HostFrames : Len(f.payload) <= Capacity

VARIABLES
    \* FramedIO, receiving
    state, count, expected, type, sum, compare, ready,
    input,      \* the input buffer, shared with the unpacker
    chunk,      \* the bytes of the current put that are not looked at yet
    \* Serializer
    pending,    \* unpackingPending
    spoilt,     \* history: bytes of a payload have been left unread since the last reset
    \* The host and the line
    line,       \* bytes on their way
    awaited,    \* frames sent and not answered
    damages

rxVars   == <<state, count, expected, type, sum, compare, ready>>
lineVars == <<line, awaited, damages>>
vars     == <<rxVars, input, chunk, pending, spoilt, lineVars>>

\* FramedIO_create
Init ==
    /\ state = "START_FLAG" /\ count = 0 /\ expected = 0 /\ type = SeNone
    /\ sum = 0 /\ compare = 0 /\ ready = FALSE
    /\ input = <<>> /\ chunk = <<>> /\ pending = SeNone /\ spoilt = FALSE
    /\ line = <<>> /\ awaited = {} /\ damages = 0

-----------------------------------------------------------------------------
(***************************************************************************)
(* The host and the line.  A host that is paced awaits the answer and      *)
(* sends again when the target stays silent, that is when nothing is on    *)
(* its way any more.  Noise replaces a byte behind the length.             *)
(***************************************************************************)
Damaged(f) ==
    {[Encoded(f) EXCEPT ![i] = b] :
        i \in LengthBytes + 3 .. Len(Encoded(f)), b \in Noise} \ {Encoded(f)}

Idle == line = <<>> /\ chunk = <<>> /\ ~ready /\ pending = SeNone

\* damages and resets are counted
Counted == damages < MaxDamages /\ damages' = damages + 1

SendsWhole(f) ==
    /\ line' = line \o Encoded(f)
    /\ IF spoilt THEN Counted ELSE UNCHANGED damages

SendsDamaged(f) ==
    /\ \E w \in Damaged(f) : line' = line \o w
    /\ Counted

HostSends(f) ==
    /\ f \notin awaited
    /\ Cardinality(awaited) < (IF HostPaced THEN 1 ELSE MaxAwaited)
    /\ awaited' = awaited \cup {f}
    /\ SendsWhole(f) \/ SendsDamaged(f)
    /\ UNCHANGED <<rxVars, input, chunk, pending, spoilt>>

HostSendsAgain(f) ==
    /\ HostPaced /\ f \in awaited /\ Idle
    /\ SendsWhole(f) \/ SendsDamaged(f)
    /\ UNCHANGED <<rxVars, input, chunk, pending, spoilt, awaited>>

-----------------------------------------------------------------------------
(***************************************************************************)
(* FramedIO_putRxData.  It is called between two turns of the stack, so    *)
(* nothing else happens while chunk is not empty.  A frame that waits      *)
(* makes it discard everything it is given.                                *)
(***************************************************************************)
Put ==
    /\ chunk = <<>> /\ pending = SeNone
    /\ \E n \in 1 .. Len(line) :
          /\ line' = SubSeq(line, n + 1, Len(line))
          /\ chunk' = IF ready THEN <<>> ELSE SubSeq(line, 1, n)
    /\ UNCHANGED <<rxVars, input, pending, spoilt, awaited, damages>>

\* The payload is complete as soon as the buffer holds as much as is expected, also when
\* that happens because the unpacker has emptied it since the last put.
AfterData(used, wanted) == IF used = wanted THEN "CHECKSUM" ELSE "DATA"

StateNow == IF state = "DATA" THEN AfterData(Len(input), expected) ELSE state

\* One more byte of chunk is looked at.
Takes(s) ==
    /\ StateNow = s /\ chunk # <<>>
    /\ chunk' = Tail(chunk)
    /\ UNCHANGED <<pending, spoilt, lineVars>>

CheckStartFlag ==
    /\ Takes("START_FLAG")
    /\ state' = IF Head(chunk) = StartFlag THEN "TYPE" ELSE "START_FLAG"
    /\ UNCHANGED <<count, expected, type, sum, compare, ready, input>>

\* Overwrites the type of a frame that the same put has completed before.
CheckType ==
    /\ Takes("TYPE")
    /\ type' = Head(chunk)
    /\ state' = "LENGTH"
    /\ UNCHANGED <<count, expected, sum, compare, ready, input>>

CountAfterKept(n) == count + 1  \* mutation: rxStateByteCount is not reset after a field

CountAfter(n) == IF count + 1 = n THEN 0 ELSE count + 1

CheckLength ==
    /\ Takes("LENGTH")
    /\ expected' = expected * 256 + Head(chunk)
    /\ count' = CountAfter(LengthBytes)
    /\ state' = IF count + 1 = LengthBytes THEN AfterData(Len(input), expected') ELSE "LENGTH"
    /\ UNCHANGED <<type, sum, compare, ready, input>>

\* ByteRingBuffer_write of se-lib-c: a full buffer takes nothing more.
Written(b) == IF Len(input) < Capacity THEN Append(input, b) ELSE input

CheckData ==
    /\ Takes("DATA") /\ Len(input) < expected
    /\ sum' = (sum + Head(chunk)) % 65536
    /\ input' = Written(Head(chunk))
    /\ state' = AfterData(Len(input'), expected)
    /\ UNCHANGED <<count, expected, type, compare, ready>>

ResetRxKeepsInput ==  \* mutation: the buffer is not cleared
    /\ state' = "START_FLAG" /\ count' = 0 /\ expected' = 0 /\ type' = SeNone
    /\ sum' = 0 /\ compare' = 0 /\ ready' = FALSE
    /\ UNCHANGED input

\* FramedIO_resetRx, which also drops a frame that waits.
ResetRx ==
    /\ state' = "START_FLAG" /\ count' = 0 /\ expected' = 0 /\ type' = SeNone
    /\ sum' = 0 /\ compare' = 0 /\ ready' = FALSE
    /\ input' = <<>>

ChecksumIsIgnored(received) == TRUE  \* mutation

ChecksumMatches(received) == received = sum

CheckChecksum ==
    /\ Takes("CHECKSUM")
    /\ LET received == compare * 256 + Head(chunk) IN
       \/ /\ count + 1 < ChecksumBytes
          /\ state' = "CHECKSUM" /\ count' = count + 1 /\ compare' = received
          /\ UNCHANGED <<expected, type, sum, ready, input>>
       \/ /\ count + 1 = ChecksumBytes /\ ChecksumMatches(received)
          /\ state' = "END_FLAG" /\ count' = 0 /\ compare' = 0 /\ sum' = 0
          /\ UNCHANGED <<expected, type, ready, input>>
       \/ /\ count + 1 = ChecksumBytes /\ ~ChecksumMatches(received)
          /\ ResetRx

CheckEndFlag ==
    /\ Takes("END_FLAG")
    /\ \/ /\ Head(chunk) = EndFlag
          /\ state' = "START_FLAG" /\ ready' = TRUE /\ expected' = 0
          /\ UNCHANGED <<count, type, sum, compare, input>>
       \/ /\ Head(chunk) # EndFlag
          /\ ResetRx

Checks ==
    \/ CheckStartFlag \/ CheckType \/ CheckLength
    \/ CheckData \/ CheckChecksum \/ CheckEndFlag

\* With more than expected in the buffer none of the checks takes a byte: the loop goes on
\* for ever, and whoever has called put with it.
PutLoops == StateNow = "DATA" /\ chunk # <<>> /\ Len(input) > expected /\ UNCHANGED vars

\* resetInput of the transceiver: the application resets the receiver of a silent line
ResetInput ==
    /\ line = <<>> /\ chunk = <<>> /\ pending = SeNone
    /\ ResetRx
    /\ spoilt' = FALSE
    /\ IF spoilt THEN UNCHANGED damages ELSE Counted
    /\ UNCHANGED <<chunk, pending, line, awaited>>

-----------------------------------------------------------------------------
(***************************************************************************)
(* The two receive runnables of a turn.                                    *)
(***************************************************************************)
RunCommunicationRxKeepsReady ==  \* mutation: rxDataReady is not cleared
    /\ chunk = <<>> /\ pending = SeNone /\ ready
    /\ pending' = type
    /\ type' = SeNone
    /\ UNCHANGED <<state, count, expected, sum, compare, ready, input, chunk, spoilt, lineVars>>

RunCommunicationRx ==
    /\ chunk = <<>> /\ pending = SeNone /\ ready
    /\ pending' = type
    /\ ready' = FALSE /\ type' = SeNone
    /\ UNCHANGED <<state, count, expected, sum, compare, input, chunk, spoilt, lineVars>>

Delivered == [type |-> pending, payload |-> input]

\* What the unpacker leaves in the buffer: nothing of a message it can decode, anything
\* of one it cannot, everything if there is no unpacker for the type.
Unread ==
    IF pending \notin Decodable THEN {input}
    ELSE IF Delivered \in HostFrames \ Malformed THEN {<<>>}
    ELSE {SubSeq(input, i, Len(input)) : i \in 1 .. Len(input) + 1}

\* runRx of the serializer, and the answer of the target
RunUnpacker ==
    /\ pending # SeNone
    /\ input' \in Unread
    /\ pending' = SeNone
    /\ spoilt' = (spoilt \/ input' # <<>>)
    /\ awaited' = awaited \ {Delivered}
    /\ UNCHANGED <<rxVars, chunk, line, damages>>

-----------------------------------------------------------------------------
(***************************************************************************)
(* Properties                                                              *)
(***************************************************************************)

\* Each field has its type.  The byte counter counts only inside the length and the
\* checksum: a field that left it set would make the next one too short.
TypeOK ==
    /\ state \in {"START_FLAG", "TYPE", "LENGTH", "DATA", "CHECKSUM", "END_FLAG"}
    /\ count \in CASE state = "LENGTH"   -> 0 .. LengthBytes - 1
                   [] state = "CHECKSUM" -> 0 .. ChecksumBytes - 1
                   [] OTHER              -> {0}
    /\ expected \in Nat /\ type \in Byte
    /\ sum \in Word /\ compare \in Word /\ ready \in BOOLEAN
    /\ input \in Seq(Byte) /\ Len(input) <= Capacity
    /\ chunk \in Seq(Byte) /\ line \in Seq(Byte)
    /\ pending \in Byte /\ damages \in 0 .. MaxDamages
    /\ awaited \subseteq HostFrames
    /\ spoilt \in BOOLEAN

\* What the unpacker decodes is a frame that the host has sent and whose answer it
\* awaits, however the transport cuts the bytes into calls of FramedIO_putRxData and
\* whatever damaged frames came before: type and payload belong together.  That is so
\* until a payload is left unread, of a message that does not decode or of one that no
\* unpacker reads, and again after the next reset.
DeliveredWasSent == pending # SeNone /\ ~spoilt => Delivered \in awaited

\* The loop of FramedIO_putRxData finds a check that takes the next byte.
LoopGoesOn == chunk # <<>> /\ state = "DATA" => Len(input) <= expected

\* FramedIO_putRxData comes back as long as no payload has been left unread, and again
\* after resetInput has cleaned up: neither damaged frames nor resets leave bytes behind.
CleanPutReturns == ~spoilt => LoopGoesOn

\* "Loop over the data until every byte was checked" (FramedIO.c): put comes back whatever
\* the messages before were.  It does not when one of them has left more behind than the
\* next frame announces.
PutReturns == LoopGoesOn
=============================================================================
