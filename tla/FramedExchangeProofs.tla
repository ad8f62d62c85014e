------------------------ MODULE FramedExchangeProofs ------------------------
(***************************************************************************)
(* Proofs about both sides of FramedIO: the frames that the transport      *)
(* reads out of the stack and those it puts into it.                       *)
(***************************************************************************)
EXTENDS FramedExchange, FrameProofs

\* Two operators of the library under names that can be left unexpanded
Joined(s, t)    == s \o t
Beginning(s, n) == SubSeq(s, 1, n)

\* Joining keeps the bytes and the lengths, and the empty sequence is neutral.
LEMMA JoinedProperties ==
    ASSUME NEW s \in Seq(Byte), NEW t \in Seq(Byte)
    PROVE  /\ Joined(s, t) \in Seq(Byte) /\ Len(Joined(s, t)) = Len(s) + Len(t)
           /\ Joined(s, <<>>) = s /\ Joined(<<>>, s) = s
           /\ s = Beginning(Joined(s, t), Len(s))
<1>1. Joined(s, t) \in Seq(Byte) /\ Len(Joined(s, t)) = Len(s) + Len(t)
  BY ConcatProperties DEF Joined
<1>2. Joined(s, <<>>) = s /\ Joined(<<>>, s) = s
  BY ConcatEmptySeq DEF Joined
<1>3. s = Beginning(Joined(s, t), Len(s))
  BY BeginningOfConcat DEF Joined, Beginning
<1> QED
  BY <1>1, <1>2, <1>3

\* It does not matter where the frame is cut.
LEMMA JoinedAssociative ==
    ASSUME NEW s \in Seq(Byte), NEW t \in Seq(Byte), NEW u \in Seq(Byte)
    PROVE  Joined(Joined(s, t), u) = Joined(s, Joined(t, u))
BY ConcatAssociative DEF Joined

Frame == [type : Byte, payload : Seq(Byte)]

HeadOfSent  == HeadOf(sending.type, Len(sending.payload))
PayloadEnds == Joined(HeadOfSent, sending.payload)

-----------------------------------------------------------------------------
(***************************************************************************)
(* The send side.  What has been read and what is still in the buffers are *)
(* together the frame, or its head and payload as long as the foot has not *)
(* been written; the running checksum and the rest of the payload together *)
(* give the checksum of the whole.                                         *)
(***************************************************************************)
TxTypeOK ==
    /\ txState \in {"NONE", "HEAD", "BODY", "FOOT"}
    /\ txReady \in BOOLEAN /\ txType \in Byte /\ txChecksum \in Word
    /\ frameHead \in Seq(Byte) /\ output \in Seq(Byte) /\ frameTail \in Seq(Byte)
    /\ sending \in Frame /\ received \in Seq(Byte)

NothingIsSent ==
    txState = "NONE" =>
        /\ frameHead = <<>> /\ txChecksum = 0
        /\ txReady  => output = sending.payload /\ txType = sending.type
        /\ ~txReady => output = <<>> /\ received = Encoded(sending)

HeadIsSent ==
    txState = "HEAD" =>
        /\ frameHead # <<>> /\ Joined(received, frameHead) = HeadOfSent
        /\ output = sending.payload /\ txChecksum = 0

BodyIsSent ==
    txState = "BODY" =>
        /\ frameHead = <<>> /\ Joined(received, output) = PayloadEnds
        /\ (txChecksum + SumOf(output)) % 65536 = SumOf(sending.payload)

FootIsSent ==
    txState = "FOOT" =>
        /\ frameHead = <<>> /\ output = <<>> /\ txChecksum = 0
        /\ Joined(received, frameTail) = Encoded(sending)

OneFrame == txState # "NONE" => ~txReady

TxInv == /\ TxTypeOK /\ OneFrame
         /\ NothingIsSent /\ HeadIsSent /\ BodyIsSent /\ FootIsSent

\* A part that is taken from a sequence and appended to another keeps their whole.
LEMMA TakeOn ==
    ASSUME NEW r \in Seq(Byte), NEW s \in Seq(Byte), NEW n \in 0 .. Len(s)
    PROVE  /\ Beginning(s, n) \in Seq(Byte) /\ Len(Beginning(s, n)) = n
           /\ Rest(s, n) \in Seq(Byte) /\ Len(Rest(s, n)) = Len(s) - n
           /\ Joined(Beginning(s, n), Rest(s, n)) = s
           /\ Joined(r, Beginning(s, n)) \in Seq(Byte)
           /\ Joined(Joined(r, Beginning(s, n)), Rest(s, n)) = Joined(r, s)
<1>1. /\ Beginning(s, n) \in Seq(Byte) /\ Len(Beginning(s, n)) = n
      /\ Rest(s, n) \in Seq(Byte) /\ Len(Rest(s, n)) = Len(s) - n
      /\ Joined(Beginning(s, n), Rest(s, n)) = s
  BY BeginningAndRest DEF Rest, Beginning, Joined
<1> DEFINE a == Beginning(s, n)
           b == Rest(s, n)
<1> HIDE DEF a, b
<1>2. a \in Seq(Byte) /\ b \in Seq(Byte) /\ Joined(a, b) = s
  BY <1>1 DEF a, b
<1>3. Joined(r, a) \in Seq(Byte)
  BY <1>2, JoinedProperties
<1>4. Joined(Joined(r, a), b) = Joined(r, Joined(a, b))
  <2>1. r \in Seq(Byte) /\ a \in Seq(Byte) /\ b \in Seq(Byte)
    BY <1>2
  <2> QED
    BY <2>1, JoinedAssociative
<1> QED
  BY <1>1, <1>2, <1>3, <1>4 DEF a, b

\* Nothing taken, everything taken.
LEMMA TakeNoneOrAll ==
    ASSUME NEW r \in Seq(Byte), NEW s \in Seq(Byte)
    PROVE  /\ Beginning(s, 0) = <<>> /\ Rest(s, 0) = s /\ Joined(r, Beginning(s, 0)) = r
           /\ Beginning(s, Len(s)) = s /\ Rest(s, Len(s)) = <<>>
<1>1. Beginning(s, 0) = <<>> /\ Rest(s, Len(s)) = <<>>
  BY SubSeqEmpty, LenProperties DEF Rest, Beginning
<1>2. Beginning(s, Len(s)) = s /\ Rest(s, 0) = s
  BY SubSeqFull, LenProperties DEF Rest, Beginning
<1> QED
  BY <1>1, <1>2, JoinedProperties

\* The checksum goes on where the last call of get has stopped.
LEMMA SumGoesOn ==
    ASSUME NEW c \in Word, NEW s \in Seq(Byte), NEW n \in 0 .. Len(s)
    PROVE  /\ ((c + SumOf(Beginning(s, n))) % 65536) \in Word
           /\ ((((c + SumOf(Beginning(s, n))) % 65536) + SumOf(Rest(s, n))) % 65536)
                 = ((c + SumOf(s)) % 65536)
<1> DEFINE a == Beginning(s, n)
           b == Rest(s, n)
<1>1. a \in Seq(Byte) /\ b \in Seq(Byte) /\ Joined(a, b) = s
  BY BeginningAndRest DEF Rest, Beginning, Joined
<1> HIDE DEF a, b
<1>2. SumOf(a) \in Nat /\ SumOf(b) \in Nat /\ c \in Nat
  BY <1>1, SumOfType, Naturals8And16
<1>3. SumOf(s) = ((SumOf(a) + SumOf(b)) % 65536)
  <2>1. SumOf(Joined(a, b)) = ((SumOf(a) + SumOf(b)) % 65536)
    <3>1. a \in Seq(Byte) /\ b \in Seq(Byte)
      BY <1>1
    <3> QED
      BY <3>1, SumOfConcat DEF Joined
  <2> QED
    BY <1>1, <2>1
<1>4. ((c + SumOf(a)) % 65536) \in Word
  <2>1. (c + SumOf(a)) \in Nat
    BY <1>2
  <2> QED
    BY <2>1, ModType
<1>5. ((((c + SumOf(a)) % 65536) + SumOf(b)) % 65536) = ((c + ((SumOf(a) + SumOf(b)) % 65536)) % 65536)
  BY <1>2, ModOfSums
<1> QED
  BY <1>3, <1>4, <1>5 DEF a, b

-----------------------------------------------------------------------------
(***************************************************************************)
(* What a call of get leaves behind, by the part of the frame in which it  *)
(* stops.                                                                  *)
(***************************************************************************)
LEMMA FrameParts ==
    ASSUME TxTypeOK
    PROVE  /\ sending.type \in Byte /\ sending.payload \in Seq(Byte)
           /\ Len(sending.payload) \in Nat
           /\ HeadOfSent \in Seq(Byte) /\ Len(HeadOfSent) = 6
           /\ PayloadEnds \in Seq(Byte)
           /\ FootOf(SumOf(sending.payload)) \in Seq(Byte)
           /\ Len(FootOf(SumOf(sending.payload))) = 3
           /\ Encoded(sending) = Joined(PayloadEnds, FootOf(SumOf(sending.payload)))
<1>1. sending.type \in Byte /\ sending.payload \in Seq(Byte)
  BY DEF TxTypeOK, Frame
<1>2. Len(sending.payload) \in Nat
  BY <1>1, LenProperties
<1>3. HeadOfSent \in Seq(Byte) /\ Len(HeadOfSent) = 6
  BY <1>1, <1>2, HeadType DEF HeadOfSent
<1>4. PayloadEnds \in Seq(Byte)
  BY <1>1, <1>3, JoinedProperties DEF PayloadEnds
<1>5. /\ FootOf(SumOf(sending.payload)) \in Seq(Byte)
      /\ Len(FootOf(SumOf(sending.payload))) = 3
  BY <1>1, SumOfType, FootType
<1>6. Encoded(sending) = Joined(PayloadEnds, FootOf(SumOf(sending.payload)))
  BY DEF Encoded, PayloadEnds, HeadOfSent, Joined
<1> QED
  BY <1>1, <1>2, <1>3, <1>4, <1>5, <1>6

\* A read that ends within the head of the frame.
LEMMA StopsInHead ==
    ASSUME TxInv, txState = "HEAD", NEW n \in 0 .. Len(frameHead), n # Len(frameHead),
           received' = Joined(received, Beginning(frameHead, n)), frameHead' = Rest(frameHead, n),
           txState' = "HEAD", UNCHANGED <<txReady, txType, txChecksum, output, frameTail, sending>>
    PROVE  TxInv'
<1> DEFINE r == Joined(received, Beginning(frameHead, n))
           h == Rest(frameHead, n)
<1>1. received \in Seq(Byte) /\ frameHead \in Seq(Byte) /\ Len(frameHead) \in Nat
  BY LenProperties DEF TxInv, TxTypeOK
<1>2. r \in Seq(Byte) /\ h \in Seq(Byte) /\ Joined(r, h) = Joined(received, frameHead)
  BY <1>1, TakeOn
<1>3. h # <<>>
  <2>1. Len(h) = Len(frameHead) - n
    BY <1>1, TakeOn
  <2> HIDE DEF h
  <2>2. Len(h) # 0
    BY <1>1, <2>1
  <2> QED
    BY <2>2, EmptySeq
<1> HIDE DEF r, h
<1>4. received' = r /\ frameHead' = h
  BY DEF r, h
<1>5. TxTypeOK'
  BY <1>2, <1>4 DEF TxInv, TxTypeOK
<1>6. HeadIsSent'
  BY <1>2, <1>3, <1>4 DEF TxInv, HeadIsSent, HeadOfSent
<1>7. OneFrame' /\ NothingIsSent' /\ BodyIsSent' /\ FootIsSent'
  BY DEF TxInv, OneFrame, NothingIsSent, BodyIsSent, FootIsSent
<1> QED
  BY <1>5, <1>6, <1>7 DEF TxInv

\* r is what has been read when the body begins or goes on.
BodyFollows(r) ==
    /\ Joined(r, output) = PayloadEnds
    /\ (txChecksum + SumOf(output)) % 65536 = SumOf(sending.payload)

\* A read that ends within the payload, wherever it began.
LEMMA StopsInBody ==
    ASSUME TxInv, txState # "NONE", NEW r \in Seq(Byte), BodyFollows(r),
           NEW n \in 0 .. Len(output),
           received' = Joined(r, Beginning(output, n)), output' = Rest(output, n),
           txChecksum' = (txChecksum + SumOf(Beginning(output, n))) % 65536,
           txState' = "BODY", frameHead' = <<>>,
           UNCHANGED <<txReady, txType, frameTail, sending>>
    PROVE  TxInv'
<1> DEFINE q == Joined(r, Beginning(output, n))
           o == Rest(output, n)
           c == (txChecksum + SumOf(Beginning(output, n))) % 65536
<1>1. output \in Seq(Byte) /\ txChecksum \in Word
  BY DEF TxInv, TxTypeOK
<1>2. q \in Seq(Byte) /\ o \in Seq(Byte) /\ Joined(q, o) = Joined(r, output)
  BY <1>1, TakeOn
<1>3. c \in Word /\ ((c + SumOf(o)) % 65536) = ((txChecksum + SumOf(output)) % 65536)
  BY <1>1, SumGoesOn
<1> HIDE DEF q, o, c
<1>4. received' = q /\ output' = o /\ txChecksum' = c
  BY DEF q, o, c
<1>5. TxTypeOK'
  <2>1. <<>> \in Seq(Byte)
    OBVIOUS
  <2> QED
    BY <1>2, <1>3, <1>4, <2>1 DEF TxInv, TxTypeOK
<1>6. BodyIsSent'
  <2>1. Joined(q, o) = PayloadEnds /\ (c + SumOf(o)) % 65536 = SumOf(sending.payload)
    BY <1>2, <1>3 DEF BodyFollows
  <2>2. PayloadEnds' = PayloadEnds
    BY DEF PayloadEnds, HeadOfSent
  <2>3. Joined(received', output') = PayloadEnds'
    <3>1. Joined(received', output') = Joined(q, o)
      BY <1>4
    <3> QED
      BY <2>1, <2>2, <3>1
  <2>4. (txChecksum' + SumOf(output')) % 65536 = SumOf(sending'.payload)
    BY <1>4, <2>1
  <2> QED
    BY <2>3, <2>4 DEF BodyIsSent
<1>7. OneFrame' /\ NothingIsSent' /\ HeadIsSent' /\ FootIsSent'
  BY DEF TxInv, OneFrame, NothingIsSent, HeadIsSent, FootIsSent
<1> QED
  BY <1>5, <1>6, <1>7 DEF TxInv

\* r is what has been read when the foot t begins or goes on.
LEMMA StopsInFoot ==
    ASSUME TxInv, txState # "NONE", NEW r \in Seq(Byte), NEW t \in Seq(Byte),
           Joined(r, t) = Encoded(sending), NEW n \in 0 .. Len(t),
           received' = Joined(r, Beginning(t, n)), frameTail' = Rest(t, n),
           txState' = "FOOT" \/ (txState' = "NONE" /\ n = Len(t)),
           txChecksum' = 0, frameHead' = <<>>, output' = <<>>,
           UNCHANGED <<txReady, txType, sending>>
    PROVE  TxInv'
<1> DEFINE q == Joined(r, Beginning(t, n))
           u == Rest(t, n)
<1>1. q \in Seq(Byte) /\ u \in Seq(Byte) /\ Joined(q, u) = Joined(r, t)
  BY TakeOn
<1>2. n = Len(t) => q = Joined(r, t)
  BY TakeNoneOrAll
<1> HIDE DEF q, u
<1>3. received' = q /\ frameTail' = u
  BY DEF q, u
<1>4. TxTypeOK'
  <2>1. <<>> \in Seq(Byte) /\ 0 \in Word
    BY Naturals8And16
  <2> QED
    BY <1>1, <1>3, <2>1 DEF TxInv, TxTypeOK
<1>5. FootIsSent'
  BY <1>1, <1>3 DEF FootIsSent, Encoded
<1>6. OneFrame' /\ HeadIsSent' /\ BodyIsSent'
  BY DEF TxInv, OneFrame, HeadIsSent, BodyIsSent
<1>7. NothingIsSent'
  <2> SUFFICES ASSUME txState' = "NONE" PROVE NothingIsSent'
    BY DEF NothingIsSent
  <2>1. received' = Encoded(sending)
    BY <1>2, <1>3
  <2>2. ~txReady'
    BY DEF TxInv, OneFrame
  <2> QED
    BY <2>1, <2>2 DEF NothingIsSent, Encoded
<1> QED
  BY <1>4, <1>5, <1>6, <1>7 DEF TxInv

\* What is read in one call of getTxData, over as many parts as it spans.
LEMMA GetKeepsFrame ==
    ASSUME TxInv, NEW length \in Nat, length > 0, Get(length)
    PROVE  TxInv'
<1> DEFINE fromHead == IF txState = "HEAD" THEN Smaller(Len(frameHead), length) ELSE 0
           headEnds == txState = "HEAD" /\ fromHead = Len(frameHead)
           inBody   == (txState = "BODY" \/ headEnds) /\ fromHead < length
           fromBody == IF inBody THEN Smaller(Len(output), length - fromHead) ELSE 0
           bodyEnds == inBody /\ fromBody = Len(output)
           newSum   == (txChecksum + SumOf(Beginning(output, fromBody))) % 65536
           tail     == IF bodyEnds THEN FootOf(newSum) ELSE frameTail
           inFoot   == (txState = "FOOT" \/ bodyEnds) /\ fromHead + fromBody < length
           fromFoot == IF inFoot THEN Smaller(Len(tail), length - fromHead - fromBody) ELSE 0
           afterHead == Joined(received, Beginning(frameHead, fromHead))
           afterBody == Joined(afterHead, Beginning(output, fromBody))
<1>1. /\ txState # "NONE"
      /\ received' = Joined(afterBody, Beginning(tail, fromFoot))
      /\ frameHead' = Rest(frameHead, fromHead)
      /\ output' = Rest(output, fromBody)
      /\ frameTail' = Rest(tail, fromFoot)
      /\ txChecksum' = IF bodyEnds THEN 0 ELSE newSum
      /\ txState' = IF inFoot /\ fromFoot = Len(tail) THEN "NONE"
                    ELSE IF bodyEnds THEN "FOOT"
                    ELSE IF headEnds THEN "BODY" ELSE txState
      /\ UNCHANGED <<txReady, txType, sending>>
  <2>1. fromHead = FromHead(length)
    BY DEF FromHead
  <2> HIDE DEF fromHead
  <2>2. headEnds <=> HeadEnds(length)
    BY <2>1 DEF HeadEnds
  <2> HIDE DEF headEnds
  <2>3. inBody <=> InBody(length)
    BY <2>1, <2>2 DEF InBody
  <2> HIDE DEF inBody
  <2>4. fromBody = FromBody(length)
    BY <2>1, <2>3 DEF FromBody
  <2> HIDE DEF fromBody
  <2>5. bodyEnds <=> BodyEnds(length)
    BY <2>3, <2>4 DEF BodyEnds
  <2> HIDE DEF bodyEnds
  <2>6. newSum = SumAfter(length)
    BY <2>4 DEF SumAfter, Beginning
  <2> HIDE DEF newSum
  <2>7. tail = Foot(length)
    BY <2>5, <2>6 DEF Foot
  <2> HIDE DEF tail
  <2>8. inFoot <=> InFoot(length)
    BY <2>1, <2>4, <2>5 DEF InFoot
  <2> HIDE DEF inFoot
  <2>9. fromFoot = FromFoot(length)
    BY <2>1, <2>4, <2>7, <2>8 DEF FromFoot
  <2> HIDE DEF fromFoot
  <2>10. /\ txState # "NONE" /\ UNCHANGED <<txReady, txType, sending>>
         /\ frameHead' = Rest(frameHead, fromHead)
         /\ output' = Rest(output, fromBody)
         /\ frameTail' = Rest(tail, fromFoot)
    BY <2>1, <2>4, <2>7, <2>9 DEF Get
  <2>11. received' = Joined(afterBody, Beginning(tail, fromFoot))
    BY <2>1, <2>4, <2>7, <2>9, Zenon DEF Get, Joined, Beginning
  <2>12. /\ txChecksum' = IF bodyEnds THEN 0 ELSE newSum
         /\ txState' = IF inFoot /\ fromFoot = Len(tail) THEN "NONE"
                       ELSE IF bodyEnds THEN "FOOT"
                       ELSE IF headEnds THEN "BODY" ELSE txState
    BY <2>2, <2>5, <2>6, <2>7, <2>8, <2>9 DEF Get
  <2> QED
    BY <2>10, <2>11, <2>12
<1>2. /\ received \in Seq(Byte) /\ frameHead \in Seq(Byte) /\ output \in Seq(Byte)
      /\ frameTail \in Seq(Byte) /\ txChecksum \in Word
      /\ Len(frameHead) \in Nat /\ Len(output) \in Nat /\ Len(frameTail) \in Nat
  BY LenProperties DEF TxInv, TxTypeOK
<1>3. /\ PayloadEnds \in Seq(Byte) /\ HeadOfSent \in Seq(Byte)
      /\ FootOf(SumOf(sending.payload)) \in Seq(Byte)
      /\ Len(FootOf(SumOf(sending.payload))) = 3
      /\ Encoded(sending) = Joined(PayloadEnds, FootOf(SumOf(sending.payload)))
  BY FrameParts DEF TxInv
<1>4. txState \in {"HEAD", "BODY", "FOOT"}
  BY <1>1 DEF TxInv, TxTypeOK
\* The call that stops in the head
<1>5. CASE txState = "HEAD" /\ ~headEnds
  <2>1. fromHead \in 0 .. Len(frameHead) /\ fromHead # Len(frameHead)
    BY <1>2, <1>5 DEF Smaller
  <2>2. ~inBody /\ fromBody = 0 /\ ~bodyEnds /\ ~inFoot /\ fromFoot = 0 /\ tail = frameTail
    BY <1>5
  <2>3. txChecksum = 0
    BY <1>5 DEF TxInv, HeadIsSent
  <2>4. newSum = 0
    <3>1. Beginning(output, 0) = <<>>
      BY <1>2, TakeNoneOrAll
    <3>2. SumOf(Beginning(output, fromBody)) = 0
      BY <2>2, <3>1, SumOfEmpty
    <3> QED
      BY <2>3, <3>2
  <2>5. afterHead \in Seq(Byte)
    BY <1>2, <2>1, TakeOn
  <2> HIDE DEF fromHead, headEnds, inBody, fromBody, bodyEnds, newSum, tail, inFoot, fromFoot, afterHead
  <2>6. received' = afterHead
    <3>1. afterBody = afterHead
      BY <1>2, <2>2, <2>5, TakeNoneOrAll
    <3> HIDE DEF afterBody
    <3>2. Joined(afterHead, Beginning(frameTail, 0)) = afterHead
      BY <1>2, <2>5, TakeNoneOrAll
    <3> QED
      BY <1>1, <2>2, <3>1, <3>2
  <2>7. output' = output /\ frameTail' = frameTail
    BY <1>1, <1>2, <2>2, TakeNoneOrAll
  <2>8. txChecksum' = txChecksum /\ txState' = "HEAD"
    BY <1>1, <1>5, <2>2, <2>3, <2>4
  <2>9. received' = Joined(received, Beginning(frameHead, fromHead))
    BY <2>6 DEF afterHead
  <2> QED
    BY <1>1, <1>5, <2>1, <2>7, <2>8, <2>9, StopsInHead
\* The call that begins or goes on with the body
<1>6. CASE txState = "BODY" \/ headEnds
  <2>1. afterHead \in Seq(Byte) /\ BodyFollows(afterHead) /\ frameHead' = <<>>
    <3>1. CASE headEnds
      <4>1. txState = "HEAD" /\ fromHead = Len(frameHead)
        BY <3>1
      <4>2. Joined(received, frameHead) = HeadOfSent /\ output = sending.payload /\ txChecksum = 0
        BY <4>1 DEF TxInv, HeadIsSent
      <4> HIDE DEF fromHead
      <4>3. afterHead = HeadOfSent
        BY <1>2, <4>1, <4>2, TakeNoneOrAll
      <4>4. frameHead' = <<>>
        BY <1>1, <1>2, <4>1, TakeNoneOrAll
      <4> HIDE DEF afterHead
      <4>5. Joined(afterHead, output) = PayloadEnds
        BY <4>2, <4>3 DEF PayloadEnds
      <4>6. (txChecksum + SumOf(output)) % 65536 = SumOf(sending.payload)
        <5>1. SumOf(output) \in Word
          BY <1>2, SumOfType
        <5>2. 0 + SumOf(output) = SumOf(output)
          <6>1. SumOf(output) \in Nat
            BY <5>1, Naturals8And16
          <6> QED
            BY <6>1
        <5> QED
          BY <4>2, <5>1, <5>2, ModOfWord
      <4> QED
        BY <1>3, <4>3, <4>4, <4>5, <4>6 DEF BodyFollows
    <3>2. CASE txState = "BODY"
      <4>1. fromHead = 0 /\ frameHead = <<>>
        BY <3>2 DEF TxInv, BodyIsSent
      <4> HIDE DEF fromHead
      <4>2. afterHead = received
        BY <1>2, <4>1, TakeNoneOrAll
      <4>3. frameHead' = <<>>
        <5>1. Rest(frameHead, 0) = frameHead
          BY <1>2, TakeNoneOrAll
        <5> QED
          BY <1>1, <4>1, <5>1
      <4> HIDE DEF afterHead
      <4> QED
        BY <1>2, <3>2, <4>2, <4>3 DEF TxInv, BodyIsSent, BodyFollows
    <3> QED
      BY <1>6, <3>1, <3>2
  <2>2. fromHead \in Nat /\ fromBody \in 0 .. Len(output)
    BY <1>2 DEF Smaller
  <2>3. CASE ~bodyEnds
    <3>1. ~inFoot /\ fromFoot = 0 /\ tail = frameTail
      BY <1>6, <2>3
    <3>2. inFoot => FALSE
      BY <3>1
    <3> HIDE DEF fromHead, inBody, fromBody, bodyEnds, tail, inFoot, fromFoot, afterHead
    <3>3. afterBody \in Seq(Byte)
      BY <1>2, <2>1, <2>2, TakeOn
    <3>4. received' = afterBody /\ frameTail' = frameTail
      <4> HIDE DEF afterBody
      <4>1. received' = Joined(afterBody, Beginning(frameTail, 0)) /\ frameTail' = Rest(frameTail, 0)
        BY <1>1, <3>1
      <4> QED
        BY <1>2, <3>3, <4>1, TakeNoneOrAll
    <3>5. txChecksum' = (txChecksum + SumOf(Beginning(output, fromBody))) % 65536
      BY <1>1, <2>3
    <3>6. txState' = "BODY"
      BY <1>1, <1>6, <2>3, <3>2
    <3>7. received' = Joined(afterHead, Beginning(output, fromBody))
      BY <3>4
    <3> QED
      BY <1>1, <2>1, <2>2, <3>4, <3>5, <3>6, <3>7, StopsInBody
  <2>4. CASE bodyEnds
    <3>1. fromBody = Len(output) /\ tail = FootOf(newSum)
      BY <2>4
    <3>2. newSum = SumOf(sending.payload)
      <4>1. Beginning(output, fromBody) = output
        BY <1>2, <3>1, TakeNoneOrAll
      <4> HIDE DEF fromBody, afterHead
      <4> QED
        BY <2>1, <4>1 DEF BodyFollows
    <3>3. afterBody = PayloadEnds /\ output' = <<>>
      <4> HIDE DEF fromBody, afterHead
      <4>1. Beginning(output, fromBody) = output /\ Rest(output, fromBody) = <<>>
        BY <1>2, <3>1, TakeNoneOrAll
      <4> QED
        BY <1>1, <2>1, <4>1 DEF BodyFollows
    <3>4. tail \in Seq(Byte) /\ Joined(PayloadEnds, tail) = Encoded(sending)
      BY <1>3, <3>1, <3>2
    <3>5. fromFoot \in 0 .. Len(tail)
      <4>1. Len(tail) = 3
        BY <1>3, <3>1, <3>2
      <4> HIDE DEF tail, fromHead, inFoot, bodyEnds
      <4>2. fromHead + fromBody \in Nat /\ length - fromHead - fromBody = length - (fromHead + fromBody)
        BY <1>2, <2>2
      <4> HIDE DEF fromBody
      <4>3. CASE inFoot
        <5>1. fromHead + fromBody < length
          BY <4>3 DEF inFoot
        <5> QED
          BY <2>2, <1>2, <4>1, <4>2, <4>3, <5>1 DEF Smaller
      <4>4. CASE ~inFoot
        BY <4>1, <4>4
      <4> QED
        BY <4>3, <4>4
    <3>6. txState' = "FOOT" \/ (txState' = "NONE" /\ fromFoot = Len(tail))
      <4> HIDE DEF fromFoot, tail, bodyEnds, inFoot
      <4> QED
        BY <1>1, <2>4
    <3>7. txChecksum' = 0
      <4> HIDE DEF bodyEnds
      <4> QED
        BY <1>1, <2>4
    <3> HIDE DEF fromHead, inBody, fromBody, bodyEnds, newSum, tail, inFoot, fromFoot, afterHead, afterBody
    <3> QED
      BY <1>1, <1>3, <2>1, <3>3, <3>4, <3>5, <3>6, <3>7, StopsInFoot
  <2> QED
    BY <2>3, <2>4
\* The call that goes on with the foot
<1>7. CASE txState = "FOOT"
  <2>1. /\ fromHead = 0 /\ ~headEnds /\ ~inBody /\ fromBody = 0 /\ ~bodyEnds /\ inFoot
        /\ tail = frameTail
    BY <1>7
  <2>2. /\ frameHead = <<>> /\ output = <<>> /\ txChecksum = 0
        /\ Joined(received, frameTail) = Encoded(sending)
    BY <1>7 DEF TxInv, FootIsSent
  <2>3. fromFoot \in 0 .. Len(frameTail)
    BY <1>2, <1>7 DEF Smaller
  <2> HIDE DEF fromHead, headEnds, inBody, fromBody, bodyEnds, tail, inFoot, fromFoot
  <2>4. afterBody = received
    <3>1. Joined(received, Beginning(frameHead, 0)) = received
      BY <1>2, TakeNoneOrAll
    <3>2. Joined(received, Beginning(output, 0)) = received
      BY <1>2, TakeNoneOrAll
    <3> QED
      BY <2>1, <3>1, <3>2
  <2>5. newSum = 0
    <3>1. Beginning(output, 0) = <<>>
      BY <1>2, TakeNoneOrAll
    <3>2. SumOf(Beginning(output, fromBody)) = 0
      BY <2>1, <3>1, SumOfEmpty
    <3> QED
      BY <2>2, <3>2
  <2> HIDE DEF newSum, afterBody
  <2>6. frameHead' = <<>> /\ output' = <<>>
    <3>1. Rest(frameHead, 0) = frameHead /\ Rest(output, 0) = output
      BY <1>2, TakeNoneOrAll
    <3> QED
      BY <1>1, <2>1, <2>2, <3>1
  <2>7. txChecksum' = 0
    BY <1>1, <2>1, <2>5
  <2>8. txState' = "FOOT" \/ (txState' = "NONE" /\ fromFoot = Len(frameTail))
    BY <1>1, <1>7, <2>1
  <2> QED
    BY <1>1, <1>2, <2>1, <2>2, <2>3, <2>4, <2>6, <2>7, <2>8, StopsInFoot
<1> QED
  BY <1>4, <1>5, <1>6, <1>7

-----------------------------------------------------------------------------
(***************************************************************************)
(* The other steps of the send side, and what follows from the invariant.  *)
(***************************************************************************)
LEMMA TxBegins == TxInit => TxInv
<1> SUFFICES ASSUME TxInit PROVE TxInv
  OBVIOUS
<1>1. TxTypeOK
  <2>1. <<>> \in Seq(Byte) /\ SeNone \in Byte /\ 0 \in Word
    BY Naturals8And16 DEF SeNone, Byte
  <2> QED
    BY <2>1 DEF TxInit, TxTypeOK, EmptyFrame, Frame
<1>2. OneFrame /\ NothingIsSent /\ HeadIsSent /\ BodyIsSent /\ FootIsSent
  BY DEF TxInit, OneFrame, NothingIsSent, HeadIsSent, BodyIsSent, FootIsSent, EmptyFrame
<1> QED
  BY <1>1, <1>2 DEF TxInv

\* The stack hands over a frame.
LEMMA UpdateKeepsFrame ==
    ASSUME TxInv, TransportIsIdle, NEW f \in TargetFrames, Update(f)
    PROVE  TxInv'
<1>1. f \in Frame
  BY FramedTxAssumption DEF Frame
<1>2. TxTypeOK'
  BY <1>1 DEF Update, TxInv, TxTypeOK, Frame
<1>3. NothingIsSent' /\ OneFrame' /\ HeadIsSent' /\ BodyIsSent' /\ FootIsSent'
  BY DEF Update, TransportIsIdle, TxInv, OneFrame, NothingIsSent, HeadIsSent, BodyIsSent, FootIsSent
<1> QED
  BY <1>2, <1>3 DEF TxInv

\* runCommunicationTx begins the frame that is ready.
LEMMA RunKeepsFrame ==
    ASSUME TxInv, RunCommunicationTx
    PROVE  TxInv'
<1> DEFINE h == HeadOf(txType, Len(output))
<1>1. frameHead = <<>> /\ output = sending.payload /\ txType = sending.type /\ txChecksum = 0
  BY DEF RunCommunicationTx, TxInv, NothingIsSent
<1>2. h = HeadOfSent
  BY <1>1 DEF HeadOfSent
<1>3. h \in Seq(Byte) /\ Len(h) = 6
  BY <1>2, FrameParts DEF TxInv
<1> HIDE DEF h
<1>4. frameHead' = h
  <2>1. frameHead' = SubSeq(<<>> \o h, 1, 6)
    BY <1>1 DEF RunCommunicationTx, WrittenHead, HeadCapacity, LengthBytes, h
  <2>2. <<>> \o h = h
    BY <1>3, ConcatEmptySeq
  <2>3. SubSeq(h, 1, Len(h)) = h
    BY <1>3, SubSeqFull
  <2> QED
    BY <1>3, <2>1, <2>2, <2>3
<1>5. h # <<>>
  BY <1>3, EmptySeq
<1>6. TxTypeOK'
  <2>1. <<>> \in Seq(Byte)
    OBVIOUS
  <2> QED
    BY <1>3, <1>4, <2>1 DEF RunCommunicationTx, TxInv, TxTypeOK
<1>7. HeadIsSent'
  <2>1. Joined(<<>>, h) = h
    BY <1>3, JoinedProperties
  <2>2. received' = <<>> /\ UNCHANGED <<txChecksum, output, sending>>
    BY DEF RunCommunicationTx
  <2>3. HeadOfSent' = HeadOfSent
    BY <2>2 DEF HeadOfSent
  <2> QED
    BY <1>1, <1>2, <1>4, <1>5, <2>1, <2>2, <2>3 DEF HeadIsSent
<1>8. OneFrame' /\ NothingIsSent' /\ BodyIsSent' /\ FootIsSent'
  BY DEF RunCommunicationTx, OneFrame, NothingIsSent, BodyIsSent, FootIsSent
<1> QED
  BY <1>6, <1>7, <1>8 DEF TxInv

\* The transport reads as much as it likes.
LEMMA ReadKeepsFrame ==
    ASSUME TxInv, TransportReads
    PROVE  TxInv'
<1>1. PICK length \in 1 .. OutputSize : Get(length)
  BY DEF TransportReads
<1>2. OutputSize \in Nat
  <2>1. /\ Len(frameHead) \in Nat /\ Len(output) \in Nat /\ Len(frameTail) \in Nat
    BY LenProperties DEF TxInv, TxTypeOK
  <2>2. TailCapacity = 3
    BY DEF TailCapacity, ChecksumBytes
  <2>3. txState \in {"NONE", "HEAD", "BODY", "FOOT"}
    BY DEF TxInv, TxTypeOK
  <2> QED
    BY <2>1, <2>2, <2>3 DEF OutputSize
<1>3. length \in Nat /\ length > 0
  BY <1>1, <1>2
<1> QED
  BY <1>1, <1>3, GetKeepsFrame

\* resetOutput throws the frame away.
LEMMA ResetKeepsFrame ==
    ASSUME TxInv, ResetOutput, ~EarlyResets
    PROVE  TxInv'
<1>1. TxTypeOK'
  <2>1. <<>> \in Seq(Byte) /\ SeNone \in Byte /\ 0 \in Word
    BY Naturals8And16 DEF SeNone, Byte
  <2> QED
    BY <2>1 DEF ResetOutput, ResetTx, TxInv, TxTypeOK, EmptyFrame, Frame
<1>2. OneFrame' /\ NothingIsSent' /\ HeadIsSent' /\ BodyIsSent' /\ FootIsSent'
  BY DEF ResetOutput, ResetTx, OneFrame, NothingIsSent, HeadIsSent, BodyIsSent, FootIsSent, EmptyFrame
<1> QED
  BY <1>1, <1>2 DEF TxInv

\* The steps of the receive machine do not touch the frame that is sent.
LEMMA TxUnchanged ==
    ASSUME TxInv, UNCHANGED txVars
    PROVE  TxInv'
<1>1. UNCHANGED <<txState, txReady, txType, txChecksum, frameHead, output, frameTail, sending, received>>
  BY DEF txVars
<1>2. TxTypeOK' /\ OneFrame'
  BY <1>1 DEF TxInv, TxTypeOK, OneFrame
<1>3. NothingIsSent' /\ FootIsSent'
  BY <1>1 DEF TxInv, NothingIsSent, FootIsSent
<1>4. HeadOfSent' = HeadOfSent /\ PayloadEnds' = PayloadEnds
  BY <1>1 DEF PayloadEnds, HeadOfSent
<1>5. HeadIsSent' /\ BodyIsSent'
  BY <1>1, <1>4 DEF TxInv, HeadIsSent, BodyIsSent
<1> QED
  BY <1>2, <1>3, <1>5 DEF TxInv

\* The send side of a paced host keeps its invariant.
LEMMA TxInvariant ==
    ASSUME HostPaced, ~EarlyResets
    PROVE  ExchangeSpec => []TxInv
<1>1. ExchangeInit => TxInv
  BY TxBegins DEF ExchangeInit
<1>2. ASSUME TxInv, [ExchangeNext]_exchangeVars PROVE TxInv'
  <2>1. CASE HostMoves
    BY <1>2, <2>1, TxUnchanged DEF HostMoves
  <2>2. CASE Receive
    BY <1>2, <2>2, TxUnchanged DEF Receive
  <2>3. CASE Answer
    BY <1>2, <2>3, TxUnchanged, UpdateKeepsFrame DEF Answer
  <2>4. CASE Send
    BY <1>2, <2>4, RunKeepsFrame, ReadKeepsFrame DEF Send
  <2>5. CASE DropOutput
    BY <1>2, <2>5, ResetKeepsFrame DEF DropOutput
  <2>6. CASE UNCHANGED exchangeVars
    BY <1>2, <2>6, TxUnchanged DEF exchangeVars
  <2> QED
    BY <1>2, <2>1, <2>2, <2>3, <2>4, <2>5, <2>6 DEF ExchangeNext
<1> QED
  BY <1>1, <1>2, PTL DEF ExchangeSpec

(***************************************************************************)
(* With a paced host, whatever the sizes of the calls of get, the          *)
(* transport has read the beginning of the frame that the stack has handed *)
(* over, and at the end the whole of it: the checksum in its foot is the   *)
(* sum of the payload, added up over as many calls as it took, and nothing *)
(* of a frame that has been reset is left, if the application has read the *)
(* head before it resets.                                                  *)
(***************************************************************************)
THEOREM FramesAreSentWhole ==
    ASSUME HostPaced, ~EarlyResets
    PROVE  ExchangeSpec => []SentIsFrame
<1>1. TxInv => SentIsFrame
  <2> SUFFICES ASSUME TxInv PROVE SentIsFrame
    OBVIOUS
  <2> DEFINE foot == FootOf(SumOf(sending.payload))
  <2>1. /\ received \in Seq(Byte) /\ frameHead \in Seq(Byte) /\ output \in Seq(Byte)
        /\ frameTail \in Seq(Byte)
    BY DEF TxInv, TxTypeOK
  <2>2. /\ sending.payload \in Seq(Byte) /\ PayloadEnds \in Seq(Byte) /\ HeadOfSent \in Seq(Byte)
        /\ foot \in Seq(Byte) /\ Encoded(sending) = Joined(PayloadEnds, foot)
        /\ PayloadEnds = Joined(HeadOfSent, sending.payload)
    BY FrameParts DEF TxInv, PayloadEnds
  <2> HIDE DEF foot
  <2>3. ASSUME txState # "NONE"
        PROVE  \E rest \in Seq(Byte) : Joined(received, rest) = Encoded(sending)
    <3>1. CASE txState = "HEAD"
      <4>1. Joined(received, frameHead) = HeadOfSent
        BY <3>1 DEF TxInv, HeadIsSent
      <4>2. /\ Joined(frameHead, sending.payload) \in Seq(Byte)
            /\ Joined(received, Joined(frameHead, sending.payload)) = PayloadEnds
        <5>1. Joined(frameHead, sending.payload) \in Seq(Byte)
          BY <2>1, <2>2, JoinedProperties
        <5>2. Joined(Joined(received, frameHead), sending.payload)
                = Joined(received, Joined(frameHead, sending.payload))
          BY <2>1, <2>2, JoinedAssociative
        <5> QED
          BY <2>2, <4>1, <5>1, <5>2
      <4>3. /\ Joined(Joined(frameHead, sending.payload), foot) \in Seq(Byte)
            /\ Joined(received, Joined(Joined(frameHead, sending.payload), foot)) = Encoded(sending)
        <5> DEFINE x == Joined(frameHead, sending.payload)
        <5>1. x \in Seq(Byte) /\ Joined(received, x) = PayloadEnds
          BY <4>2
        <5> HIDE DEF x
        <5>2. Joined(x, foot) \in Seq(Byte)
          BY <2>2, <5>1, JoinedProperties
        <5>3. Joined(Joined(received, x), foot) = Joined(received, Joined(x, foot))
          BY <2>1, <2>2, <5>1, JoinedAssociative
        <5>4. Joined(received, Joined(x, foot)) = Encoded(sending)
          BY <2>2, <5>1, <5>3
        <5> QED
          BY <5>2, <5>4 DEF x
      <4> QED
        BY <4>3
    <3>2. CASE txState = "BODY"
      <4>1. Joined(received, output) = PayloadEnds
        BY <3>2 DEF TxInv, BodyIsSent
      <4>2. /\ Joined(output, foot) \in Seq(Byte)
            /\ Joined(received, Joined(output, foot)) = Encoded(sending)
        <5>1. Joined(output, foot) \in Seq(Byte)
          BY <2>1, <2>2, JoinedProperties
        <5>2. Joined(Joined(received, output), foot) = Joined(received, Joined(output, foot))
          BY <2>1, <2>2, JoinedAssociative
        <5> QED
          BY <2>2, <4>1, <5>1, <5>2
      <4> QED
        BY <4>2
    <3>3. CASE txState = "FOOT"
      BY <2>1, <3>3 DEF TxInv, FootIsSent
    <3> QED
      BY <2>3, <3>1, <3>2, <3>3 DEF TxInv, TxTypeOK
  <2>4. ASSUME txState # "NONE" PROVE received = SubSeq(Encoded(sending), 1, Len(received))
    <3>1. PICK rest \in Seq(Byte) : Joined(received, rest) = Encoded(sending)
      BY <2>3, <2>4
    <3>2. received = Beginning(Joined(received, rest), Len(received))
      BY <2>1, JoinedProperties
    <3> QED
      BY <3>1, <3>2 DEF Beginning
  <2>5. ASSUME txState = "NONE", ~txReady PROVE received = Encoded(sending)
    BY <2>5 DEF TxInv, NothingIsSent
  <2> QED
    BY <2>4, <2>5 DEF SentIsFrame
<1> QED
  BY <1>1, TxInvariant, PTL

(***************************************************************************)
(* With a paced host, outputSize tells the transport exactly how much of   *)
(* the frame is left, in the head, in the payload and in the foot: a       *)
(* transport that reads as much as it says reads the frame to its end, and *)
(* one that waits for more never has to.                                   *)
(***************************************************************************)
THEOREM OutputSizeIsExact ==
    ASSUME HostPaced, ~EarlyResets
    PROVE  ExchangeSpec => []OutputSizeIsRight
<1>1. TxInv => OutputSizeIsRight
  <2> SUFFICES ASSUME TxInv, txState # "NONE"
               PROVE  Len(received) + OutputSize = Len(Encoded(sending))
    BY DEF OutputSizeIsRight
  <2>1. /\ received \in Seq(Byte) /\ frameHead \in Seq(Byte) /\ output \in Seq(Byte)
        /\ frameTail \in Seq(Byte) /\ sending.payload \in Seq(Byte) /\ sending \in Frame
    BY FrameParts DEF TxInv, TxTypeOK
  <2>2. /\ Len(received) \in Nat /\ Len(frameHead) \in Nat /\ Len(output) \in Nat
        /\ Len(frameTail) \in Nat /\ Len(sending.payload) \in Nat
    BY <2>1, LenProperties
  <2>3. Len(Encoded(sending)) = Len(sending.payload) + 9
    BY <2>1, EncodedType DEF Frame
  <2>4. HeadOfSent \in Seq(Byte) /\ Len(HeadOfSent) = 6
    BY FrameParts DEF TxInv
  <2>5. TailCapacity = 3
    BY DEF TailCapacity, ChecksumBytes
  <2>6. CASE txState = "HEAD"
    <3>1. Joined(received, frameHead) = HeadOfSent /\ output = sending.payload
      BY <2>6 DEF TxInv, HeadIsSent
    <3>2. Len(received) + Len(frameHead) = 6
      BY <2>1, <2>4, <3>1, JoinedProperties
    <3>3. OutputSize = Len(frameHead) + Len(output) + TailCapacity
      BY <2>6 DEF OutputSize
    <3> QED
      BY <2>2, <2>3, <2>5, <3>1, <3>2, <3>3
  <2>7. CASE txState = "BODY"
    <3>1. Joined(received, output) = Joined(HeadOfSent, sending.payload)
      BY <2>7 DEF TxInv, BodyIsSent, PayloadEnds
    <3>2. Len(received) + Len(output) = Len(HeadOfSent) + Len(sending.payload)
      <4>1. Len(Joined(received, output)) = Len(received) + Len(output)
        BY <2>1, JoinedProperties
      <4>2. Len(Joined(HeadOfSent, sending.payload)) = Len(HeadOfSent) + Len(sending.payload)
        BY <2>1, <2>4, JoinedProperties
      <4> QED
        BY <3>1, <4>1, <4>2
    <3>3. OutputSize = Len(output) + TailCapacity
      BY <2>7 DEF OutputSize
    <3> QED
      BY <2>2, <2>3, <2>4, <2>5, <3>2, <3>3
  <2>8. CASE txState = "FOOT"
    <3>1. Joined(received, frameTail) = Encoded(sending)
      BY <2>8 DEF TxInv, FootIsSent
    <3>2. Len(received) + Len(frameTail) = Len(Encoded(sending))
      BY <2>1, <3>1, JoinedProperties
    <3>3. OutputSize = Len(frameTail)
      BY <2>8 DEF OutputSize
    <3> QED
      BY <3>2, <3>3
  <2> QED
    BY <2>6, <2>7, <2>8 DEF TxInv, TxTypeOK
<1> QED
  BY <1>1, TxInvariant, PTL

-----------------------------------------------------------------------------
(***************************************************************************)
(* The receive side: types.  The upper byte of the checksum waits in       *)
(* compare only until the lower one comes, so that the two together are a  *)
(* word whatever the line brings.                                          *)
(***************************************************************************)
CountsInField ==
    /\ count \in Nat
    /\ state = "LENGTH" => count <= 3
    /\ state = "CHECKSUM" => count <= 1
    /\ state \notin {"LENGTH", "CHECKSUM"} => count = 0

MachineTyped ==
    /\ state \in {"START_FLAG", "TYPE", "LENGTH", "DATA", "CHECKSUM", "END_FLAG"}
    /\ CountsInField
    /\ expected \in Nat /\ type \in Byte /\ sum \in Word /\ ready \in BOOLEAN
    /\ compare \in Byte /\ (compare # 0 => state = "CHECKSUM" /\ count = 1)
    /\ input \in Seq(Byte) /\ Len(input) <= Capacity

LineTyped ==
    /\ chunk \in Seq(Byte) /\ line \in Seq(Byte) /\ pending \in Byte
    /\ damages \in 0 .. MaxDamages /\ awaited \subseteq HostFrames
    /\ spoilt \in BOOLEAN

RxTyped == MachineTyped /\ LineTyped

\* The frames of the host have a type, and a payload the input buffer can hold.
LEMMA HostFrameIsFrame ==
    ASSUME NEW f \in HostFrames
    PROVE  /\ f \in Frame /\ f.type \in Byte /\ f.type # SeNone /\ f.payload \in Seq(Byte)
           /\ Len(f.payload) \in Nat /\ Len(f.payload) <= Capacity
<1>1. f \in [type : Byte \ {SeNone}, payload : Seq(Byte)] /\ Len(f.payload) <= Capacity
  BY FramedRxAssumption
<1> QED
  BY <1>1, LenProperties DEF Frame

\* What the host puts on the line for a frame
Wires(f) == {Encoded(f)} \cup Damaged(f)

\* Also a damaged frame is a sequence of bytes, as long as the undamaged one.
LEMMA WireIsBytes ==
    ASSUME NEW f \in HostFrames, NEW w \in Wires(f)
    PROVE  w \in Seq(Byte) /\ Len(w) = Len(f.payload) + 9
<1>1. Encoded(f) \in Seq(Byte) /\ Len(Encoded(f)) = Len(f.payload) + 9
  BY HostFrameIsFrame, EncodedType DEF Frame
<1>2. ASSUME w \in Damaged(f)
      PROVE  w \in Seq(Byte) /\ Len(w) = Len(Encoded(f))
  <2>1. PICK i \in LengthBytes + 3 .. Len(Encoded(f)), b \in Noise :
             w = [Encoded(f) EXCEPT ![i] = b]
    BY <1>2 DEF Damaged
  <2>2. i \in 1 .. Len(Encoded(f)) /\ b \in Byte
    BY <1>1, <2>1, FramedRxAssumption, LenProperties DEF LengthBytes
  <2> DEFINE e == Encoded(f)
  <2>3. e \in Seq(Byte) /\ i \in 1 .. Len(e) /\ b \in Byte
    BY <1>1, <2>2
  <2> HIDE DEF e
  <2>4. [e EXCEPT ![i] = b] \in Seq(Byte) /\ Len([e EXCEPT ![i] = b]) = Len(e)
    BY <2>3, ExceptSeq
  <2> QED
    BY <2>1, <2>4 DEF e
<1> QED
  BY <1>1, <1>2 DEF Wires

\* Either of the two ways to send puts a wire of the frame on the line.
LEMMA SendsWire ==
    ASSUME NEW f \in HostFrames, SendsWhole(f) \/ SendsDamaged(f)
    PROVE  /\ \E w \in Wires(f) : line' = Joined(line, w)
           /\ damages' = damages \/ (damages < MaxDamages /\ damages' = damages + 1)
<1>1. CASE SendsWhole(f)
  BY <1>1 DEF SendsWhole, Counted, Wires, Joined
<1>2. CASE SendsDamaged(f)
  BY <1>2 DEF SendsDamaged, Counted, Wires, Joined
<1> QED
  BY <1>1, <1>2

\* The count of the damaged frames stays within its bound.
LEMMA DamagesCounted ==
    ASSUME damages \in 0 .. MaxDamages,
           damages' = damages \/ (damages < MaxDamages /\ damages' = damages + 1)
    PROVE  damages' \in 0 .. MaxDamages
BY FramedRxAssumption

\* The host sends a frame, or sends it again.
LEMMA HostKeepsTypes ==
    ASSUME RxTyped, NEW f \in HostFrames, HostSends(f) \/ HostSendsAgain(f)
    PROVE  RxTyped'
<1>1. SendsWhole(f) \/ SendsDamaged(f)
  BY DEF HostSends, HostSendsAgain
<1>2. PICK w \in Wires(f) : line' = Joined(line, w)
  BY <1>1, SendsWire
<1>3. w \in Seq(Byte)
  BY WireIsBytes
<1>4. line' \in Seq(Byte)
  BY <1>2, <1>3, JoinedProperties DEF RxTyped, LineTyped
<1>5. damages' \in 0 .. MaxDamages
  BY <1>1, SendsWire, DamagesCounted DEF RxTyped, LineTyped
<1>6. UNCHANGED <<rxVars, input, chunk, pending, spoilt>> /\ awaited' \subseteq HostFrames
  BY DEF HostSends, HostSendsAgain, RxTyped, LineTyped
<1>7. MachineTyped'
  BY <1>6 DEF rxVars, RxTyped, MachineTyped, CountsInField
<1> QED
  BY <1>4, <1>5, <1>6, <1>7 DEF RxTyped, LineTyped

\* The driver puts a part of what has arrived.
LEMMA PutKeepsTypes ==
    ASSUME RxTyped, Put
    PROVE  RxTyped'
<1>1. PICK n \in 1 .. Len(line) :
        /\ line' = SubSeq(line, n + 1, Len(line))
        /\ chunk' = IF ready THEN <<>> ELSE SubSeq(line, 1, n)
  BY DEF Put
<1>2. line \in Seq(Byte) /\ n \in 0 .. Len(line)
  BY LenProperties DEF RxTyped, LineTyped
<1>3. line' \in Seq(Byte) /\ SubSeq(line, 1, n) \in Seq(Byte)
  BY <1>1, <1>2, BeginningAndRest
<1>4. chunk' \in Seq(Byte)
  BY <1>1, <1>3
<1>5. UNCHANGED <<rxVars, input, pending, spoilt, awaited, damages>>
  BY DEF Put
<1>6. MachineTyped'
  BY <1>5 DEF rxVars, RxTyped, MachineTyped, CountsInField
<1> QED
  BY <1>3, <1>4, <1>5, <1>6 DEF RxTyped, LineTyped

\* A check that takes a byte finds the machine in its state.
LEMMA TakesByte ==
    ASSUME RxTyped, NEW s, Takes(s)
    PROVE  Head(chunk) \in Byte /\ chunk # <<>> /\ StateNow = s /\ LineTyped'
<1>1. chunk # <<>> /\ chunk' = Tail(chunk) /\ UNCHANGED <<pending, spoilt, lineVars>> /\ StateNow = s
  BY DEF Takes
<1>2. Head(chunk) \in Byte /\ Tail(chunk) \in Seq(Byte)
  BY <1>1, HeadTailProperties DEF RxTyped, LineTyped
<1> QED
  BY <1>1, <1>2 DEF RxTyped, LineTyped, lineVars

\* The reset of the machine leaves its variables well-typed.
LEMMA ResetIsTyped ==
    ASSUME ResetRx
    PROVE  MachineTyped'
<1>1. <<>> \in Seq(Byte) /\ Len(<<>>) = 0 /\ 0 \in Byte /\ 0 \in Word /\ SeNone \in Byte
  BY Naturals8And16 DEF SeNone, Byte
<1>2. CountsInField'
  BY DEF ResetRx, CountsInField
<1>3. Len(input') <= Capacity
  BY <1>1, FramedRxAssumption DEF ResetRx
<1> QED
  BY <1>1, <1>2, <1>3 DEF ResetRx, MachineTyped

\* The checks of put, one byte each.
LEMMA ChecksKeepTypes ==
    ASSUME RxTyped, Checks
    PROVE  RxTyped'
<1>1. CASE CheckStartFlag
  <2>1. LineTyped' /\ StateNow = "START_FLAG"
    BY <1>1, TakesByte DEF CheckStartFlag
  <2>2. state = "START_FLAG"
    BY <2>1 DEF StateNow, AfterData
  <2>3. state' \in {"START_FLAG", "TYPE"} /\ UNCHANGED <<count, expected, type, sum, compare, ready, input>>
    BY <1>1 DEF CheckStartFlag
  <2>4. MachineTyped'
    BY <2>2, <2>3 DEF RxTyped, MachineTyped, CountsInField
  <2> QED
    BY <2>1, <2>4 DEF RxTyped
<1>2. CASE CheckType
  <2>1. LineTyped' /\ StateNow = "TYPE" /\ Head(chunk) \in Byte
    BY <1>2, TakesByte DEF CheckType
  <2>2. state = "TYPE"
    BY <2>1 DEF StateNow, AfterData
  <2>3. /\ state' = "LENGTH" /\ type' \in Byte
        /\ UNCHANGED <<count, expected, sum, compare, ready, input>>
    BY <1>2, <2>1 DEF CheckType
  <2>4. CountsInField'
    BY <2>2, <2>3 DEF RxTyped, MachineTyped, CountsInField
  <2>5. MachineTyped'
    BY <2>2, <2>3, <2>4 DEF RxTyped, MachineTyped
  <2> QED
    BY <2>1, <2>5 DEF RxTyped
<1>3. CASE CheckLength
  <2>1. LineTyped' /\ StateNow = "LENGTH" /\ Head(chunk) \in Byte
    BY <1>3, TakesByte DEF CheckLength
  <2>2. state = "LENGTH"
    BY <2>1 DEF StateNow, AfterData
  <2>3. count \in Nat /\ count <= 3 /\ expected \in Nat /\ Head(chunk) \in Nat /\ compare = 0
    BY <2>1, <2>2, Naturals8And16 DEF RxTyped, MachineTyped, CountsInField
  <2>4. expected' \in Nat
    BY <1>3, <2>3 DEF CheckLength
  <2>5. \/ count + 1 = 4 /\ count' = 0 /\ state' \in {"DATA", "CHECKSUM"}
        \/ count + 1 # 4 /\ count' = count + 1 /\ state' = "LENGTH"
    BY <1>3 DEF CheckLength, CountAfter, LengthBytes, AfterData
  <2>6. CountsInField' /\ state' \in {"DATA", "CHECKSUM", "LENGTH"}
    BY <2>3, <2>5 DEF CountsInField
  <2>7. UNCHANGED <<type, sum, compare, ready, input>>
    BY <1>3 DEF CheckLength
  <2>8. MachineTyped'
    BY <2>3, <2>4, <2>6, <2>7 DEF RxTyped, MachineTyped
  <2> QED
    BY <2>1, <2>8 DEF RxTyped
<1>4. CASE CheckData
  <2>1. LineTyped' /\ StateNow = "DATA" /\ Head(chunk) \in Byte
    BY <1>4, TakesByte DEF CheckData
  <2>2. state = "DATA"
    BY <2>1 DEF StateNow, AfterData
  <2>3. count = 0 /\ compare = 0
    BY <2>2 DEF RxTyped, MachineTyped, CountsInField
  <2>4. input \in Seq(Byte) /\ Len(input) \in Nat /\ Len(input) <= Capacity /\ Capacity \in Nat
    BY LenProperties, FramedRxAssumption DEF RxTyped, MachineTyped
  <2>5. input' \in Seq(Byte) /\ Len(input') <= Capacity
    <3>1. Append(input, Head(chunk)) \in Seq(Byte) /\ Len(Append(input, Head(chunk))) = Len(input) + 1
      BY <2>1, <2>4, AppendProperties
    <3>2. input' = Written(Head(chunk))
      BY <1>4 DEF CheckData
    <3>3. CASE Len(input) < Capacity
      BY <2>4, <3>1, <3>2, <3>3 DEF Written
    <3>4. CASE ~(Len(input) < Capacity)
      BY <2>4, <3>2, <3>4 DEF Written
    <3> QED
      BY <3>3, <3>4
  <2>6. sum' \in Word
    <3>1. sum \in Nat /\ Head(chunk) \in Nat
      BY <2>1, Naturals8And16 DEF RxTyped, MachineTyped
    <3>2. sum + Head(chunk) \in Nat
      BY <3>1
    <3> QED
      BY <1>4, <3>2, ModType DEF CheckData
  <2>7. state' \in {"DATA", "CHECKSUM"}
    BY <1>4 DEF CheckData, AfterData
  <2>8. UNCHANGED <<count, expected, type, compare, ready>>
    BY <1>4 DEF CheckData
  <2>9. CountsInField'
    BY <2>3, <2>7, <2>8 DEF CountsInField
  <2>10. MachineTyped'
    BY <2>3, <2>5, <2>6, <2>7, <2>8, <2>9 DEF RxTyped, MachineTyped
  <2> QED
    BY <2>1, <2>10 DEF RxTyped
<1>5. CASE CheckChecksum
  <2> DEFINE word == compare * 256 + Head(chunk)
  <2>1. LineTyped' /\ StateNow = "CHECKSUM" /\ Head(chunk) \in Byte
    BY <1>5, TakesByte DEF CheckChecksum
  <2>2. state \in {"DATA", "CHECKSUM"}
    BY <2>1 DEF StateNow, AfterData, RxTyped, MachineTyped
  <2>3. count \in Nat /\ count <= 1 /\ (count = 0 => compare = 0)
    BY <2>2 DEF RxTyped, MachineTyped, CountsInField
  <2>4. CASE count + 1 < ChecksumBytes /\ state' = "CHECKSUM" /\ count' = count + 1 /\ compare' = word
             /\ UNCHANGED <<expected, type, sum, ready, input>>
    <3>1. count = 0 /\ compare = 0
      BY <2>3, <2>4 DEF ChecksumBytes
    <3>2. compare' \in Byte
      <4>1. Head(chunk) \in Nat
        BY <2>1, Naturals8And16
      <4>2. word = Head(chunk)
        BY <3>1, <4>1
      <4> QED
        BY <2>1, <2>4, <4>2
    <3>3. count' = 1 /\ state' = "CHECKSUM"
      BY <2>4, <3>1
    <3>4. CountsInField'
      BY <3>3 DEF CountsInField
    <3>5. MachineTyped'
      BY <2>4, <3>2, <3>3, <3>4 DEF RxTyped, MachineTyped
    <3> QED
      BY <2>1, <3>5 DEF RxTyped
  <2>5. CASE state' = "END_FLAG" /\ count' = 0 /\ compare' = 0 /\ sum' = 0
             /\ UNCHANGED <<expected, type, ready, input>>
    <3>1. 0 \in Byte /\ 0 \in Word
      BY Naturals8And16 DEF Byte
    <3>2. CountsInField'
      BY <2>5 DEF CountsInField
    <3>3. MachineTyped'
      BY <2>5, <3>1, <3>2 DEF RxTyped, MachineTyped
    <3> QED
      BY <2>1, <3>3 DEF RxTyped
  <2>6. CASE ResetRx
    BY <2>1, <2>6, ResetIsTyped DEF RxTyped
  <2>7. \/ /\ count + 1 < ChecksumBytes /\ state' = "CHECKSUM" /\ count' = count + 1 /\ compare' = word
           /\ UNCHANGED <<expected, type, sum, ready, input>>
        \/ /\ state' = "END_FLAG" /\ count' = 0 /\ compare' = 0 /\ sum' = 0
           /\ UNCHANGED <<expected, type, ready, input>>
        \/ ResetRx
    BY <1>5 DEF CheckChecksum
  <2> HIDE DEF word
  <2> QED
    BY <2>4, <2>5, <2>6, <2>7
<1>6. CASE CheckEndFlag
  <2>1. LineTyped' /\ StateNow = "END_FLAG"
    BY <1>6, TakesByte DEF CheckEndFlag
  <2>2. state = "END_FLAG"
    BY <2>1 DEF StateNow, AfterData
  <2>3. CASE ResetRx
    BY <2>1, <2>3, ResetIsTyped DEF RxTyped
  <2>4. CASE state' = "START_FLAG" /\ ready' = TRUE /\ expected' = 0
             /\ UNCHANGED <<count, type, sum, compare, input>>
    <3>1. CountsInField'
      BY <2>2, <2>4 DEF RxTyped, MachineTyped, CountsInField
    <3>2. compare = 0
      BY <2>2 DEF RxTyped, MachineTyped
    <3>3. MachineTyped'
      BY <2>2, <2>4, <3>1, <3>2 DEF RxTyped, MachineTyped
    <3> QED
      BY <2>1, <3>3 DEF RxTyped
  <2> QED
    BY <1>6, <2>3, <2>4 DEF CheckEndFlag
<1> QED
  BY <1>1, <1>2, <1>3, <1>4, <1>5, <1>6 DEF Checks

\* The stack resets the input, or runs the communication or the unpacker.
LEMMA RxStepsKeepTypes ==
    ASSUME RxTyped, ResetInput \/ RunCommunicationRx \/ RunUnpacker
    PROVE  RxTyped'
<1>1. CASE ResetInput
  <2>1. MachineTyped'
    BY <1>1, ResetIsTyped DEF ResetInput
  <2>2. damages' \in 0 .. MaxDamages
    BY <1>1, DamagesCounted DEF ResetInput, Counted, RxTyped, LineTyped
  <2> QED
    BY <1>1, <2>1, <2>2 DEF ResetInput, RxTyped, LineTyped
<1>2. CASE RunCommunicationRx
  <2>1. SeNone \in Byte
    BY DEF SeNone, Byte
  <2>2. pending' \in Byte
    BY <1>2 DEF RunCommunicationRx, RxTyped, MachineTyped
  <2>3. MachineTyped'
    BY <1>2, <2>1 DEF RunCommunicationRx, RxTyped, MachineTyped, CountsInField
  <2> QED
    BY <1>2, <2>2, <2>3 DEF RunCommunicationRx, RxTyped, LineTyped, lineVars
<1>3. CASE RunUnpacker
  <2>1. input \in Seq(Byte) /\ Len(input) \in Nat /\ Len(input) <= Capacity /\ Capacity \in Nat
    BY LenProperties, FramedRxAssumption DEF RxTyped, MachineTyped
  <2>2. \/ input' = input \/ input' = <<>>
        \/ \E i \in 1 .. Len(input) + 1 : input' = SubSeq(input, i, Len(input))
    BY <1>3 DEF RunUnpacker, Unread
  <2>3. input' \in Seq(Byte) /\ Len(input') <= Capacity
    <3>1. CASE input' = <<>>
      <4>1. <<>> \in Seq(Byte) /\ Len(<<>>) = 0
        OBVIOUS
      <4> QED
        BY <2>1, <3>1, <4>1
    <3>2. ASSUME NEW i \in 1 .. Len(input) + 1, input' = SubSeq(input, i, Len(input))
          PROVE  input' \in Seq(Byte) /\ Len(input') <= Capacity
      <4>1. i - 1 \in 0 .. Len(input) /\ (i - 1) + 1 = i
        BY <2>1
      <4>2. /\ SubSeq(input, (i - 1) + 1, Len(input)) \in Seq(Byte)
            /\ Len(SubSeq(input, (i - 1) + 1, Len(input))) = Len(input) - (i - 1)
        BY <2>1, <4>1, BeginningAndRest
      <4>3. Len(input') = Len(input) - (i - 1) /\ input' \in Seq(Byte)
        BY <3>2, <4>1, <4>2
      <4> QED
        BY <2>1, <4>1, <4>3
    <3> QED
      BY <2>1, <2>2, <3>1, <3>2
  <2>4. UNCHANGED <<state, count, expected, type, sum, compare, ready, chunk, line, damages>>
    BY <1>3 DEF RunUnpacker, rxVars
  <2>5. pending' \in Byte /\ awaited' \subseteq HostFrames
    BY <1>3 DEF RunUnpacker, RxTyped, LineTyped, SeNone, Byte
  <2>6. MachineTyped'
    BY <2>3, <2>4 DEF RxTyped, MachineTyped, CountsInField
  <2>7. spoilt' \in BOOLEAN
    BY <1>3 DEF RunUnpacker
  <2> QED
    BY <2>4, <2>5, <2>6, <2>7 DEF RxTyped, LineTyped
<1> QED
  BY <1>1, <1>2, <1>3

\* The type invariant of the receive machine.
LEMMA RxTypeInvariant == ExchangeSpec => []RxTyped
<1>1. ExchangeInit => RxTyped
  <2> SUFFICES ASSUME Init PROVE RxTyped
    BY DEF ExchangeInit
  <2>1. <<>> \in Seq(Byte) /\ Len(<<>>) = 0 /\ 0 \in Byte /\ 0 \in Word /\ SeNone \in Byte
    BY Naturals8And16 DEF SeNone, Byte
  <2>2. CountsInField
    BY DEF Init, CountsInField
  <2>3. Len(input) <= Capacity
    BY <2>1, FramedRxAssumption DEF Init
  <2>4. MachineTyped
    BY <2>1, <2>2, <2>3 DEF Init, MachineTyped
  <2>5. damages \in 0 .. MaxDamages
    BY FramedRxAssumption DEF Init
  <2> QED
    BY <2>1, <2>4, <2>5 DEF Init, RxTyped, LineTyped
<1>2. ASSUME RxTyped, [ExchangeNext]_exchangeVars PROVE RxTyped'
  <2>1. CASE HostMoves
    BY <1>2, <2>1, HostKeepsTypes DEF HostMoves
  <2>5. CASE UNCHANGED vars
    <3>1. UNCHANGED <<rxVars, input, chunk, pending, spoilt, line, awaited, damages>>
      BY <2>5 DEF vars, lineVars
    <3>2. MachineTyped'
      BY <1>2, <3>1 DEF rxVars, RxTyped, MachineTyped, CountsInField
    <3> QED
      BY <1>2, <3>1, <3>2 DEF RxTyped, LineTyped
  <2>2. CASE Receive
    BY <1>2, <2>2, <2>5, PutKeepsTypes, ChecksKeepTypes, RxStepsKeepTypes DEF Receive, PutLoops
  <2>3. CASE Answer
    BY <1>2, <2>3, RxStepsKeepTypes DEF Answer
  <2>4. CASE DropOutput
    <3>1. damages' \in 0 .. MaxDamages
      BY <1>2, <2>4, DamagesCounted DEF DropOutput, Counted, RxTyped, LineTyped
    <3>2. UNCHANGED <<rxVars, input, chunk, pending, spoilt, line, awaited>>
      BY <2>4 DEF DropOutput
    <3>3. MachineTyped'
      BY <1>2, <3>2 DEF rxVars, RxTyped, MachineTyped, CountsInField
    <3> QED
      BY <1>2, <3>1, <3>2, <3>3 DEF RxTyped, LineTyped
  <2>6. CASE Send
    BY <2>5, <2>6 DEF Send
  <2> QED
    BY <1>2, <2>1, <2>2, <2>3, <2>4, <2>5, <2>6 DEF ExchangeNext, exchangeVars
<1> QED
  BY <1>1, <1>2, PTL DEF ExchangeSpec

(***************************************************************************)
(* The receive machine keeps its types whatever the host sends and the     *)
(* line does to it, paced or not: the byte counter stays inside the field  *)
(* it counts, so that no field is read too short, the bytes of a checksum  *)
(* make a word, and the input buffer takes no more than it holds.          *)
(***************************************************************************)
THEOREM ReceiverTyped == ExchangeSpec => []TypeOK
<1>1. RxTyped => TypeOK
  <2> SUFFICES ASSUME RxTyped PROVE TypeOK
    OBVIOUS
  <2>1. count \in CASE state = "LENGTH"   -> 0 .. LengthBytes - 1
                     [] state = "CHECKSUM" -> 0 .. ChecksumBytes - 1
                     [] OTHER              -> {0}
    <3>1. count \in Nat /\ (state = "LENGTH" => count <= 3) /\ (state = "CHECKSUM" => count <= 1)
          /\ (state \notin {"LENGTH", "CHECKSUM"} => count = 0)
      BY DEF RxTyped, MachineTyped, CountsInField
    <3>2. CASE state = "LENGTH"
      BY <3>1, <3>2 DEF LengthBytes
    <3>3. CASE state = "CHECKSUM"
      BY <3>1, <3>3 DEF ChecksumBytes
    <3>4. CASE state \notin {"LENGTH", "CHECKSUM"}
      BY <3>1, <3>4
    <3> QED
      BY <3>2, <3>3, <3>4
  <2>2. compare \in Word /\ sum \in Word
    BY BytesAreWords DEF RxTyped, MachineTyped
  <2>3. /\ state \in {"START_FLAG", "TYPE", "LENGTH", "DATA", "CHECKSUM", "END_FLAG"}
        /\ expected \in Nat /\ type \in Byte /\ ready \in BOOLEAN
        /\ input \in Seq(Byte) /\ Len(input) <= Capacity
    BY DEF RxTyped, MachineTyped
  <2>4. LineTyped
    BY DEF RxTyped
  <2> QED
    BY <2>1, <2>2, <2>3, <2>4, ZenonT(60) DEF LineTyped, TypeOK
<1> QED
  BY <1>1, RxTypeInvariant, PTL

-----------------------------------------------------------------------------
(***************************************************************************)
(* The bytes of a wire: the head is always that of the frame, and a byte   *)
(* that is damaged behind it is noticed by the checksum or is the end flag *)
(* itself.                                                                 *)
(***************************************************************************)
\* What the machine has put into the input buffer after k bytes of wire w
DataOf(w, k) == SubSeq(w, 7, k)

\* The payload part of a frame grows byte by byte with what has been taken of it.
LEMMA DataGrows ==
    ASSUME NEW w \in Seq(Byte), NEW k \in Nat, 6 <= k, k <= Len(w)
    PROVE  /\ DataOf(w, 6) = <<>>
           /\ DataOf(w, k) \in Seq(Byte) /\ Len(DataOf(w, k)) = k - 6
           /\ \A i \in 1 .. k - 6 : DataOf(w, k)[i] = w[6 + i]
           /\ k + 1 <= Len(w) => DataOf(w, k + 1) = Append(DataOf(w, k), w[k + 1])
<1>1. DataOf(w, 6) = <<>>
  BY SubSeqEmpty DEF DataOf
<1>2. Len(w) \in Nat
  BY LenProperties
<1>3. /\ DataOf(w, k) \in Seq(Byte) /\ Len(DataOf(w, k)) = k - 6
      /\ \A i \in 1 .. k - 6 : DataOf(w, k)[i] = w[6 + i]
  <2>1. \A i \in 7 .. k : w[i] \in Byte
    BY <1>2, ElementOfSeq
  <2>2. /\ SubSeq(w, 7, k) \in Seq(Byte) /\ Len(SubSeq(w, 7, k)) = IF 7 <= k THEN k - 7 + 1 ELSE 0
        /\ \A i \in 1 .. k - 7 + 1 : SubSeq(w, 7, k)[i] = w[7 + i - 1]
    BY <2>1, SubSeqProperties
  <2> QED
    BY <2>2 DEF DataOf
<1>4. ASSUME k + 1 <= Len(w) PROVE DataOf(w, k + 1) = Append(DataOf(w, k), w[k + 1])
  <2>1. 7 \in 1 .. Len(w) /\ k + 1 \in 7 .. Len(w) /\ (k + 1) - 1 = k /\ k + 1 \in 1 .. Len(w)
    BY <1>2, <1>4
  <2>2. SubSeq(w, 7, k + 1) = SubSeq(w, 7, k) \o <<w[k + 1]>>
    BY <2>1, SubSeqRecursiveSecond
  <2>3. w[k + 1] \in Byte
    BY <2>1, ElementOfSeq
  <2>4. Append(DataOf(w, k), w[k + 1]) = DataOf(w, k) \o <<w[k + 1]>>
    BY <1>3, <2>3, AppendIsConcat
  <2> QED
    BY <2>2, <2>4 DEF DataOf
<1> QED
  BY <1>1, <1>3, <1>4

\* The bytes of a frame, place by place.
LEMMA EncodedBytes ==
    ASSUME NEW f \in HostFrames, NEW n, n = Len(f.payload), NEW e, e = Encoded(f)
    PROVE  /\ \A i \in 1 .. 6 : e[i] = HeadOf(f.type, n)[i]
           /\ \A i \in 1 .. n : e[6 + i] = f.payload[i]
           /\ e[7 + n] = SumOf(f.payload) \div 256 /\ e[8 + n] = SumOf(f.payload) % 256
           /\ e[9 + n] = EndFlag
<1> DEFINE h == HeadOf(f.type, n)
           p == f.payload
           t == FootOf(SumOf(p))
<1>1. p \in Seq(Byte) /\ n \in Nat /\ n = Len(p) /\ f.type \in Byte
  BY HostFrameIsFrame
<1>2. h \in Seq(Byte) /\ Len(h) = 6
  BY <1>1, HeadType
<1>3. t \in Seq(Byte) /\ Len(t) = 3
  BY <1>1, SumOfType, FootType
<1>5. t[1] = SumOf(p) \div 256 /\ t[2] = SumOf(p) % 256 /\ t[3] = EndFlag
  BY DEF FootOf
<1>6. e = (h \o p) \o t
  BY DEF Encoded
<1> HIDE DEF h, p, t
<1> DEFINE g == h \o p
<1>7. /\ g \in Seq(Byte) /\ Len(g) = 6 + n
      /\ \A i \in 1 .. 6 + n : g[i] = IF i <= 6 THEN h[i] ELSE p[i - 6]
  <2>1. /\ g \in Seq(Byte) /\ Len(g) = Len(h) + Len(p)
        /\ \A i \in 1 .. Len(h) + Len(p) : g[i] = IF i <= Len(h) THEN h[i] ELSE p[i - Len(h)]
    BY <1>1, <1>2, ConcatProperties
  <2> HIDE DEF g
  <2> QED
    BY <1>1, <1>2, <2>1
<1> HIDE DEF g
<1>8. \A i \in 1 .. 9 + n : (g \o t)[i] = IF i <= 6 + n THEN g[i] ELSE t[i - (6 + n)]
  <2>1. /\ Len(g \o t) = Len(g) + Len(t)
        /\ \A i \in 1 .. Len(g) + Len(t) : (g \o t)[i] = IF i <= Len(g) THEN g[i] ELSE t[i - Len(g)]
    BY <1>3, <1>7, ConcatProperties
  <2>2. Len(g) + Len(t) = 9 + n
    BY <1>1, <1>3, <1>7
  <2> QED
    BY <1>7, <2>1, <2>2
<1>9. \A i \in 1 .. 9 + n : e[i] = IF i <= 6 + n THEN g[i] ELSE t[i - (6 + n)]
  BY <1>6, <1>8 DEF g
<1>10. \A i \in 1 .. 6 : e[i] = h[i]
  <2> SUFFICES ASSUME NEW i \in 1 .. 6 PROVE e[i] = h[i]
    OBVIOUS
  <2>1. i \in 1 .. 9 + n /\ i <= 6 + n /\ i \in 1 .. 6 + n /\ i <= 6
    BY <1>1
  <2> QED
    BY <1>7, <1>9, <2>1
<1>11. \A i \in 1 .. n : e[6 + i] = p[i]
  <2> SUFFICES ASSUME NEW i \in 1 .. n PROVE e[6 + i] = p[i]
    OBVIOUS
  <2>1. 6 + i \in 1 .. 9 + n /\ 6 + i <= 6 + n /\ ~(6 + i <= 6) /\ (6 + i) - 6 = i /\ 6 + i \in 1 .. 6 + n
    BY <1>1
  <2> QED
    BY <1>7, <1>9, <2>1
<1>12. e[7 + n] = t[1] /\ e[8 + n] = t[2] /\ e[9 + n] = t[3]
  <2>1. /\ 7 + n \in 1 .. 9 + n /\ ~(7 + n <= 6 + n) /\ (7 + n) - (6 + n) = 1
        /\ 8 + n \in 1 .. 9 + n /\ ~(8 + n <= 6 + n) /\ (8 + n) - (6 + n) = 2
        /\ 9 + n \in 1 .. 9 + n /\ ~(9 + n <= 6 + n) /\ (9 + n) - (6 + n) = 3
    BY <1>1
  <2> QED
    BY <1>9, <2>1
<1> QED
  BY <1>5, <1>10, <1>11, <1>12 DEF p, h

\* A wire is the frame or differs from it in one byte behind the head.
LEMMA WireDiffers ==
    ASSUME NEW f \in HostFrames, NEW w \in Wires(f)
    PROVE  \/ w = Encoded(f)
           \/ \E i \in 7 .. Len(f.payload) + 9 : \E b \in Byte :
                 /\ b # Encoded(f)[i]
                 /\ w[i] = b
                 /\ \A j \in 1 .. Len(f.payload) + 9 : j # i => w[j] = Encoded(f)[j]
<1> SUFFICES ASSUME w # Encoded(f)
             PROVE  \E i \in 7 .. Len(f.payload) + 9 : \E b \in Byte :
                       /\ b # Encoded(f)[i] /\ w[i] = b
                       /\ \A j \in 1 .. Len(f.payload) + 9 : j # i => w[j] = Encoded(f)[j]
  OBVIOUS
<1> DEFINE e == Encoded(f)
<1>1. e \in Seq(Byte) /\ Len(e) = Len(f.payload) + 9 /\ Len(f.payload) \in Nat
  BY HostFrameIsFrame, EncodedType DEF Frame
<1>2. PICK i \in LengthBytes + 3 .. Len(e), b \in Noise : w = [e EXCEPT ![i] = b]
  BY DEF Wires, Damaged
<1> HIDE DEF e
<1>3. i \in 7 .. Len(f.payload) + 9 /\ i \in 1 .. Len(e) /\ b \in Byte
  BY <1>1, <1>2, FramedRxAssumption DEF LengthBytes
<1>4. \A j \in 1 .. Len(e) : w[j] = IF j = i THEN b ELSE e[j]
  BY <1>1, <1>2, <1>3, ExceptSeq
<1>5. b # e[i]
  <2> SUFFICES ASSUME b = e[i] PROVE FALSE
    OBVIOUS
  <2>1. w \in Seq(Byte) /\ Len(w) = Len(e)
    BY <1>1, WireIsBytes
  <2>2. \A j \in 1 .. Len(w) : w[j] = e[j]
    BY <1>4, <2>1
  <2>3. w = e
    BY <1>1, <2>1, <2>2, SeqEqual
  <2> QED
    BY <2>3 DEF e
<1>6. w[i] = b /\ \A j \in 1 .. Len(f.payload) + 9 : j # i => w[j] = e[j]
  BY <1>1, <1>3, <1>4
<1> QED
  BY <1>3, <1>5, <1>6 DEF e

\* The length as far as it is known after one, two and three of its bytes
LongestLength == 4294967295
Upper8(n)     == n \div 16777216
Upper16(n)    == n \div 65536
Upper24(n)    == n \div 256

\* The four bytes of the length, added up the way the length state does it.
LEMMA HeadBytes ==
    ASSUME NEW t, NEW n \in Nat, n <= LongestLength
    PROVE  /\ HeadOf(t, n)[1] = StartFlag /\ HeadOf(t, n)[2] = t
           /\ HeadOf(t, n)[3] = Upper8(n)
           /\ Upper8(n) * 256 + HeadOf(t, n)[4] = Upper16(n)
           /\ Upper16(n) * 256 + HeadOf(t, n)[5] = Upper24(n)
           /\ Upper24(n) * 256 + HeadOf(t, n)[6] = n
<1>1. /\ HeadOf(t, n)[1] = StartFlag /\ HeadOf(t, n)[2] = t
      /\ HeadOf(t, n)[3] = (n \div 16777216) % 256
      /\ HeadOf(t, n)[4] = (n \div 65536) % 256
      /\ HeadOf(t, n)[5] = (n \div 256) % 256
      /\ HeadOf(t, n)[6] = n % 256
  BY SMT DEF HeadOf
<1>2. n < 4294967296
  BY SMT DEF LongestLength
<1>3. (n \div 16777216) % 256 = n \div 16777216
  BY <1>2, SMT
<1>4. (n \div 16777216) * 256 + ((n \div 65536) % 256) = n \div 65536
  BY <1>2, SMT
<1>5. (n \div 65536) * 256 + ((n \div 256) % 256) = n \div 256
  BY SMT
<1>6. (n \div 256) * 256 + (n % 256) = n
  BY SMT
<1> QED
  BY <1>1, <1>3, <1>4, <1>5, <1>6, SMT DEF Upper8, Upper16, Upper24

\* The upper parts of a length are natural numbers.
LEMMA UpperNaturals ==
    ASSUME NEW n \in Nat
    PROVE  Upper8(n) \in Nat /\ Upper16(n) \in Nat /\ Upper24(n) \in Nat
BY SMT DEF Upper8, Upper16, Upper24

\* Damage never touches the start flag, the type or the length.
LEMMA WireHead ==
    ASSUME NEW f \in HostFrames, NEW w \in Wires(f)
    PROVE  \A i \in 1 .. 6 : w[i] = HeadOf(f.type, Len(f.payload))[i]
<1>1. Len(f.payload) \in Nat
  BY HostFrameIsFrame
<1>2. \A i \in 1 .. 6 : Encoded(f)[i] = HeadOf(f.type, Len(f.payload))[i]
  BY SMTT(30), EncodedBytes
<1>3. CASE w = Encoded(f)
  BY <1>2, <1>3
<1>4. ASSUME NEW i \in 7 .. Len(f.payload) + 9,
             \A j \in 1 .. Len(f.payload) + 9 : j # i => w[j] = Encoded(f)[j]
      PROVE  \A k \in 1 .. 6 : w[k] = HeadOf(f.type, Len(f.payload))[k]
  <2> SUFFICES ASSUME NEW k \in 1 .. 6 PROVE w[k] = HeadOf(f.type, Len(f.payload))[k]
    OBVIOUS
  <2>1. k \in 1 .. Len(f.payload) + 9 /\ k # i
    BY <1>1
  <2> QED
    BY <1>2, <1>4, <2>1
<1> QED
  BY <1>3, <1>4, WireDiffers

\* The two bytes of a checksum make the sum, and no other two do.
LEMMA BytesOfWord ==
    ASSUME NEW u \in Word
    PROVE  /\ (u \div 256) * 256 + (u % 256) = u
           /\ \A b \in Byte : b # u \div 256 => b * 256 + (u % 256) # u
           /\ \A b \in Byte : b # u % 256 => (u \div 256) * 256 + b # u
<1>1. u \in Nat
  BY Naturals8And16
<1>2. (u \div 256) * 256 + (u % 256) = u /\ (u \div 256) \in Nat /\ (u % 256) \in Nat
  BY <1>1
<1>3. \A b \in Byte : b \in Nat
  BY Naturals8And16
<1>4. ASSUME NEW b \in Byte, b # u \div 256 PROVE b * 256 + (u % 256) # u
  BY <1>2, <1>3, <1>4
<1>5. ASSUME NEW b \in Byte, b # u % 256 PROVE (u \div 256) * 256 + b # u
  BY <1>2, <1>3, <1>5
<1> QED
  BY <1>2, <1>4, <1>5

(***************************************************************************)
(* A payload whose sum matches the checksum behind it is the one that was  *)
(* sent; behind a checksum that does not match comes the end flag, which   *)
(* the machine does not take for the start of a frame.                     *)
(***************************************************************************)
LEMMA ChecksumTells ==
    ASSUME NEW f \in HostFrames, NEW w \in Wires(f), NEW n, n = Len(f.payload)
    PROVE  /\ w[7 + n] * 256 + w[8 + n] = SumOf(DataOf(w, 6 + n)) => DataOf(w, 6 + n) = f.payload
           /\ w[7 + n] * 256 + w[8 + n] # SumOf(DataOf(w, 6 + n)) => w[9 + n] # StartFlag
<1> DEFINE e == Encoded(f)
           p == f.payload
           u == SumOf(p)
           d == DataOf(w, 6 + n)
<1>1. p \in Seq(Byte) /\ n \in Nat /\ n = Len(p)
  BY HostFrameIsFrame
<1>2. /\ \A i \in 1 .. n : e[6 + i] = p[i]
      /\ e[7 + n] = u \div 256 /\ e[8 + n] = u % 256 /\ e[9 + n] = EndFlag
  BY SMTT(30), EncodedBytes
<1>3. /\ u \in Word /\ (u \div 256) * 256 + (u % 256) = u
      /\ \A b \in Byte : b # u \div 256 => b * 256 + (u % 256) # u
      /\ \A b \in Byte : b # u % 256 => (u \div 256) * 256 + b # u
  BY <1>1, SumOfType, BytesOfWord
<1>4. /\ d \in Seq(Byte) /\ Len(d) = n /\ \A i \in 1 .. n : d[i] = w[6 + i]
  <2>1. w \in Seq(Byte) /\ Len(w) = n + 9
    BY WireIsBytes
  <2> DEFINE k == 6 + n
  <2>2. k \in Nat /\ 6 <= k /\ k <= Len(w) /\ k - 6 = n
    BY <1>1, <2>1
  <2> HIDE DEF k
  <2>3. /\ DataOf(w, k) \in Seq(Byte) /\ Len(DataOf(w, k)) = k - 6
        /\ \A i \in 1 .. k - 6 : DataOf(w, k)[i] = w[6 + i]
    BY <2>1, <2>2, DataGrows
  <2> QED
    BY <2>2, <2>3 DEF k
<1>5. EndFlag # StartFlag
  BY DEF EndFlag, StartFlag
<1> HIDE DEF e, p, u, d
<1>6. ASSUME \A i \in 1 .. n : w[6 + i] = e[6 + i] PROVE d = p
  <2>1. \A i \in 1 .. Len(d) : d[i] = p[i]
    BY <1>2, <1>4, <1>6
  <2> QED
    BY <1>1, <1>4, <2>1, SeqEqual
<1>7. CASE w = e
  <2>1. d = p
    BY <1>6, <1>7
  <2>2. w[7 + n] * 256 + w[8 + n] = SumOf(d)
    BY <1>2, <1>3, <1>7, <2>1 DEF u
  <2> QED
    BY <2>1, <2>2 DEF d, p
<1>8. ASSUME NEW i \in 7 .. n + 9, NEW b \in Byte, b # e[i], w[i] = b,
             \A j \in 1 .. n + 9 : j # i => w[j] = e[j]
      PROVE  /\ w[7 + n] * 256 + w[8 + n] = SumOf(d) => d = p
             /\ w[7 + n] * 256 + w[8 + n] # SumOf(d) => w[9 + n] # StartFlag
  <2>1. 7 + n \in 1 .. n + 9 /\ 8 + n \in 1 .. n + 9 /\ 9 + n \in 1 .. n + 9
    BY <1>1
  <2>2. CASE i <= 6 + n
    <3>1. w[7 + n] = e[7 + n] /\ w[8 + n] = e[8 + n] /\ w[9 + n] = EndFlag
      <4>1. 7 + n # i /\ 8 + n # i /\ 9 + n # i
        BY <1>1, <2>2
      <4> QED
        BY SMTT(30), <1>2, <1>8, <2>1, <4>1
    <3> DEFINE k == i - 6
    <3>2. k \in 1 .. n /\ 6 + k = i /\ k \in 1 .. Len(p)
      BY <1>1, <2>2
    <3> DEFINE q == [p EXCEPT ![k] = b]
    <3> HIDE DEF k
    <3>3. b # p[k]
      BY <1>2, <1>8, <3>2
    <3>4. /\ q \in Seq(Byte) /\ Len(q) = n
          /\ \A j \in 1 .. n : q[j] = IF j = k THEN b ELSE p[j]
      BY <1>1, <3>2, ExceptSeq
    <3>5. SumOf(q) # u
      BY <1>1, <3>2, <3>3, SumOfChanged DEF u
    <3> HIDE DEF q
    <3>6. d = q
      <4>1. ASSUME NEW j \in 1 .. n PROVE d[j] = q[j]
        <5>1. 6 + j \in 1 .. n + 9 /\ (j # k => 6 + j # i)
          BY <1>1, <3>2
        <5>2. CASE j = k
          BY <1>4, <1>8, <3>2, <3>4, <5>2
        <5>3. CASE j # k
          <6>1. w[6 + j] = p[j]
            BY <1>2, <1>8, <5>1, <5>3
          <6> QED
            BY <1>4, <3>4, <5>3, <6>1
        <5> QED
          BY <5>2, <5>3
      <4> QED
        BY <1>4, <3>4, <4>1, SeqEqual
    <3>7. w[7 + n] * 256 + w[8 + n] = u
      BY <1>2, <1>3, <3>1
    <3> QED
      BY <1>5, <3>1, <3>5, <3>6, <3>7
  <2>3. CASE i > 6 + n
    <3>1. \A j \in 1 .. n : w[6 + j] = e[6 + j]
      <4> SUFFICES ASSUME NEW j \in 1 .. n PROVE w[6 + j] = e[6 + j]
        OBVIOUS
      <4>1. 6 + j \in 1 .. n + 9 /\ 6 + j # i
        BY <1>1, <2>3
      <4> QED
        BY <1>8, <4>1
    <3>2. d = p
      BY <1>6, <3>1
    <3>3. CASE i = 9 + n
      <4>1. 7 + n # i /\ 8 + n # i
        BY <1>1, <3>3
      <4>2. w[7 + n] = e[7 + n] /\ w[8 + n] = e[8 + n]
        BY <1>8, <2>1, <4>1
      <4>3. w[7 + n] * 256 + w[8 + n] = SumOf(d)
        BY <1>2, <1>3, <3>2, <4>2 DEF u
      <4> QED
        BY <3>2, <4>3
    <3>4. CASE i # 9 + n
      <4>1. 9 + n # i
        BY <3>4
      <4>2. w[9 + n] # StartFlag
        BY <1>2, <1>5, <1>8, <2>1, <4>1
      <4> QED
        BY <3>2, <4>2
    <3> QED
      BY <3>3, <3>4
  <2> QED
    BY <1>1, <2>2, <2>3
<1>9. \/ w = e
      \/ \E i \in 7 .. n + 9 : \E b \in Byte :
            b # e[i] /\ w[i] = b /\ \A j \in 1 .. n + 9 : j # i => w[j] = e[j]
  BY WireDiffers DEF e
<1> QED
  BY <1>7, <1>8, <1>9 DEF d, p

-----------------------------------------------------------------------------
(***************************************************************************)
(* The receive side of a paced host.  Exactly one wire is under way, and   *)
(* the fields of the machine are those that its first k bytes make, until  *)
(* the frame is complete and then with the unpacker.                       *)
(***************************************************************************)
Coming == Joined(chunk, line)

Machine(s, c, e, t, u, p, b) ==
    /\ state = s /\ count = c /\ expected = e /\ type = t
    /\ sum = u /\ compare = p /\ input = b

Fresh == Machine("START_FLAG", 0, 0, SeNone, 0, 0, <<>>)

InHead(f, k) ==
    \/ k = 0 /\ Fresh
    \/ k = 1 /\ Machine("TYPE", 0, 0, SeNone, 0, 0, <<>>)
    \/ k = 2 /\ Machine("LENGTH", 0, 0, f.type, 0, 0, <<>>)
    \/ k = 3 /\ Machine("LENGTH", 1, Upper8(Len(f.payload)), f.type, 0, 0, <<>>)
    \/ k = 4 /\ Machine("LENGTH", 2, Upper16(Len(f.payload)), f.type, 0, 0, <<>>)
    \/ k = 5 /\ Machine("LENGTH", 3, Upper24(Len(f.payload)), f.type, 0, 0, <<>>)

InData(f, w, k) ==
    /\ k \in 6 .. 5 + Len(f.payload)
    /\ Machine("DATA", 0, Len(f.payload), f.type, SumOf(DataOf(w, k)), 0, DataOf(w, k))

\* The payload may be damaged until the checksum has been compared.
InChecksum(n, f, w, k) ==
    \/ /\ k = 6 + n
       /\ Machine("CHECKSUM", 0, n, f.type, SumOf(DataOf(w, 6 + n)), 0, DataOf(w, 6 + n))
    \/ /\ k = 7 + n
       /\ Machine("CHECKSUM", 1, n, f.type, SumOf(DataOf(w, 6 + n)), w[7 + n], DataOf(w, 6 + n))

\* After the checksum, taken or refused
AtEnd(n, f, w, k) ==
    /\ k = 8 + n
    /\ \/ Machine("END_FLAG", 0, n, f.type, 0, 0, f.payload)
       \/ Fresh /\ w[9 + n] # StartFlag

HasTaken(f, w, k) ==
    \/ InHead(f, k) \/ InData(f, w, k)
    \/ InChecksum(Len(f.payload), f, w, k) \/ AtEnd(Len(f.payload), f, w, k)

UnderWayAt(f, w, k) ==
    awaited = {f} /\ Coming = Rest(w, k) /\ HasTaken(f, w, k)

UnderWay ==
    /\ ~ready /\ pending = SeNone
    /\ \E f \in HostFrames : \E w \in Wires(f) : \E k \in 0 .. Len(f.payload) + 8 :
          UnderWayAt(f, w, k)

Quiet ==
    /\ Coming = <<>> /\ ~ready /\ pending = SeNone /\ Fresh
    /\ awaited = {} \/ \E f \in HostFrames : awaited = {f}

Waits ==
    /\ Coming = <<>> /\ ready /\ pending = SeNone
    /\ \E f \in HostFrames :
          awaited = {f} /\ Machine("START_FLAG", 0, 0, f.type, 0, 0, f.payload)

HandedOver ==
    /\ Coming = <<>> /\ ~ready
    /\ \E f \in HostFrames :
          /\ awaited = {f} /\ pending = f.type
          /\ Machine("START_FLAG", 0, 0, SeNone, 0, 0, f.payload)

RxInv == UnderWay \/ Quiet \/ Waits \/ HandedOver

\* A paced host awaits one answer at a time, also behind a leftover.
PacedAwaits == awaited = {} \/ \E f \in HostFrames : awaited = {f}

\* Without a leftover the machine is where RxInv says.
CleanRxInv == PacedAwaits /\ (spoilt \/ RxInv)

\* Taking the first byte of what is put takes the first byte of the whole stream.
LEMMA JoinedHeadAndTail ==
    ASSUME NEW s \in Seq(Byte), NEW t \in Seq(Byte), s # <<>>
    PROVE  /\ Head(s) = Head(Joined(s, t))
           /\ Joined(Tail(s), t) = Tail(Joined(s, t))
<1> DEFINE r == Joined(s, t)
           v == Tail(s)
           q == Joined(v, t)
<1>1. /\ Len(s) \in Nat /\ Len(t) \in Nat /\ Len(s) > 0
      /\ v \in Seq(Byte) /\ Len(v) = Len(s) - 1 /\ Head(s) = s[1]
      /\ \A i \in 1 .. Len(v) : v[i] = s[i + 1]
  BY LenProperties, EmptySeq, HeadTailProperties
<1> HIDE DEF v
<1>2. /\ r \in Seq(Byte) /\ Len(r) = Len(s) + Len(t)
      /\ \A i \in 1 .. Len(s) + Len(t) : r[i] = IF i <= Len(s) THEN s[i] ELSE t[i - Len(s)]
  BY ConcatProperties DEF Joined
<1>3. /\ q \in Seq(Byte) /\ Len(q) = Len(v) + Len(t)
      /\ \A i \in 1 .. Len(v) + Len(t) : q[i] = IF i <= Len(v) THEN v[i] ELSE t[i - Len(v)]
  BY <1>1, ConcatProperties DEF Joined
<1> HIDE DEF r, q
<1>4. r # <<>> /\ Head(s) = Head(r)
  <2>1. Len(r) > 0 /\ 1 \in 1 .. Len(s) + Len(t) /\ 1 <= Len(s)
    BY <1>1, <1>2
  <2>2. r # <<>>
    BY <1>2, <2>1, EmptySeq
  <2>3. Head(r) = r[1]
    BY <1>2, <2>2
  <2> QED
    BY <1>1, <1>2, <2>1, <2>2, <2>3
<1>5. /\ Tail(r) \in Seq(Byte) /\ Len(Tail(r)) = Len(r) - 1
      /\ \A i \in 1 .. Len(Tail(r)) : Tail(r)[i] = r[i + 1]
  BY <1>2, <1>4, HeadTailProperties
<1> DEFINE x == Tail(r)
<1> HIDE DEF x
<1>6. \A i \in 1 .. Len(q) : q[i] = x[i]
  <2> SUFFICES ASSUME NEW i \in 1 .. Len(q) PROVE q[i] = x[i]
    OBVIOUS
  <2>1. i \in 1 .. Len(v) + Len(t) /\ i + 1 \in 1 .. Len(s) + Len(t) /\ i \in 1 .. Len(Tail(r))
    BY <1>1, <1>2, <1>3, <1>5
  <2>2. x[i] = r[i + 1]
    BY <1>5, <2>1 DEF x
  <2>3. CASE i <= Len(v)
    <3>1. i \in 1 .. Len(v) /\ i + 1 <= Len(s)
      BY <1>1, <2>1, <2>3
    <3> QED
      BY <1>1, <1>2, <1>3, <2>1, <2>2, <2>3, <3>1
  <2>4. CASE ~(i <= Len(v))
    <3>1. ~(i + 1 <= Len(s)) /\ (i + 1) - Len(s) = i - Len(v)
      BY <1>1, <2>1, <2>4
    <3> QED
      BY <1>2, <1>3, <2>1, <2>2, <2>4, <3>1
  <2> QED
    BY <2>3, <2>4
<1>7. Len(q) = Len(x) /\ x \in Seq(Byte)
  BY <1>1, <1>2, <1>3, <1>5 DEF x
<1>8. q = x
  BY <1>3, <1>6, <1>7, SeqEqual
<1> QED
  BY <1>4, <1>8 DEF x, r, q, v

\* The rest of a frame loses its first byte.
LEMMA RestByByte ==
    ASSUME NEW w \in Seq(Byte), NEW k \in Nat, k < Len(w)
    PROVE  /\ Head(Rest(w, k)) = w[k + 1]
           /\ Tail(Rest(w, k)) = Rest(w, k + 1)
<1>1. k + 1 \in 1 .. Len(w) /\ Len(w) \in k + 1 .. Len(w) /\ (k + 1) + 1 = k + 1 + 1
  BY LenProperties
<1>2. /\ Head(SubSeq(w, k + 1, Len(w))) = w[k + 1]
      /\ Tail(SubSeq(w, k + 1, Len(w))) = SubSeq(w, (k + 1) + 1, Len(w))
  BY <1>1, HeadTailOfSubSeq
<1> QED
  BY <1>2 DEF Rest

\* The rest of a frame is empty when all of it has been taken, and not before.
LEMMA RestIsRest ==
    ASSUME NEW w \in Seq(Byte)
    PROVE  /\ Rest(w, 0) = w /\ Rest(w, Len(w)) = <<>>
           /\ \A k \in Nat : k < Len(w) => Rest(w, k) # <<>>
<1>1. Len(w) \in Nat
  BY LenProperties
<1>2. Rest(w, 0) = w
  <2>1. SubSeq(w, 1, Len(w)) = w /\ 0 + 1 = 1
    BY SubSeqFull
  <2> QED
    BY <2>1 DEF Rest
<1>3. Rest(w, Len(w)) = <<>>
  BY <1>1, SubSeqEmpty DEF Rest
<1>4. ASSUME NEW k \in Nat, k < Len(w) PROVE Rest(w, k) # <<>>
  <2>1. k \in 0 .. Len(w)
    BY <1>1, <1>4
  <2>2. Len(SubSeq(w, k + 1, Len(w))) = Len(w) - k
    BY <2>1, BeginningAndRest
  <2>3. Len(Rest(w, k)) > 0 /\ Len(<<>>) = 0
    BY <1>1, <1>4, <2>2 DEF Rest
  <2> QED
    BY <2>3
<1> QED
  BY <1>2, <1>3, <1>4

\* A check looks at the next byte of the wire.
LEMMA NextOfWire ==
    ASSUME RxTyped, NEW w \in Seq(Byte), NEW k \in Nat, k < Len(w), Coming = Rest(w, k),
           NEW s, Takes(s)
    PROVE  Head(chunk) = w[k + 1] /\ Coming' = Rest(w, k + 1)
<1>1. chunk # <<>> /\ chunk' = Tail(chunk) /\ line' = line
  BY DEF Takes, lineVars
<1>2. chunk \in Seq(Byte) /\ line \in Seq(Byte)
  BY DEF RxTyped, LineTyped
<1>3. Head(chunk) = Head(Joined(chunk, line)) /\ Joined(Tail(chunk), line) = Tail(Joined(chunk, line))
  BY <1>1, <1>2, JoinedHeadAndTail
<1>4. Head(Rest(w, k)) = w[k + 1] /\ Tail(Rest(w, k)) = Rest(w, k + 1)
  BY RestByByte
<1>5. Coming = Joined(chunk, line) /\ Coming' = Joined(chunk', line')
  BY DEF Coming
<1> HIDE DEF Coming
<1> QED
  BY <1>1, <1>3, <1>4, <1>5

\* Nothing is coming exactly if put and the line are empty.
LEMMA NothingComing ==
    ASSUME RxTyped
    PROVE  Coming = <<>> <=> chunk = <<>> /\ line = <<>>
<1>1. chunk \in Seq(Byte) /\ line \in Seq(Byte)
  BY DEF RxTyped, LineTyped
<1>2. Len(Coming) = Len(chunk) + Len(line) /\ Coming \in Seq(Byte)
  BY <1>1, JoinedProperties DEF Coming
<1>3. Len(chunk) \in Nat /\ Len(line) \in Nat
  BY <1>1, LenProperties
<1> HIDE DEF Coming
<1>4. (chunk = <<>> <=> Len(chunk) = 0) /\ (line = <<>> <=> Len(line) = 0) /\ (Coming = <<>> <=> Len(Coming) = 0)
  BY <1>1, <1>2, EmptySeq
<1> QED
  BY <1>2, <1>3, <1>4

\* The state decides which check takes the byte.
LEMMA WhichCheck ==
    ASSUME Checks
    PROVE  /\ Takes(StateNow)
           /\ StateNow = "START_FLAG" => CheckStartFlag
           /\ StateNow = "TYPE"       => CheckType
           /\ StateNow = "LENGTH"     => CheckLength
           /\ StateNow = "DATA"       => CheckData
           /\ StateNow = "CHECKSUM"   => CheckChecksum
           /\ StateNow = "END_FLAG"   => CheckEndFlag
<1>1. CheckStartFlag => Takes(StateNow) /\ StateNow = "START_FLAG"
  BY DEF CheckStartFlag, Takes
<1>2. CheckType => Takes(StateNow) /\ StateNow = "TYPE"
  BY DEF CheckType, Takes
<1>3. CheckLength => Takes(StateNow) /\ StateNow = "LENGTH"
  BY DEF CheckLength, Takes
<1>4. CheckData => Takes(StateNow) /\ StateNow = "DATA"
  BY DEF CheckData, Takes
<1>5. CheckChecksum => Takes(StateNow) /\ StateNow = "CHECKSUM"
  BY DEF CheckChecksum, Takes
<1>6. CheckEndFlag => Takes(StateNow) /\ StateNow = "END_FLAG"
  BY DEF CheckEndFlag, Takes
<1> QED
  BY <1>1, <1>2, <1>3, <1>4, <1>5, <1>6 DEF Checks

\* The machine has moved on within the wire.
LEMMA StaysUnderWay ==
    ASSUME RxTyped, ~ready, pending = SeNone,
           NEW f \in HostFrames, NEW w \in Wires(f), NEW k \in 0 .. Len(f.payload) + 7,
           awaited = {f}, Coming = Rest(w, k), NEW s, Takes(s),
           ready' = ready, HasTaken(f, w, k + 1)'
    PROVE  UnderWay'
<1>1. w \in Seq(Byte) /\ Len(w) = Len(f.payload) + 9 /\ Len(f.payload) \in Nat
  BY WireIsBytes, HostFrameIsFrame
<1>2. k \in Nat /\ k < Len(w) /\ k + 1 \in 0 .. Len(f.payload) + 8
  BY <1>1
<1>3. Coming' = Rest(w, k + 1)
  BY <1>1, <1>2, NextOfWire
<1>4. pending' = SeNone /\ awaited' = {f} /\ ~ready'
  BY DEF Takes, lineVars
<1>5. UnderWayAt(f, w, k + 1)'
  BY <1>3, <1>4 DEF UnderWayAt
<1> QED
  BY <1>2, <1>4, <1>5 DEF UnderWay

\* The machine has come to the end of the wire.
LEMMA EndsWire ==
    ASSUME RxTyped, NEW f \in HostFrames, NEW w \in Wires(f),
           Coming = Rest(w, Len(f.payload) + 8), NEW s, Takes(s)
    PROVE  Coming' = <<>> /\ Head(chunk) = w[9 + Len(f.payload)]
<1>1. w \in Seq(Byte) /\ Len(w) = Len(f.payload) + 9 /\ Len(f.payload) \in Nat
  BY WireIsBytes, HostFrameIsFrame
<1>2. /\ Len(f.payload) + 8 \in Nat /\ Len(f.payload) + 8 < Len(w)
      /\ (Len(f.payload) + 8) + 1 = Len(w) /\ Len(w) = 9 + Len(f.payload)
  BY <1>1
<1>3. Coming' = Rest(w, Len(w)) /\ Head(chunk) = w[Len(w)]
  BY <1>1, <1>2, NextOfWire
<1> QED
  BY <1>1, <1>2, <1>3, RestIsRest

\* The start flag, the type and the length of a wire
LEMMA TakesHead ==
    ASSUME RxTyped, ~ready, pending = SeNone, Checks,
           NEW f \in HostFrames, NEW w \in Wires(f), NEW k \in 0 .. Len(f.payload) + 8,
           awaited = {f}, Coming = Rest(w, k), InHead(f, k), Capacity <= LongestLength
    PROVE  UnderWay'
<1> DEFINE n == Len(f.payload)
           t == f.type
<1>1. n \in Nat /\ t \in Byte /\ n <= LongestLength
  <2>1. n \in Nat /\ n <= Capacity /\ t \in Byte /\ LongestLength \in Nat
    BY HostFrameIsFrame, SMT DEF LongestLength
  <2> HIDE DEF n, t
  <2> QED
    BY <2>1, FramedRxAssumption
<1>2. w \in Seq(Byte) /\ Len(w) = n + 9
  BY WireIsBytes
<1> HIDE DEF n, t
<1>3. k \in Nat /\ k \in 0 .. 5 /\ k < Len(w) /\ k \in 0 .. n + 7
  BY <1>1, <1>2 DEF InHead
<1>4. Head(chunk) = w[k + 1] /\ Takes(StateNow)
  BY <1>2, <1>3, WhichCheck, NextOfWire
<1>5. /\ w[1] = StartFlag /\ w[2] = t /\ w[3] = Upper8(n)
      /\ Upper8(n) * 256 + w[4] = Upper16(n)
      /\ Upper16(n) * 256 + w[5] = Upper24(n)
      /\ Upper24(n) * 256 + w[6] = n
  <2>1. \A i \in 1 .. 6 : w[i] = HeadOf(t, n)[i]
    BY WireHead DEF n, t
  <2>2. w[1] = HeadOf(t, n)[1] /\ w[2] = HeadOf(t, n)[2] /\ w[3] = HeadOf(t, n)[3]
        /\ w[4] = HeadOf(t, n)[4] /\ w[5] = HeadOf(t, n)[5] /\ w[6] = HeadOf(t, n)[6]
    BY <2>1
  <2>3. /\ HeadOf(t, n)[1] = StartFlag /\ HeadOf(t, n)[2] = t
        /\ HeadOf(t, n)[3] = Upper8(n)
        /\ Upper8(n) * 256 + HeadOf(t, n)[4] = Upper16(n)
        /\ Upper16(n) * 256 + HeadOf(t, n)[5] = Upper24(n)
        /\ Upper24(n) * 256 + HeadOf(t, n)[6] = n
    BY <1>1, HeadBytes
  <2> QED
    BY <2>2, <2>3
<1>6. ASSUME ready' = ready, InHead(f, k + 1)' \/ HasTaken(f, w, k + 1)' PROVE UnderWay'
  <2>1. HasTaken(f, w, k + 1)'
    BY <1>6 DEF HasTaken
  <2>2. k \in 0 .. Len(f.payload) + 7
    BY <1>3 DEF n
  <2> QED
    BY <1>4, <1>6, <2>1, <2>2, StaysUnderWay
<1>7. CASE k = 0 /\ Fresh
  <2>1. StateNow = "START_FLAG"
    BY <1>7 DEF Fresh, Machine, StateNow
  <2>2. CheckStartFlag
    BY <2>1, WhichCheck
  <2>3. Machine("TYPE", 0, 0, SeNone, 0, 0, <<>>)' /\ ready' = ready
    BY <1>4, <1>5, <1>7, <2>2 DEF CheckStartFlag, Fresh, Machine
  <2>4. k + 1 = 1
    BY <1>7
  <2>5. InHead(f, k + 1)'
    BY <2>3, <2>4 DEF InHead
  <2> QED
    BY <1>6, <2>3, <2>5
<1>8. CASE k = 1 /\ Machine("TYPE", 0, 0, SeNone, 0, 0, <<>>)
  <2>1. StateNow = "TYPE"
    BY <1>8 DEF Machine, StateNow
  <2>2. CheckType
    BY <2>1, WhichCheck
  <2>3. Head(chunk) = t
    BY <1>4, <1>5, <1>8
  <2>4. Machine("LENGTH", 0, 0, t, 0, 0, <<>>)' /\ ready' = ready
    BY <1>8, <2>2, <2>3 DEF CheckType, Machine
  <2>5. k + 1 = 2
    BY <1>8
  <2>6. InHead(f, k + 1)'
    BY <2>4, <2>5 DEF InHead, t
  <2> QED
    BY <1>6, <2>4, <2>6
<1>9. ASSUME NEW c \in 0 .. 2, NEW e, NEW x, Machine("LENGTH", c, e, t, 0, 0, <<>>), e * 256 + Head(chunk) = x
      PROVE  Machine("LENGTH", c + 1, x, t, 0, 0, <<>>)' /\ ready' = ready
  <2>1. StateNow = "LENGTH"
    BY <1>9 DEF Machine, StateNow
  <2>2. CheckLength
    BY <2>1, WhichCheck
  <2>3. count = c /\ expected = e /\ type = t /\ sum = 0 /\ compare = 0 /\ input = <<>>
    BY <1>9 DEF Machine
  <2>4. count' = c + 1
    BY <2>2, <2>3 DEF CheckLength, CountAfter, LengthBytes
  <2>5. state' = "LENGTH"
    BY <2>2, <2>3 DEF CheckLength, LengthBytes
  <2>6. expected' = x
    BY <1>9, <2>2, <2>3 DEF CheckLength
  <2>7. UNCHANGED <<type, sum, compare, ready, input>>
    BY <2>2 DEF CheckLength
  <2> QED
    BY <2>3, <2>4, <2>5, <2>6, <2>7 DEF Machine
<1>10. CASE k = 2 /\ Machine("LENGTH", 0, 0, t, 0, 0, <<>>)
  <2>1. Head(chunk) = Upper8(n) /\ Upper8(n) \in Nat
    <3>1. k + 1 = 3
      BY <1>10
    <3> QED
      BY <1>1, <1>4, <1>5, <3>1, UpperNaturals
  <2>2. 0 * 256 + Head(chunk) = Upper8(n)
    BY <2>1
  <2>3. Machine("LENGTH", 0 + 1, Upper8(n), t, 0, 0, <<>>)' /\ ready' = ready
    BY <1>9, <1>10, <2>2
  <2>4. k + 1 = 3 /\ 0 + 1 = 1
    BY <1>10
  <2>5. InHead(f, k + 1)'
    BY <2>3, <2>4 DEF InHead, t, n
  <2> QED
    BY <1>6, <2>3, <2>5
<1>11. CASE k = 3 /\ Machine("LENGTH", 1, Upper8(n), t, 0, 0, <<>>)
  <2>1. k + 1 = 4 /\ 1 + 1 = 2
    BY <1>11
  <2>2. Upper8(n) * 256 + Head(chunk) = Upper16(n)
    BY <1>4, <1>5, <2>1
  <2>3. Machine("LENGTH", 1 + 1, Upper16(n), t, 0, 0, <<>>)' /\ ready' = ready
    BY <1>9, <1>11, <2>2
  <2>4. InHead(f, k + 1)'
    BY <2>1, <2>3 DEF InHead, t, n
  <2> QED
    BY <1>6, <2>3, <2>4
<1>12. CASE k = 4 /\ Machine("LENGTH", 2, Upper16(n), t, 0, 0, <<>>)
  <2>1. k + 1 = 5 /\ 2 + 1 = 3
    BY <1>12
  <2>2. Upper16(n) * 256 + Head(chunk) = Upper24(n)
    BY <1>4, <1>5, <2>1
  <2>3. Machine("LENGTH", 2 + 1, Upper24(n), t, 0, 0, <<>>)' /\ ready' = ready
    BY <1>9, <1>12, <2>2
  <2>4. InHead(f, k + 1)'
    BY <2>1, <2>3 DEF InHead, t, n
  <2> QED
    BY <1>6, <2>3, <2>4
<1>13. CASE k = 5 /\ Machine("LENGTH", 3, Upper24(n), t, 0, 0, <<>>)
  <2>1. k + 1 = 6
    BY <1>13
  <2>2. StateNow = "LENGTH"
    BY <1>13 DEF Machine, StateNow
  <2>3. CheckLength
    BY <2>2, WhichCheck
  <2>4. Upper24(n) * 256 + Head(chunk) = n
    BY <1>4, <1>5, <2>1
  <2>5. count = 3 /\ expected = Upper24(n) /\ type = t /\ sum = 0 /\ compare = 0 /\ input = <<>>
    BY <1>13 DEF Machine
  <2>6. count' = 0
    BY <2>3, <2>5 DEF CheckLength, CountAfter, LengthBytes
  <2>7. expected' = n
    BY <2>3, <2>4, <2>5 DEF CheckLength
  <2>8. UNCHANGED <<type, sum, compare, ready, input>>
    BY <2>3 DEF CheckLength
  <2>9. state' = IF n = 0 THEN "CHECKSUM" ELSE "DATA"
    <3>1. state' = AfterData(Len(input), expected')
      BY <2>3, <2>5 DEF CheckLength, LengthBytes
    <3>2. Len(input) = 0
      BY <2>5
    <3> QED
      BY <2>7, <3>1, <3>2 DEF AfterData
  <2>10. DataOf(w, 6) = <<>>
    BY SubSeqEmpty DEF DataOf
  <2>11. CASE n = 0
    <3>1. Machine("CHECKSUM", 0, n, t, 0, 0, <<>>)'
      BY <2>5, <2>6, <2>7, <2>8, <2>9, <2>11 DEF Machine
    <3>2. 6 + n = 6
      BY <2>11
    <3>3. InChecksum(n, f, w, k + 1)'
      BY <2>1, <2>10, <3>1, <3>2, SumOfEmpty DEF InChecksum, t
    <3> QED
      BY <1>6, <2>8, <3>3 DEF HasTaken, n
  <2>12. CASE n # 0
    <3>1. Machine("DATA", 0, n, t, 0, 0, <<>>)'
      BY <2>5, <2>6, <2>7, <2>8, <2>9, <2>12 DEF Machine
    <3>2. k + 1 \in 6 .. 5 + n
      BY <1>1, <2>1, <2>12
    <3>3. InData(f, w, k + 1)'
      BY <2>1, <2>10, <3>1, <3>2, SumOfEmpty DEF InData, n, t
    <3> QED
      BY <1>6, <2>8, <3>3 DEF HasTaken
  <2> QED
    BY <2>11, <2>12
<1> QED
  BY <1>7, <1>8, <1>10, <1>11, <1>12, <1>13 DEF InHead, n, t

\* A byte of the payload: it goes into the buffer and into the sum.
LEMMA TakesData ==
    ASSUME RxTyped, ~ready, pending = SeNone, Checks,
           NEW f \in HostFrames, NEW w \in Wires(f), NEW k \in 0 .. Len(f.payload) + 8,
           awaited = {f}, Coming = Rest(w, k), InData(f, w, k)
    PROVE  UnderWay'
<1> DEFINE n == Len(f.payload)
           d == DataOf(w, k)
<1>1. n \in Nat /\ n <= Capacity /\ Capacity \in Nat
  BY HostFrameIsFrame, FramedRxAssumption
<1>2. w \in Seq(Byte) /\ Len(w) = n + 9
  BY WireIsBytes
<1>3. k \in 6 .. 5 + n /\ Machine("DATA", 0, n, f.type, SumOf(d), 0, d)
  BY DEF InData
<1> HIDE DEF n, d
<1>4. /\ k \in Nat /\ 6 <= k /\ k + 1 <= Len(w) /\ k < Len(w) /\ k <= Len(w)
      /\ k \in 0 .. n + 7 /\ (k - 6) + 1 = k - 5 /\ k - 6 < n
  BY <1>1, <1>2, <1>3
<1>5. d \in Seq(Byte) /\ Len(d) = k - 6 /\ DataOf(w, k + 1) = Append(d, w[k + 1])
  BY <1>2, <1>4, DataGrows DEF d
<1>6. state = "DATA" /\ count = 0 /\ expected = n /\ type = f.type /\ sum = SumOf(d)
      /\ compare = 0 /\ input = d
  BY <1>3 DEF Machine
<1>7. StateNow = "DATA"
  <2>1. Len(input) # expected
    BY <1>1, <1>4, <1>5, <1>6
  <2> QED
    BY <1>6, <2>1 DEF StateNow, AfterData
<1>8. CheckData /\ Takes(StateNow)
  BY <1>7, WhichCheck
<1>9. Head(chunk) = w[k + 1] /\ w[k + 1] \in Byte
  <2>1. k + 1 \in 1 .. Len(w)
    BY <1>2, <1>4
  <2> QED
    BY <1>2, <1>4, <1>8, <2>1, NextOfWire, ElementOfSeq
<1> DEFINE b == w[k + 1]
           r == DataOf(w, k + 1)
<1>10. r = Append(d, b) /\ b \in Byte /\ Head(chunk) = b
  BY <1>5, <1>9
<1> HIDE DEF b, r
<1>11. sum' = SumOf(r)
  <2>1. sum' = (SumOf(d) + b) % 65536
    BY <1>6, <1>8, <1>10 DEF CheckData
  <2>2. SumOf(Append(d, b)) = (SumOf(d) + b) % 65536
    BY <1>5, <1>10, SumOfAppend
  <2> QED
    BY <1>10, <2>1, <2>2
<1>12. input' = r
  <2>1. Len(input) < Capacity
    BY <1>1, <1>4, <1>5, <1>6
  <2> QED
    BY <1>6, <1>8, <1>10, <2>1 DEF CheckData, Written
<1>13. Len(r) = k - 5
  <2>1. Len(Append(d, b)) = Len(d) + 1
    BY <1>5, <1>10
  <2> QED
    BY <1>4, <1>5, <1>10, <2>1
<1>14. UNCHANGED <<count, expected, type, compare, ready>> /\ state' = AfterData(Len(input'), expected)
  BY <1>8 DEF CheckData
<1>15. HasTaken(f, w, k + 1)'
  <2>1. CASE k - 5 = n
    <3>1. state' = "CHECKSUM"
      BY <1>6, <1>12, <1>13, <1>14, <2>1 DEF AfterData
    <3>2. k + 1 = 6 + n
      BY <1>1, <1>4, <2>1
    <3>3. Machine("CHECKSUM", 0, n, f.type, SumOf(r), 0, r)'
      BY <1>6, <1>11, <1>12, <1>14, <3>1 DEF Machine
    <3>4. Machine("CHECKSUM", 0, n, f.type, SumOf(DataOf(w, 6 + n)), 0, DataOf(w, 6 + n))'
      BY <3>2, <3>3 DEF r
    <3>5. InChecksum(n, f, w, k + 1)'
      BY <3>2, <3>4 DEF InChecksum
    <3> QED
      BY <3>5 DEF HasTaken, n
  <2>2. CASE k - 5 # n
    <3>1. state' = "DATA"
      BY <1>6, <1>12, <1>13, <1>14, <2>2 DEF AfterData
    <3>2. k + 1 \in 6 .. 5 + n
      BY <1>1, <1>3, <1>4, <2>2
    <3>3. Machine("DATA", 0, n, f.type, SumOf(r), 0, r)'
      BY <1>6, <1>11, <1>12, <1>14, <3>1 DEF Machine
    <3>4. InData(f, w, k + 1)'
      BY <3>2, <3>3 DEF InData, n, r
    <3> QED
      BY <3>4 DEF HasTaken
  <2> QED
    BY <2>1, <2>2
<1>16. k \in 0 .. Len(f.payload) + 7
  BY <1>4 DEF n
<1> QED
  BY <1>8, <1>14, <1>15, <1>16, StaysUnderWay

\* A byte of the checksum: after the second one it is compared with the sum.
LEMMA TakesChecksum ==
    ASSUME RxTyped, ~ready, pending = SeNone, Checks,
           NEW f \in HostFrames, NEW w \in Wires(f), NEW k \in 0 .. Len(f.payload) + 8,
           awaited = {f}, Coming = Rest(w, k), InChecksum(Len(f.payload), f, w, k)
    PROVE  UnderWay'
<1> DEFINE n == Len(f.payload)
           d == DataOf(w, 6 + n)
<1>1. n \in Nat /\ w \in Seq(Byte) /\ Len(w) = n + 9
  BY HostFrameIsFrame, WireIsBytes
<1>2. \/ k = 6 + n /\ Machine("CHECKSUM", 0, n, f.type, SumOf(d), 0, d)
      \/ k = 7 + n /\ Machine("CHECKSUM", 1, n, f.type, SumOf(d), w[7 + n], d)
  BY DEF InChecksum
<1>3. /\ w[7 + n] * 256 + w[8 + n] = SumOf(d) => d = f.payload
      /\ w[7 + n] * 256 + w[8 + n] # SumOf(d) => w[9 + n] # StartFlag
  BY ChecksumTells
<1> HIDE DEF n, d
<1>4. StateNow = "CHECKSUM"
  BY <1>2 DEF Machine, StateNow
<1>5. CheckChecksum /\ Takes(StateNow)
  BY <1>4, WhichCheck
<1>6. k \in Nat /\ k < Len(w) /\ k \in 0 .. n + 7
  BY <1>1, <1>2
<1>7. Head(chunk) = w[k + 1]
  BY <1>1, <1>5, <1>6, NextOfWire
<1>8. ASSUME ready' = ready, HasTaken(f, w, k + 1)' PROVE UnderWay'
  <2>1. k \in 0 .. Len(f.payload) + 7
    BY <1>6 DEF n
  <2> QED
    BY <1>5, <1>8, <2>1, StaysUnderWay
<1>9. CASE k = 6 + n /\ Machine("CHECKSUM", 0, n, f.type, SumOf(d), 0, d)
  <2>1. state = "CHECKSUM" /\ count = 0 /\ expected = n /\ type = f.type /\ sum = SumOf(d)
        /\ compare = 0 /\ input = d
    BY <1>9 DEF Machine
  <2>2. w[7 + n] \in Byte /\ Head(chunk) = w[7 + n] /\ k + 1 = 7 + n
    <3>1. k + 1 = 7 + n /\ 7 + n \in 1 .. Len(w)
      BY <1>1, <1>9
    <3> QED
      BY <1>1, <1>7, <3>1, ElementOfSeq
  <2>3. compare * 256 + Head(chunk) = w[7 + n]
    <3>1. Head(chunk) \in Nat
      BY <2>2, Naturals8And16
    <3>2. compare * 256 + Head(chunk) = Head(chunk)
      BY <2>1, <3>1
    <3> QED
      BY <2>2, <3>2
  <2>4. /\ state' = "CHECKSUM" /\ count' = count + 1 /\ compare' = compare * 256 + Head(chunk)
        /\ UNCHANGED <<expected, type, sum, ready, input>>
    BY <1>5, <2>1 DEF CheckChecksum, ChecksumBytes
  <2>5. Machine("CHECKSUM", 1, n, f.type, SumOf(d), w[7 + n], d)'
    BY <2>1, <2>3, <2>4 DEF Machine
  <2>6. InChecksum(n, f, w, k + 1)'
    BY <2>2, <2>5 DEF InChecksum, d
  <2> QED
    BY <1>8, <2>4, <2>6 DEF HasTaken, n
<1>10. CASE k = 7 + n /\ Machine("CHECKSUM", 1, n, f.type, SumOf(d), w[7 + n], d)
  <2>1. state = "CHECKSUM" /\ count = 1 /\ expected = n /\ type = f.type /\ sum = SumOf(d)
        /\ compare = w[7 + n] /\ input = d
    BY <1>10 DEF Machine
  <2>2. k + 1 = 8 + n /\ Head(chunk) = w[8 + n]
    <3>1. k + 1 = 8 + n
      BY <1>1, <1>10
    <3> QED
      BY <1>7, <3>1
  <2> DEFINE x == compare * 256 + Head(chunk)
  <2>3. x = w[7 + n] * 256 + w[8 + n]
    BY <2>1, <2>2
  <2>4. CASE x = SumOf(d)
    <3>1. d = f.payload
      BY <1>3, <2>3, <2>4
    <3>2. ChecksumMatches(x)
      BY <2>1, <2>4 DEF ChecksumMatches
    <3>3. /\ state' = "END_FLAG" /\ count' = 0 /\ compare' = 0 /\ sum' = 0
          /\ UNCHANGED <<expected, type, ready, input>>
      BY <1>5, <2>1, <3>2 DEF CheckChecksum, ChecksumBytes
    <3>4. Machine("END_FLAG", 0, n, f.type, 0, 0, f.payload)'
      BY <2>1, <3>1, <3>3 DEF Machine
    <3>5. AtEnd(n, f, w, k + 1)'
      BY <2>2, <3>4 DEF AtEnd
    <3> QED
      BY <1>8, <3>3, <3>5 DEF HasTaken, n
  <2>5. CASE x # SumOf(d)
    <3>1. w[9 + n] # StartFlag
      BY <1>3, <2>3, <2>5
    <3>2. ~ChecksumMatches(x)
      BY <2>1, <2>5 DEF ChecksumMatches
    <3>3. ResetRx
      BY <1>5, <2>1, <3>2 DEF CheckChecksum, ChecksumBytes
    <3>4. Fresh' /\ ready' = ready
      <4>1. ready = FALSE
        BY DEF RxTyped, MachineTyped
      <4> QED
        BY <3>3, <4>1 DEF ResetRx, Fresh, Machine
    <3>5. AtEnd(n, f, w, k + 1)'
      BY <2>2, <3>1, <3>4 DEF AtEnd
    <3> QED
      BY <1>8, <3>4, <3>5 DEF HasTaken, n
  <2> QED
    BY <2>4, <2>5
<1> QED
  BY <1>2, <1>9, <1>10

\* The last byte of a wire: the frame is complete, or the machine starts anew.
LEMMA TakesEnd ==
    ASSUME RxTyped, ~ready, pending = SeNone, Checks,
           NEW f \in HostFrames, NEW w \in Wires(f), NEW k \in 0 .. Len(f.payload) + 8,
           awaited = {f}, Coming = Rest(w, k), AtEnd(Len(f.payload), f, w, k)
    PROVE  Quiet' \/ Waits'
<1> DEFINE n == Len(f.payload)
<1>1. n \in Nat
  BY HostFrameIsFrame
<1>2. /\ k = 8 + n
      /\ \/ Machine("END_FLAG", 0, n, f.type, 0, 0, f.payload)
         \/ Fresh /\ w[9 + n] # StartFlag
  BY DEF AtEnd
<1>3. Takes(StateNow)
  BY WhichCheck
<1>4. Coming' = <<>> /\ Head(chunk) = w[9 + n]
  <2>1. k = Len(f.payload) + 8
    BY <1>1, <1>2
  <2> QED
    BY <1>3, <2>1, EndsWire
<1> HIDE DEF n
<1>5. pending' = SeNone /\ awaited' = {f}
  BY <1>3 DEF Takes, lineVars
<1>6. ASSUME Fresh', ~ready' PROVE Quiet'
  BY <1>4, <1>5, <1>6 DEF Quiet
<1>7. CASE Machine("END_FLAG", 0, n, f.type, 0, 0, f.payload)
  <2>1. state = "END_FLAG" /\ count = 0 /\ expected = n /\ type = f.type /\ sum = 0
        /\ compare = 0 /\ input = f.payload
    BY <1>7 DEF Machine
  <2>2. StateNow = "END_FLAG"
    BY <2>1 DEF StateNow
  <2>3. CheckEndFlag
    BY <2>2, WhichCheck
  <2>4. CASE Head(chunk) = EndFlag
    <3>1. /\ state' = "START_FLAG" /\ ready' = TRUE /\ expected' = 0
          /\ UNCHANGED <<count, type, sum, compare, input>>
      BY <2>3, <2>4 DEF CheckEndFlag
    <3>2. Machine("START_FLAG", 0, 0, f.type, 0, 0, f.payload)' /\ ready'
      BY <2>1, <3>1 DEF Machine
    <3> QED
      BY <1>4, <1>5, <3>2 DEF Waits
  <2>5. CASE Head(chunk) # EndFlag
    <3>1. ResetRx
      BY <2>3, <2>5 DEF CheckEndFlag
    <3>2. Fresh' /\ ~ready'
      BY <3>1 DEF ResetRx, Fresh, Machine
    <3> QED
      BY <1>6, <3>2
  <2> QED
    BY <2>4, <2>5
<1>8. CASE Fresh /\ w[9 + n] # StartFlag
  <2>1. StateNow = "START_FLAG"
    BY <1>8 DEF Fresh, Machine, StateNow
  <2>2. CheckStartFlag
    BY <2>1, WhichCheck
  <2>3. Fresh' /\ ~ready'
    BY <1>4, <1>8, <2>2 DEF CheckStartFlag, Fresh, Machine
  <2> QED
    BY <1>6, <2>3
<1> QED
  BY <1>2, <1>7, <1>8

\* As long as a wire is under way there is something of it to come.
LEMMA UnderWayIsComing == ASSUME UnderWay PROVE Coming # <<>>
<1>1. PICK f \in HostFrames : \E w \in Wires(f) : \E k \in 0 .. Len(f.payload) + 8 : UnderWayAt(f, w, k)
  BY DEF UnderWay
<1>1a. PICK w \in Wires(f) : \E k \in 0 .. Len(f.payload) + 8 : UnderWayAt(f, w, k)
  BY <1>1
<1>1b. PICK k \in 0 .. Len(f.payload) + 8 : UnderWayAt(f, w, k)
  BY <1>1a
<1>2. w \in Seq(Byte) /\ Len(w) = Len(f.payload) + 9 /\ Len(f.payload) \in Nat
  BY WireIsBytes, HostFrameIsFrame
<1>3. k \in Nat /\ k < Len(w)
  BY <1>2
<1> QED
  BY <1>1b, <1>2, <1>3, RestIsRest DEF UnderWayAt

\* At the beginning no frame is on its way.
LEMMA RxBegins == Init => RxInv
<1> SUFFICES ASSUME Init PROVE Quiet
  BY DEF RxInv
<1>1. Coming = <<>>
  BY DEF Init, Coming, Joined
<1> QED
  BY <1>1 DEF Init, Quiet, Fresh, Machine

\* A step that leaves the receive side and what is coming alone keeps the invariant.
LEMMA RxUnchanged ==
    ASSUME RxInv, UNCHANGED <<rxVars, input, pending, awaited>>, Coming' = Coming
    PROVE  RxInv'
<1>1. UNCHANGED <<state, count, expected, type, sum, compare, ready, input, pending, awaited>>
  BY DEF rxVars
<1>2. CASE UnderWay
  <2>1. PICK f \in HostFrames : \E w \in Wires(f) : \E k \in 0 .. Len(f.payload) + 8 : UnderWayAt(f, w, k)
    BY <1>2 DEF UnderWay
  <2>1a. PICK w \in Wires(f) : \E k \in 0 .. Len(f.payload) + 8 : UnderWayAt(f, w, k)
    BY <2>1
  <2>1b. PICK k \in 0 .. Len(f.payload) + 8 : UnderWayAt(f, w, k)
    BY <2>1a
  <2>2. UnderWayAt(f, w, k)'
    BY <1>1, <2>1b DEF UnderWayAt, HasTaken, InHead, InData, InChecksum, AtEnd, Fresh, Machine
  <2>3. ~ready' /\ pending' = SeNone
    BY <1>1, <1>2 DEF UnderWay
  <2> QED
    BY <2>2, <2>3 DEF UnderWay, RxInv
<1>3. CASE Quiet
  BY <1>1, <1>3 DEF Quiet, Fresh, Machine, RxInv
<1>4. CASE Waits
  BY <1>1, <1>4 DEF Waits, Machine, RxInv
<1>5. CASE HandedOver
  BY <1>1, <1>5 DEF HandedOver, Machine, RxInv
<1> QED
  BY <1>2, <1>3, <1>4, <1>5 DEF RxInv

\* A put moves bytes from the line into the call, and changes nothing of the stream.
LEMMA PutKeepsRx ==
    ASSUME RxTyped, RxInv, Put
    PROVE  RxInv'
<1>1. PICK n \in 1 .. Len(line) :
        /\ line' = SubSeq(line, n + 1, Len(line))
        /\ chunk' = IF ready THEN <<>> ELSE SubSeq(line, 1, n)
  BY DEF Put
<1>2. chunk = <<>> /\ pending = SeNone /\ UNCHANGED <<rxVars, input, pending, awaited>>
  BY DEF Put
<1>3. line \in Seq(Byte) /\ Len(line) \in Nat
  BY LenProperties DEF RxTyped, LineTyped
<1>4. line # <<>>
  BY <1>1, <1>3, EmptySeq
<1>5. Coming # <<>>
  BY <1>4, NothingComing
<1>6. ~ready
  BY <1>5 DEF RxInv, UnderWay, Quiet, Waits, HandedOver
<1>7. Joined(chunk', line') = line
  <2>1. n \in 0 .. Len(line)
    BY <1>3
  <2>2. SubSeq(line, 1, n) \o SubSeq(line, n + 1, Len(line)) = line
    BY <1>3, <2>1, BeginningAndRest
  <2>3. chunk' = SubSeq(line, 1, n)
    BY <1>1, <1>6
  <2> QED
    BY <1>1, <2>2, <2>3, Zenon DEF Joined
<1>8. Joined(chunk, line) = line
  BY <1>2, <1>3, JoinedProperties
<1>9. Coming' = Coming
  BY <1>7, <1>8 DEF Coming
<1> QED
  BY <1>2, <1>9, RxUnchanged

\* Each check takes the byte that belongs to its state.
LEMMA ChecksKeepRx ==
    ASSUME RxTyped, RxInv, Checks, Capacity <= LongestLength
    PROVE  RxInv'
<1>1. Coming # <<>>
  <2>1. chunk # <<>>
    BY WhichCheck DEF Takes
  <2> QED
    BY <2>1, NothingComing
<1>2. UnderWay
  BY <1>1 DEF RxInv, Quiet, Waits, HandedOver
<1>3. PICK f \in HostFrames : \E w \in Wires(f) : \E k \in 0 .. Len(f.payload) + 8 : UnderWayAt(f, w, k)
  BY <1>2 DEF UnderWay
<1>3a. PICK w \in Wires(f) : \E k \in 0 .. Len(f.payload) + 8 : UnderWayAt(f, w, k)
  BY <1>3
<1>3b. PICK k \in 0 .. Len(f.payload) + 8 : UnderWayAt(f, w, k)
  BY <1>3a
<1>4. ~ready /\ pending = SeNone /\ awaited = {f} /\ Coming = Rest(w, k)
  BY <1>2, <1>3b DEF UnderWay, UnderWayAt
<1>5. CASE InHead(f, k)
  BY <1>4, <1>5, TakesHead DEF RxInv
<1>6. CASE InData(f, w, k)
  BY <1>4, <1>6, TakesData DEF RxInv
<1>7. CASE InChecksum(Len(f.payload), f, w, k)
  BY <1>4, <1>7, TakesChecksum DEF RxInv
<1>8. CASE AtEnd(Len(f.payload), f, w, k)
  BY <1>4, <1>8, TakesEnd DEF RxInv
<1> QED
  BY <1>3b, <1>5, <1>6, <1>7, <1>8 DEF UnderWayAt, HasTaken

\* A paced host sends only when nothing is left of the frame before.
LEMMA HostKeepsRx ==
    ASSUME RxTyped, RxInv, HostPaced, NEW f \in HostFrames, HostSends(f) \/ HostSendsAgain(f)
    PROVE  RxInv'
<1>1. Quiet /\ awaited' = {f}
  <2>1. CASE HostSends(f)
    <3>1. Cardinality(awaited) < 1 /\ awaited' = awaited \cup {f}
      BY <2>1 DEF HostSends
    <3>2. \A g : awaited # {g}
      <4> SUFFICES ASSUME NEW g, awaited = {g} PROVE FALSE
        OBVIOUS
      <4>1. Cardinality({g}) = 1
        BY FS_Singleton
      <4> QED
        BY <3>1, <4>1
    <3>3. Quiet /\ awaited = {}
      BY <3>2 DEF RxInv, UnderWay, UnderWayAt, Quiet, Waits, HandedOver
    <3> QED
      BY <3>1, <3>3
  <2>2. CASE HostSendsAgain(f)
    <3>1. f \in awaited /\ awaited' = awaited /\ Idle
      BY <2>2 DEF HostSendsAgain
    <3>2. Coming = <<>>
      BY <3>1, NothingComing DEF Idle
    <3>3. Quiet
      BY <3>1, <3>2, UnderWayIsComing, HostFrameIsFrame DEF RxInv, Waits, HandedOver, Idle
    <3> QED
      BY <3>1, <3>3 DEF Quiet
  <2> QED
    BY <2>1, <2>2
<1>2. SendsWhole(f) \/ SendsDamaged(f)
  BY DEF HostSends, HostSendsAgain
<1>3. PICK w \in Wires(f) : line' = Joined(line, w)
  BY <1>2, SendsWire
<1>4. UNCHANGED <<rxVars, input, chunk, pending, spoilt>>
  BY DEF HostSends, HostSendsAgain
<1>5. Coming' = Rest(w, 0)
  <2>1. w \in Seq(Byte)
    BY WireIsBytes
  <2>2. chunk = <<>> /\ line = <<>>
    BY <1>1, NothingComing DEF Quiet
  <2>3. line' = w
    BY <1>3, <2>1, <2>2, JoinedProperties
  <2>4. Joined(chunk', line') = w
    BY <1>4, <2>1, <2>2, <2>3, JoinedProperties
  <2> QED
    BY <2>1, <2>4, RestIsRest DEF Coming
<1>6. Fresh' /\ ~ready' /\ pending' = SeNone
  BY <1>1, <1>4 DEF Quiet, Fresh, Machine, rxVars
<1>7. HasTaken(f, w, 0)'
  BY <1>6 DEF HasTaken, InHead
<1>8. UnderWayAt(f, w, 0)'
  BY <1>1, <1>5, <1>7 DEF UnderWayAt
<1>9. 0 \in 0 .. Len(f.payload) + 8
  BY HostFrameIsFrame
<1> QED
  BY <1>6, <1>8, <1>9 DEF UnderWay, RxInv

\* A frame is dispatched whole, and leaves the input buffer empty, or it is noted.
LEMMA StackKeepsRx ==
    ASSUME RxTyped, CleanRxInv, ResetInput \/ (~spoilt /\ (RunCommunicationRx \/ RunUnpacker))
    PROVE  spoilt' \/ RxInv'
<1>1. CASE ResetInput
  <2>1. line = <<>> /\ chunk = <<>> /\ pending = SeNone /\ ResetRx
        /\ UNCHANGED <<chunk, pending, line, awaited>>
    BY <1>1 DEF ResetInput
  <2>2. Coming = <<>> /\ Coming' = <<>>
    <3>1. Coming = <<>>
      BY <2>1, NothingComing
    <3> QED
      BY <2>1, <3>1 DEF Coming
  <2>3. awaited = {} \/ \E f \in HostFrames : awaited = {f}
    BY DEF CleanRxInv, PacedAwaits
  <2>4. Fresh' /\ ~ready'
    BY <2>1 DEF ResetRx, Fresh, Machine
  <2> QED
    BY <2>1, <2>2, <2>3, <2>4 DEF Quiet, RxInv
<1>2. CASE ~spoilt /\ RunCommunicationRx
  <2>1. chunk = <<>> /\ pending = SeNone /\ ready /\ pending' = type /\ ready' = FALSE /\ type' = SeNone
        /\ UNCHANGED <<state, count, expected, sum, compare, input, chunk, lineVars>>
    BY <1>2 DEF RunCommunicationRx
  <2>2. Waits
    BY <1>2, <2>1 DEF CleanRxInv, RxInv, UnderWay, Quiet, HandedOver
  <2>3. PICK f \in HostFrames :
          awaited = {f} /\ Machine("START_FLAG", 0, 0, f.type, 0, 0, f.payload)
    BY <2>2 DEF Waits
  <2>4. Machine("START_FLAG", 0, 0, SeNone, 0, 0, f.payload)' /\ pending' = f.type
    BY <2>1, <2>3 DEF Machine
  <2>5. Coming' = <<>> /\ awaited' = {f}
    BY <2>1, <2>2, <2>3 DEF Waits, Coming, lineVars
  <2> QED
    BY <2>1, <2>4, <2>5 DEF HandedOver, RxInv
<1>3. CASE ~spoilt /\ RunUnpacker
  <2>1. /\ pending # SeNone /\ pending' = SeNone /\ awaited' = awaited \ {Delivered}
        /\ spoilt' = (spoilt \/ input' # <<>>)
        /\ UNCHANGED <<rxVars, chunk, line, damages>>
    BY <1>3 DEF RunUnpacker
  <2>2. HandedOver
    BY <1>3, <2>1 DEF CleanRxInv, RxInv, UnderWay, Quiet, Waits
  <2>3. PICK f \in HostFrames :
          /\ awaited = {f} /\ pending = f.type
          /\ Machine("START_FLAG", 0, 0, SeNone, 0, 0, f.payload)
    BY <2>2 DEF HandedOver
  <2>4. Delivered = f
    BY <2>3, HostFrameIsFrame DEF Delivered, Machine, Frame
  <2>5. CASE input' # <<>>
    BY <2>1, <2>5
  <2>6. awaited' = {}
    BY <2>1, <2>3, <2>4
  <2>7. input' = <<>> => Fresh' /\ ~ready'
    BY <2>1, <2>2, <2>3 DEF HandedOver, Fresh, Machine, rxVars
  <2>8. Coming' = <<>>
    BY <2>1, <2>2 DEF HandedOver, Coming
  <2> QED
    BY <2>1, <2>5, <2>6, <2>7, <2>8 DEF Quiet, RxInv
<1> QED
  BY <1>1, <1>2, <1>3

\* A paced host sends the next frame when the one before is answered.
LEMMA AwaitsStep ==
    ASSUME PacedAwaits, HostPaced, [ExchangeNext]_exchangeVars
    PROVE  PacedAwaits'
<1>1. CASE awaited' = awaited
  BY <1>1 DEF PacedAwaits
<1>2. ASSUME NEW f \in HostFrames, HostSends(f) PROVE PacedAwaits'
  <2>1. Cardinality(awaited) < 1 /\ awaited' = awaited \cup {f}
    BY <1>2 DEF HostSends
  <2>2. ASSUME NEW g, awaited = {g} PROVE FALSE
    <3>1. Cardinality({g}) = 1
      BY FS_Singleton
    <3> QED
      BY <2>1, <2>2, <3>1
  <2>3. awaited = {}
    BY <2>2 DEF PacedAwaits
  <2> QED
    BY <2>1, <2>3 DEF PacedAwaits
<1>3. CASE RunUnpacker
  <2>1. awaited' = awaited \ {Delivered}
    BY <1>3 DEF RunUnpacker
  <2> QED
    BY <2>1 DEF PacedAwaits
<1>4. CASE HostMoves
  BY <1>1, <1>2, <1>4 DEF HostMoves, HostSendsAgain
<1>5. CASE Receive
  <2>1. awaited' = awaited
    BY <1>5, WhichCheck DEF Receive, Put, PutLoops, ResetInput, RunCommunicationRx, Takes, vars,
       lineVars
  <2> QED
    BY <1>1, <2>1
<1>6. CASE Answer
  BY <1>3, <1>6 DEF Answer
<1>7. CASE Send \/ DropOutput \/ UNCHANGED exchangeVars
  BY <1>1, <1>7 DEF Send, DropOutput, exchangeVars, vars, lineVars
<1> QED
  BY <1>4, <1>5, <1>6, <1>7 DEF ExchangeNext

\* Where the machine is in the frame that is sent.
LEMMA RxInvariant ==
    ASSUME HostPaced, Capacity <= LongestLength
    PROVE  ExchangeSpec => []CleanRxInv
<1>1. ExchangeInit => CleanRxInv
  BY RxBegins DEF ExchangeInit, Init, CleanRxInv, PacedAwaits
<1>2. ASSUME RxTyped, CleanRxInv, [ExchangeNext]_exchangeVars PROVE spoilt' \/ RxInv'
  <2>1. CASE ResetInput
    <3>1. ResetInput \/ (~spoilt /\ (RunCommunicationRx \/ RunUnpacker))
      BY <2>1
    <3> QED
      BY <1>2, <3>1, StackKeepsRx, Zenon
  <2>2. CASE spoilt /\ ~ResetInput
    <3>1. spoilt'
      <4>1. CASE HostMoves
        BY <2>2, <4>1 DEF HostMoves, HostSends, HostSendsAgain
      <4>2. CASE Receive
        BY <2>2, <4>2, WhichCheck DEF Receive, Put, PutLoops, RunCommunicationRx, Takes, vars
      <4>3. CASE Answer
        BY <2>2, <4>3 DEF Answer, RunUnpacker
      <4>4. CASE Send \/ DropOutput \/ UNCHANGED exchangeVars
        BY <2>2, <4>4 DEF Send, DropOutput, exchangeVars, vars
      <4> QED
        BY <1>2, <4>1, <4>2, <4>3, <4>4 DEF ExchangeNext
    <3> QED
      BY <3>1
  <2>3. CASE ~spoilt /\ ~ResetInput
    <3>1. RxInv
      BY <1>2, <2>3 DEF CleanRxInv
    <3>2. ASSUME UNCHANGED <<rxVars, input, chunk, pending, line, awaited>> PROVE RxInv'
      <4>1. Coming' = Coming
        BY <3>2 DEF Coming
      <4> QED
        BY <3>1, <3>2, <4>1, RxUnchanged
    <3>3. CASE HostMoves
      BY <1>2, <3>1, <3>3, HostKeepsRx DEF HostMoves
    <3>4. CASE Receive /\ PutLoops
      BY <3>2, <3>4 DEF PutLoops, vars, lineVars
    <3>5. CASE Receive /\ ~PutLoops
      BY <1>2, <2>3, <3>1, <3>5, PutKeepsRx, ChecksKeepRx, StackKeepsRx DEF Receive
    <3>6. CASE Answer
      BY <1>2, <2>3, <3>6, StackKeepsRx DEF Answer
    <3>7. CASE Send \/ DropOutput \/ UNCHANGED exchangeVars
      BY <3>2, <3>7 DEF Send, DropOutput, exchangeVars, vars, lineVars
    <3> QED
      BY <1>2, <3>3, <3>4, <3>5, <3>6, <3>7 DEF ExchangeNext
  <2> QED
    BY <2>1, <2>2, <2>3
<1>3. RxTyped /\ CleanRxInv /\ [ExchangeNext]_exchangeVars => CleanRxInv'
  BY <1>2, AwaitsStep DEF CleanRxInv
<1> QED
  BY <1>1, <1>3, RxTypeInvariant, PTL DEF ExchangeSpec

(***************************************************************************)
(* What the unpacker is given is the frame that the host has sent and      *)
(* whose answer it awaits, for every set of frames, every size of the      *)
(* buffer that a length can name and every byte of noise, however the      *)
(* transport cuts the bytes into calls of FramedIO_putRxData: a damaged    *)
(* byte is noticed, and nothing of a refused frame is left over for the    *)
(* one that is sent again.  The host is paced.  DeliveredWasSent speaks of *)
(* the time until an unpacker leaves bytes of a payload unread, and from   *)
(* the next reset on; what comes behind such bytes may be corrupted.       *)
(***************************************************************************)
THEOREM OnlySentIsDelivered ==
    ASSUME HostPaced, Capacity <= LongestLength
    PROVE  ExchangeSpec => []DeliveredWasSent
<1>1. CleanRxInv => DeliveredWasSent
  <2> SUFFICES ASSUME RxInv, pending # SeNone PROVE Delivered \in awaited
    BY DEF DeliveredWasSent, CleanRxInv
  <2>1. HandedOver
    BY DEF RxInv, UnderWay, Quiet, Waits
  <2>2. PICK f \in HostFrames :
          /\ awaited = {f} /\ pending = f.type
          /\ Machine("START_FLAG", 0, 0, SeNone, 0, 0, f.payload)
    BY <2>1 DEF HandedOver
  <2>3. Delivered = f
    BY <2>2, HostFrameIsFrame DEF Delivered, Machine, Frame
  <2> QED
    BY <2>2, <2>3
<1> QED
  BY <1>1, RxInvariant, PTL

(***************************************************************************)
(* FramedIO_putRxData returns, as long as no unpacker has left bytes of a  *)
(* payload unread, and again after a reset: in the data of a frame the     *)
(* buffer then never holds more than the length announces, since the       *)
(* length is never the damaged byte and the buffer was empty when the      *)
(* frame began.  Behind a leftover it may hang (PutReturns is violated).   *)
(***************************************************************************)
THEOREM CleanPutAlwaysReturns ==
    ASSUME HostPaced, Capacity <= LongestLength
    PROVE  ExchangeSpec => []CleanPutReturns
<1>1. RxTyped /\ CleanRxInv => CleanPutReturns
  <2> SUFFICES ASSUME RxTyped, RxInv, chunk # <<>>, state = "DATA" PROVE Len(input) <= expected
    BY DEF CleanPutReturns, LoopGoesOn, CleanRxInv
  <2>1. UnderWay
    BY DEF RxInv, Quiet, Fresh, Waits, HandedOver, Machine
  <2>2. PICK f \in HostFrames : \E w \in Wires(f) : \E k \in 0 .. Len(f.payload) + 8 : UnderWayAt(f, w, k)
    BY <2>1 DEF UnderWay
  <2>2a. PICK w \in Wires(f) : \E k \in 0 .. Len(f.payload) + 8 : UnderWayAt(f, w, k)
    BY <2>2
  <2>2b. PICK k \in 0 .. Len(f.payload) + 8 : UnderWayAt(f, w, k)
    BY <2>2a
  <2>3. HasTaken(f, w, k)
    BY <2>2b DEF UnderWayAt
  <2>4. InData(f, w, k)
    BY <2>3 DEF HasTaken, InHead, InChecksum, AtEnd, Fresh, Machine
  <2>5. k \in 6 .. 5 + Len(f.payload) /\ expected = Len(f.payload) /\ input = DataOf(w, k)
    BY <2>4 DEF InData, Machine
  <2>6. w \in Seq(Byte) /\ Len(w) = Len(f.payload) + 9 /\ Len(f.payload) \in Nat
    BY WireIsBytes, HostFrameIsFrame
  <2>7. k \in Nat /\ 6 <= k /\ k <= Len(w)
    BY <2>5, <2>6
  <2>8. Len(DataOf(w, k)) = k - 6
    BY <2>6, <2>7, DataGrows
  <2> QED
    BY <2>5, <2>6, <2>8
<1> QED
  BY <1>1, RxInvariant, RxTypeInvariant, PTL
=============================================================================
