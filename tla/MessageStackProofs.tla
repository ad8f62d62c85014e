-------------------------- MODULE MessageStackProofs --------------------------
(***************************************************************************)
(* Proofs about the way of a message through the stack.                    *)
(***************************************************************************)
EXTENDS MessageStack, FunctionTheorems, FiniteSetTheorems, SequenceTheorems, TLAPS

-----------------------------------------------------------------------------
(***************************************************************************)
(* The event queue.                                                        *)
(***************************************************************************)
Queues == {q \in Seq(Events) : Len(q) <= QueueSize}

\* A push drops the event when the queue is full.
LEMMA PushType ==
    ASSUME NEW q \in Queues, NEW event \in Events
    PROVE  Push(q, event) \in Queues
BY AppendProperties, MessageStackAssumption DEF Queues, Push

\* What is left when the event at place i has been taken out.
LEMMA WithoutProperties ==
    ASSUME NEW q \in Seq(Events), NEW i \in 1 .. Len(q)
    PROVE  /\ Without(q, i) \in Seq(Events)
           /\ Len(Without(q, i)) = Len(q) - 1
           /\ \A k \in 1 .. Len(q) - 1 :
                Without(q, i)[k] = IF k < i THEN q[k] ELSE q[k + 1]
<1> DEFINE older == SubSeq(q, 1, i - 1)
           newer == SubSeq(q, i + 1, Len(q))
<1>1. /\ older \in Seq(Events) /\ Len(older) = i - 1
      /\ \A k \in 1 .. i - 1 : older[k] = q[k]
  <2>1. \A k \in 1 .. i - 1 : q[k] \in Events
    BY ElementOfSeq, LenProperties
  <2> QED
    BY <2>1, SubSeqProperties, LenProperties
<1>2. /\ newer \in Seq(Events) /\ Len(newer) = Len(q) - i
      /\ \A k \in 1 .. Len(q) - i : newer[k] = q[k + i]
  <2>1. \A k \in i + 1 .. Len(q) : q[k] \in Events
    BY ElementOfSeq, LenProperties
  <2> QED
    BY <2>1, SubSeqProperties, LenProperties
<1> HIDE DEF older, newer
<1>3. /\ older \o newer \in Seq(Events)
      /\ Len(older \o newer) = Len(q) - 1
      /\ \A k \in 1 .. Len(q) - 1 :
           (older \o newer)[k] = IF k < i THEN older[k] ELSE newer[k - (i - 1)]
  <2>1. /\ older \o newer \in Seq(Events)
        /\ Len(older \o newer) = Len(older) + Len(newer)
        /\ \A k \in 1 .. Len(older) + Len(newer) :
             (older \o newer)[k] = IF k <= Len(older) THEN older[k] ELSE newer[k - Len(older)]
    BY <1>1, <1>2, ConcatProperties
  <2>2. Len(older) = i - 1 /\ Len(newer) = Len(q) - i /\ Len(q) \in Nat
    BY <1>1, <1>2, LenProperties
  <2> HIDE <1>1, <1>2
  <2> QED
    BY <2>1, <2>2
<1>4. \A k \in 1 .. Len(q) - 1 : (older \o newer)[k] = IF k < i THEN q[k] ELSE q[k + 1]
  <2> TAKE k \in 1 .. Len(q) - 1
  <2>1. CASE k < i
    BY <2>1, <1>1, <1>3
  <2>2. CASE ~(k < i)
    <3>1. k - (i - 1) \in 1 .. Len(q) - i /\ (k - (i - 1)) + i = k + 1
      BY <2>2, LenProperties
    <3> QED
      BY <2>2, <3>1, <1>2, <1>3
  <2> QED
    BY <2>1, <2>2
<1> QED
  BY <1>3, <1>4 DEF Without, older, newer

\* So does the log line that is announced first.
LEMMA WithLogType ==
    ASSUME NEW q \in Queues, NEW log \in BOOLEAN
    PROVE  WithLog(q, log) \in Queues
BY PushType DEF WithLog, Events

\* A popped event is one of the queue, and the rest is a queue again.
LEMMA PopType ==
    ASSUME NEW q \in Queues, NEW i \in Poppable(q)
    PROVE  i \in 1 .. Len(q) /\ q[i] \in Events /\ Without(q, i) \in Queues
BY WithoutProperties, ElementOfSeq, LenProperties, MessageStackAssumption DEF Queues, Poppable

\* The aggregator leaves everything as it is, or takes one event out of the queue.
AggregatorPops(q, i) ==
    /\ PackerIsReady /\ ~waitForAck
    /\ queue' = Without(q, i)
    /\ packingPending' = q[i]
    /\ waitForAck' = NeedsAck(q[i])

\* The aggregator takes an event out of the queue, maybe after a log line was announced.
LEMMA AggregatorCases ==
    ASSUME queue \in Queues, RunDataAggregator, ~UNCHANGED <<queue, packingPending, waitForAck>>
    PROVE  \E log \in BOOLEAN :
             /\ WithLog(queue, log) \in Queues
             /\ \E i \in 1 .. Len(WithLog(queue, log)) :
                  /\ AggregatorPops(WithLog(queue, log), i)
                  /\ WithLog(queue, log)[i] \in Events
                  /\ Without(WithLog(queue, log), i) \in Queues
<1>1. PICK log \in {FALSE, Logging} : \E i \in Poppable(WithLog(queue, log)) :
                                        AggregatorPops(WithLog(queue, log), i)
  BY Zenon DEF RunDataAggregator, AggregatorPops
<1>2. log \in BOOLEAN
  BY MessageStackAssumption
<1>3. WithLog(queue, log) \in Queues
  BY <1>2, WithLogType
<1> QED
  BY <1>1, <1>2, <1>3, PopType

-----------------------------------------------------------------------------
(***************************************************************************)
(* Types.                                                                  *)
(***************************************************************************)
Received == HostMessages \cup {"se_ack", None}

ReceiveTypeOK ==
    /\ rxType \in Received /\ unpackingPending \in Received
    /\ unread \in BOOLEAN /\ hung \in BOOLEAN
    /\ commandPending \in (HostMessages \ {"cf_bad"}) \cup {"se_ack", "se_nak", None}

Bodies == {"sc_data", "sc_announce", "sc_log", None}

SendTypeOK ==
    /\ packingPending \in Events \cup {None}
    /\ output \in Bodies /\ frameBody \in Bodies
    /\ txReady \in BOOLEAN /\ txType \in Events \cup {None}
    /\ txState \in {"NONE", "HEAD", "BODY", "FOOT"}
    /\ frame \in [type : Events \cup {None}, body : BOOLEAN]
    /\ headWaits \in BOOLEAN

RestTypeOK ==
    /\ pc \in {"receive", "unpack", "command", "scope", "aggregate", "pack", "send"}
    /\ waitForAck \in BOOLEAN /\ box \in BOOLEAN /\ greeted \in BOOLEAN
    /\ awaited \in HostMessages \cup {None} /\ owed \in 0 .. MaxOwed

\* The type invariant in the parts the steps disturb.
LEMMA TypeParts == TypeOK <=> ReceiveTypeOK /\ SendTypeOK /\ RestTypeOK /\ queue \in Queues
BY DEF TypeOK, ReceiveTypeOK, Received, SendTypeOK, Bodies, RestTypeOK, Queues

\* The first state is well-typed.
LEMMA InitType == Init => TypeOK
<1> SUFFICES ASSUME Init PROVE ReceiveTypeOK /\ SendTypeOK /\ RestTypeOK /\ queue \in Queues
  BY TypeParts
<1> USE DEF Init, FramedIOInit, SerializerInit, ControllerInit
<1>1. ReceiveTypeOK
  BY DEF ReceiveTypeOK, Received
<1>2. SendTypeOK
  BY DEF SendTypeOK, Bodies
<1>3. RestTypeOK
  <2>1. owed \in 0 .. MaxOwed
    BY MessageStackAssumption
  <2> QED
    BY <2>1 DEF RestTypeOK
<1>4. queue \in Queues
  BY EmptySeq, MessageStackAssumption DEF Queues
<1> QED
  BY <1>1, <1>2, <1>3, <1>4

\* what the host sends and how far it has come
LEMMA ReceiveTypeStep ==
    ASSUME ReceiveTypeOK, [Next]_vars
    PROVE  ReceiveTypeOK'
<1> USE DEF ReceiveTypeOK, Received
<1>1. CASE UNCHANGED <<rxVars, commandPending>>
  BY <1>1 DEF rxVars, putVars
<1>2. ASSUME NEW message \in HostMessages, HostSends(message) PROVE ReceiveTypeOK'
  BY <1>2 DEF HostSends, Put, putVars, ctlVars
<1>3. CASE HostAcknowledges
  BY <1>3 DEF HostAcknowledges, Put, putVars, ctlVars
<1>4. CASE RunCommunicationRx
  BY <1>4 DEF RunCommunicationRx, ctlVars
<1>5. CASE RunUnpacker
  BY <1>5 DEF RunUnpacker
<1>6. CASE RunCommandParser
  BY <1>6 DEF RunCommandParser, rxVars, putVars
<1>7. CASE \/ HostGivesUp \/ SkipCommand \/ RunScope \/ RunDataAggregator \/ SkipData
           \/ RunPacker \/ RunCommunicationTx \/ ScopeThreadRuns \/ Transport \/ ResetOutput
           \/ UNCHANGED vars
  BY <1>7, <1>1 DEF HostGivesUp, SkipCommand, RunScope, RunDataAggregator, SkipData, RunPacker,
        RunCommunicationTx, ScopeThreadRuns, Transport, TransportReadsHead, TransportReadsBody,
        TransportReadsFoot, ResetOutput, vars, ctlVars
<1> QED
  BY <1>2, <1>3, <1>4, <1>5, <1>6, <1>7 DEF Next, StackThread

\* the frame that is sent
LEMMA SendTypeStep ==
    ASSUME SendTypeOK, queue \in Queues, [Next]_vars
    PROVE  SendTypeOK'
<1> USE DEF SendTypeOK, Bodies
<1>1. CASE UNCHANGED <<packingPending, output, txVars>>
  BY <1>1 DEF txVars
<1>2. CASE RunDataAggregator
  <2>1. packingPending' \in Events \cup {None}
    BY <1>2, AggregatorCases DEF AggregatorPops
  <2> QED
    BY <1>2, <2>1 DEF RunDataAggregator, txVars
<1>3. CASE RunPacker
  <2>1. CASE packingPending = None
    BY <1>3, <2>1 DEF RunPacker
  <2>2. CASE packingPending # None
    <3>1. /\ output' = output \/ (output' = packingPending /\ HasBody(packingPending))
          /\ packingPending' = None /\ txType' = packingPending /\ txReady'
          /\ UNCHANGED <<frameBody, txState, frame, headWaits>>
      BY <1>3, <2>2 DEF RunPacker
    <3>2. output' \in Bodies
      BY <3>1 DEF HasBody
    <3> QED
      BY <3>1, <3>2, <2>2
  <2> QED
    BY <2>1, <2>2
<1>4. CASE RunCommunicationTx
  <2>1. frame' \in [type : Events \cup {None}, body : BOOLEAN]
    <3>1. [type |-> txType, body |-> output # None] \in [type : Events \cup {None}, body : BOOLEAN]
      BY Zenon
    <3> QED
      BY <1>4, <3>1 DEF RunCommunicationTx
  <2> QED
    BY <1>4, <2>1 DEF RunCommunicationTx
<1>5. CASE Transport
  BY <1>5 DEF Transport, TransportReadsHead, TransportReadsBody, TransportReadsFoot
<1>6. CASE ResetOutput
  BY <1>6 DEF ResetOutput
<1>7. CASE \/ (\E message \in HostMessages : HostSends(message)) \/ HostAcknowledges
           \/ HostGivesUp \/ RunCommunicationRx \/ RunUnpacker \/ RunCommandParser
           \/ SkipCommand \/ RunScope \/ SkipData \/ ScopeThreadRuns \/ UNCHANGED vars
  BY <1>7, <1>1 DEF HostSends, HostAcknowledges, HostGivesUp, RunCommunicationRx, RunUnpacker,
        RunCommandParser, SkipCommand, RunScope, SkipData, ScopeThreadRuns, vars
<1> QED
  BY <1>2, <1>3, <1>4, <1>5, <1>6, <1>7 DEF Next, StackThread

\* The queue keeps its bound.
LEMMA QueueTypeStep ==
    ASSUME queue \in Queues, [Next]_vars
    PROVE  queue' \in Queues
<1>1. CASE UNCHANGED queue
  BY <1>1
<1>2. CASE RunCommandParser
  BY <1>2, PushType DEF RunCommandParser, SendNakBack, ExecuteCommand, CommandRunning,
        CommandTInc, CommandClear, CommandTrans, CommandAnnounce, CommandDetect,
        CommandReturnsEarly, NoCommand, Answers, Events
<1>3. CASE RunScope \/ ScopeThreadRuns
  BY <1>3, PushType DEF RunScope, ScopeThreadRuns, HandOver, Events
<1>4. CASE RunDataAggregator
  BY <1>4, AggregatorCases DEF AggregatorPops
<1>5. CASE \/ (\E message \in HostMessages : HostSends(message)) \/ HostAcknowledges
           \/ HostGivesUp \/ RunCommunicationRx \/ RunUnpacker \/ SkipCommand \/ SkipData
           \/ RunPacker \/ RunCommunicationTx \/ Transport \/ ResetOutput \/ UNCHANGED vars
  BY <1>5, <1>1 DEF HostSends, HostAcknowledges, HostGivesUp, RunCommunicationRx, RunUnpacker,
        SkipCommand, SkipData, RunPacker, RunCommunicationTx, Transport, TransportReadsHead,
        TransportReadsBody, TransportReadsFoot, ResetOutput, vars
<1> QED
  BY <1>2, <1>3, <1>4, <1>5 DEF Next, StackThread

\* the turn, the scope and the host
LEMMA RestTypeStep ==
    ASSUME RestTypeOK, [Next]_vars
    PROVE  RestTypeOK'
<1>0. awaited' \in HostMessages \cup {None}
  BY DEF RestTypeOK, Next, StackThread, HostSends, HostAcknowledges, HostGivesUp,
        RunCommunicationRx, RunUnpacker, RunCommandParser, SkipCommand, RunScope,
        RunDataAggregator, SkipData, RunPacker, RunCommunicationTx, Transport,
        TransportReadsHead, TransportReadsBody, TransportReadsFoot, ResetOutput,
        ScopeThreadRuns, vars, hostVars
<1>1. owed' \in 0 .. MaxOwed
  <2>1. CASE UNCHANGED owed
    BY <2>1 DEF RestTypeOK
  <2>2. CASE HostAcknowledges
    BY <2>2, MessageStackAssumption DEF HostAcknowledges, RestTypeOK
  <2>3. CASE TransportReadsFoot
    BY <2>3, MessageStackAssumption DEF TransportReadsFoot, RestTypeOK
  <2> QED
    BY <2>1, <2>2, <2>3 DEF Next, StackThread, HostSends, HostGivesUp, RunCommunicationRx,
          RunUnpacker, RunCommandParser, SkipCommand, RunScope, RunDataAggregator, SkipData,
          RunPacker, RunCommunicationTx, Transport, TransportReadsHead, TransportReadsBody,
          ResetOutput, ScopeThreadRuns, vars, hostVars
<1>2. pc' \in {"receive", "unpack", "command", "scope", "aggregate", "pack", "send"}
  BY DEF RestTypeOK, Next, StackThread, HostSends, HostAcknowledges, HostGivesUp,
        RunCommunicationRx, RunUnpacker, RunCommandParser, SkipCommand, RunScope,
        RunDataAggregator, SkipData, RunPacker, RunCommunicationTx, Transport,
        TransportReadsHead, TransportReadsBody, TransportReadsFoot, ResetOutput,
        ScopeThreadRuns, vars
<1>3. waitForAck' \in BOOLEAN /\ greeted' \in BOOLEAN
  <2>1. CASE UNCHANGED <<waitForAck, greeted>>
    BY <2>1 DEF RestTypeOK
  <2>2. CASE RunCommandParser
    BY <2>2 DEF RunCommandParser, SendNakBack, RestTypeOK
  <2>3. CASE RunDataAggregator
    <3>1. UNCHANGED greeted
      BY <2>3 DEF RunDataAggregator, hostVars
    <3>2. waitForAck' \in BOOLEAN
      <4>1. \A event : NeedsAck(event) \in BOOLEAN
        BY DEF NeedsAck
      <4>2. CASE UNCHANGED waitForAck
        BY <4>2 DEF RestTypeOK
      <4>3. CASE \E log \in {FALSE, Logging} : \E i \in Poppable(WithLog(queue, log)) :
                   waitForAck' = NeedsAck(WithLog(queue, log)[i])
        BY <4>1, <4>3, Zenon
      <4> QED
        BY <2>3, <4>2, <4>3, Zenon DEF RunDataAggregator
    <3> QED
      BY <3>1, <3>2 DEF RestTypeOK
  <2> QED
    BY <2>1, <2>2, <2>3 DEF Next, StackThread, HostSends, HostAcknowledges, HostGivesUp,
          RunCommunicationRx, RunUnpacker, SkipCommand, RunScope, SkipData, RunPacker,
          RunCommunicationTx, Transport, TransportReadsHead, TransportReadsBody,
          TransportReadsFoot, ResetOutput, ScopeThreadRuns, vars, ctlVars, hostVars
<1>4. box' \in BOOLEAN
  <2>1. CASE UNCHANGED box
    BY <2>1 DEF RestTypeOK
  <2>2. CASE RunCommandParser
    BY <2>2 DEF RunCommandParser, SendNakBack, RestTypeOK, ExecuteCommand, CommandRunning,
          CommandTInc, CommandClear, CommandTrans, CommandAnnounce, CommandDetect,
          CommandReturnsEarly, NoCommand
  <2>3. CASE RunScope \/ ScopeThreadRuns \/ RunPacker
    BY <2>3 DEF RunScope, ScopeThreadRuns, HandOver, RunPacker, RestTypeOK
  <2> QED
    BY <2>1, <2>2, <2>3 DEF Next, StackThread, HostSends, HostAcknowledges, HostGivesUp,
          RunCommunicationRx, RunUnpacker, SkipCommand, RunDataAggregator, SkipData,
          RunCommunicationTx, Transport, TransportReadsHead, TransportReadsBody,
          TransportReadsFoot, ResetOutput, vars
<1> QED
  BY <1>0, <1>1, <1>2, <1>3, <1>4 DEF RestTypeOK

\* Every step keeps the types.
LEMMA TypeStep == TypeOK /\ [Next]_vars => TypeOK'
<1> SUFFICES ASSUME TypeOK, [Next]_vars PROVE TypeOK'
  OBVIOUS
<1>1. ReceiveTypeOK /\ SendTypeOK /\ RestTypeOK /\ queue \in Queues
  BY TypeParts
<1>2. ReceiveTypeOK' /\ SendTypeOK' /\ RestTypeOK' /\ queue' \in Queues
  BY <1>1, ReceiveTypeStep, SendTypeStep, QueueTypeStep, RestTypeStep
<1> QED
  BY <1>2 DEF TypeOK, ReceiveTypeOK, Received, SendTypeOK, Bodies, RestTypeOK, Queues

(***************************************************************************)
(* Every slot holds what may be put into it: a payload that fails to       *)
(* decode never becomes a pending command under its own type, the queue    *)
(* keeps its limit, and nothing but a message with a body gets into the    *)
(* output stream.                                                          *)
(***************************************************************************)
THEOREM StackTyped == Spec => []TypeOK
BY InitType, TypeStep, PTL DEF Spec

-----------------------------------------------------------------------------
(***************************************************************************)
(* Frames.  A transport that reads the whole frame when it is called keeps *)
(* the turn at its end until the frame is complete, so no message can be   *)
(* packed in between, and what is in the output stream is the body of the  *)
(* message whose head is ready or has been written.                        *)
(***************************************************************************)
BodyOf(event) == IF HasBody(event) THEN event ELSE None

\* The slot of the packer is filled by the aggregator and emptied by the runnable after it.
PackingPlace == packingPending # None => pc = "pack" /\ output = None

HeadPlace == headWaits => txState = "HEAD"

SendPlace == txState # "NONE" => pc = "receive" /\ ~txReady

OutputIsBody ==
    /\ txReady => output = BodyOf(txType)
    /\ txState \in {"HEAD", "BODY"} => output = BodyOf(frame.type)
    /\ txState = "FOOT" => frameBody = BodyOf(frame.type)

FrameInv == PackingPlace /\ HeadPlace /\ SendPlace /\ OutputIsBody

\* At the beginning no frame is packed or read.
LEMMA InitFrames == Init => FrameInv
BY DEF Init, FramedIOInit, SerializerInit, FrameInv, PackingPlace, HeadPlace, SendPlace,
       OutputIsBody, BodyOf, HasBody

\* A message is packed only into an empty output buffer.
LEMMA PackingPlaceStep ==
    ASSUME PackingPlace, [Next]_vars
    PROVE  PackingPlace'
<1> USE DEF PackingPlace
<1>1. CASE UNCHANGED <<pc, packingPending, output>>
  BY <1>1
<1>2. CASE RunDataAggregator
  BY <1>2 DEF RunDataAggregator, PackerIsReady
<1>3. CASE RunPacker
  BY <1>3 DEF RunPacker
<1>4. CASE TransportReadsBody \/ ResetOutput
  BY <1>4 DEF TransportReadsBody, ResetOutput
<1>5. CASE \/ RunCommunicationRx \/ RunUnpacker \/ RunCommandParser \/ SkipCommand \/ RunScope
           \/ SkipData \/ RunCommunicationTx
  BY <1>5 DEF RunCommunicationRx, RunUnpacker, RunCommandParser, SkipCommand, RunScope,
        SkipData, RunCommunicationTx
<1>6. CASE \/ (\E message \in HostMessages : HostSends(message)) \/ HostAcknowledges
           \/ HostGivesUp \/ ScopeThreadRuns \/ TransportReadsHead \/ TransportReadsFoot
           \/ UNCHANGED vars
  BY <1>1, <1>6 DEF HostSends, HostAcknowledges, HostGivesUp, ScopeThreadRuns,
        TransportReadsHead, TransportReadsFoot, vars
<1> QED
  BY <1>2, <1>3, <1>4, <1>5, <1>6 DEF Next, StackThread, Transport

\* A head that waits is the one the transport is about to read.
LEMMA HeadPlaceStep ==
    ASSUME HeadPlace, "HEAD" \notin ResetStates, [Next]_vars
    PROVE  HeadPlace'
<1> USE DEF HeadPlace
<1>1. CASE UNCHANGED <<txState, headWaits>>
  BY <1>1
<1>2. CASE RunCommunicationTx \/ Transport \/ ResetOutput
  BY <1>2 DEF RunCommunicationTx, Transport, TransportReadsHead, TransportReadsBody,
        TransportReadsFoot, ResetOutput
<1>3. CASE \/ (\E message \in HostMessages : HostSends(message)) \/ HostAcknowledges
           \/ HostGivesUp \/ RunCommunicationRx \/ RunUnpacker \/ RunCommandParser
           \/ SkipCommand \/ RunScope \/ RunDataAggregator \/ SkipData \/ RunPacker
           \/ ScopeThreadRuns \/ UNCHANGED vars
  BY <1>1, <1>3 DEF HostSends, HostAcknowledges, HostGivesUp, RunCommunicationRx, RunUnpacker,
        RunCommandParser, SkipCommand, RunScope, RunDataAggregator, SkipData, RunPacker,
        ScopeThreadRuns, vars, txVars
<1> QED
  BY <1>2, <1>3 DEF Next, StackThread

\* The runnables keep away from a frame in transmission: it holds the turn.
LEMMA FramesStep ==
    ASSUME FrameInv, SynchronousTransport, "HEAD" \notin ResetStates, [Next]_vars
    PROVE  FrameInv'
<1> USE DEF SendPlace, OutputIsBody
<1>0. PackingPlace' /\ HeadPlace' /\ SendPlace /\ OutputIsBody
  BY PackingPlaceStep, HeadPlaceStep DEF FrameInv
<1>1. CASE UNCHANGED <<pc, output, txVars>>
  BY <1>0, <1>1 DEF FrameInv, txVars
<1>2. CASE RunCommunicationRx
  BY <1>0, <1>2 DEF RunCommunicationRx, FrameInv, txVars
<1>3. CASE RunUnpacker \/ RunCommandParser \/ SkipCommand \/ RunScope \/ RunDataAggregator \/ SkipData
  <2>1. txState = "NONE"
    BY <1>0, <1>3 DEF RunUnpacker, RunCommandParser, SkipCommand, RunScope, RunDataAggregator,
          SkipData
  <2>2. UNCHANGED <<output, txVars>>
    BY <1>3 DEF RunUnpacker, RunCommandParser, SkipCommand, RunScope, RunDataAggregator,
          SkipData
  <2> QED
    BY <1>0, <2>1, <2>2 DEF FrameInv, txVars
<1>4. CASE RunPacker
  BY <1>0, <1>4 DEF RunPacker, FrameInv, PackingPlace, BodyOf
<1>5. CASE RunCommunicationTx
  BY <1>0, <1>5 DEF RunCommunicationTx, FrameInv, HeadPlace
<1>6. CASE Transport
  BY <1>0, <1>6 DEF Transport, TransportReadsHead, TransportReadsBody, TransportReadsFoot,
        FrameInv
<1>7. CASE ResetOutput
  BY <1>0, <1>7 DEF ResetOutput, FrameInv, BodyOf, HasBody
<1>8. CASE \/ (\E message \in HostMessages : HostSends(message)) \/ HostAcknowledges
           \/ HostGivesUp \/ ScopeThreadRuns \/ UNCHANGED vars
  BY <1>1, <1>8 DEF HostSends, HostAcknowledges, HostGivesUp, ScopeThreadRuns, vars
<1> QED
  BY <1>2, <1>3, <1>4, <1>5, <1>6, <1>7, <1>8 DEF Next, StackThread

(***************************************************************************)
(* A frame that is complete carries the body its head has announced, as    *)
(* long as the transport takes a frame at once and nobody resets the       *)
(* output between runTx and the head being read, which leaves the head in  *)
(* its buffer.  Without the first hypothesis the property is false: the    *)
(* run "async" shows how.                                                  *)
(***************************************************************************)
THEOREM FramesWhole ==
    ASSUME SynchronousTransport, "HEAD" \notin ResetStates
    PROVE  Spec => []FramesAreWhole
<1>1. FrameInv /\ [Next]_vars => FrameInv'
  BY FramesStep
<1>2. FrameInv => FramesAreWhole
  BY DEF FrameInv, OutputIsBody, FramesAreWhole, BodyOf
<1> QED
  BY InitFrames, <1>1, <1>2, PTL DEF Spec

-----------------------------------------------------------------------------
(***************************************************************************)
(* The acknowledgement lock.  What it waits for is either an answer of the *)
(* host to a message that is on its way out, or a message that releases it *)
(* and is on its way in.                                                   *)
(***************************************************************************)
AnswerToCome ==
    \/ HostAnswers(packingPending)
    \/ txReady /\ HostAnswers(txType)
    \/ txState # "NONE" /\ HostAnswers(frame.type)
    \/ owed > 0

Slots == {rxType, unpackingPending, commandPending}

ReleaseToCome == \E message \in Slots : Unlocks(message)

\* Whatever the host sends ends the wait, and nothing stands in its way.
EverythingUnlocks ==
    /\ \A message \in Slots : message # None => Unlocks(message)
    /\ ~unread /\ ~hung

WaitsForPacked == packingPending # None /\ waitForAck => HostAnswers(packingPending)

WaitsForSomething == waitForAck /\ greeted => AnswerToCome \/ ReleaseToCome

AckInv == EverythingUnlocks /\ PackingPlace /\ HeadPlace /\ WaitsForPacked /\ WaitsForSomething

\* At the beginning nothing waits for an answer.
LEMMA InitAck == Init => AckInv
BY InitFrames DEF FrameInv, AckInv, EverythingUnlocks, Slots, WaitsForPacked, WaitsForSomething,
       Init, FramedIOInit, SerializerInit, ControllerInit

\* What a step does to the slots the messages of the host pass through.
LEMMA SlotCases ==
    ASSUME [Next]_vars
    PROVE  \/ UNCHANGED <<rxVars, commandPending>>
           \/ RunCommandParser
           \/ /\ \E message \in HostMessages \cup {"se_ack"} : Put(message)
              /\ UNCHANGED <<unpackingPending, commandPending>>
              /\ HostAcknowledges \/ \E message \in HostMessages : HostSends(message)
           \/ RunCommunicationRx
           \/ RunUnpacker
<1>1. CASE HostAcknowledges
  <2>1. UNCHANGED putVars \/ Put("se_ack")
    BY <1>1 DEF HostAcknowledges
  <2> QED
    BY <1>1, <2>1 DEF HostAcknowledges, ctlVars, rxVars
<1>2. ASSUME NEW message \in HostMessages, HostSends(message)
      PROVE  /\ Put(message) /\ UNCHANGED <<unpackingPending, commandPending>>
  BY <1>2 DEF HostSends, ctlVars
<1>3. CASE \/ HostGivesUp \/ SkipCommand \/ RunScope \/ RunDataAggregator \/ SkipData
           \/ RunPacker \/ RunCommunicationTx \/ ScopeThreadRuns \/ Transport \/ ResetOutput
           \/ UNCHANGED vars
  BY <1>3 DEF HostGivesUp, SkipCommand, RunScope, RunDataAggregator, SkipData, RunPacker,
        RunCommunicationTx, ScopeThreadRuns, Transport, TransportReadsHead, TransportReadsBody,
        TransportReadsFoot, ResetOutput, vars, ctlVars
<1> QED
  BY <1>1, <1>2, <1>3 DEF Next, StackThread

\* A host whose messages decode and that sends no SE_NAK ends the wait with every message.
LEMMA EverythingUnlocksStep ==
    ASSUME EverythingUnlocks, HostMessages \cap {"cf_bad", "se_nak"} = {}, None \notin HostMessages,
           [Next]_vars
    PROVE  EverythingUnlocks'
<1> USE DEF EverythingUnlocks, Slots
<1>1. CASE UNCHANGED <<rxVars, commandPending>>
  BY <1>1 DEF rxVars, putVars
<1>2. CASE RunCommandParser
  BY <1>2 DEF RunCommandParser, rxVars, putVars
<1>3. CASE /\ \E message \in HostMessages \cup {"se_ack"} : Put(message)
           /\ UNCHANGED <<unpackingPending, commandPending>>
  BY <1>3 DEF Put, putVars, Unlocks, None
<1>4. CASE RunCommunicationRx
  BY <1>4 DEF RunCommunicationRx, ctlVars
<1>5. CASE RunUnpacker
  <2>1. unpackingPending # "cf_bad"
    BY DEF Unlocks, None
  <2> QED
    BY <1>5, <2>1 DEF RunUnpacker
<1> QED
  BY <1>1, <1>2, <1>3, <1>4, <1>5, SlotCases

\* What is packed under the lock is a message the host answers.
LEMMA WaitsForPackedStep ==
    ASSUME PackingPlace, WaitsForPacked, [Next]_vars
    PROVE  WaitsForPacked'
<1> USE DEF WaitsForPacked
<1>1. CASE UNCHANGED <<packingPending, waitForAck>>
  BY <1>1, Zenon DEF HostAnswers
<1>2. CASE RunCommandParser
  BY <1>2, Zenon DEF RunCommandParser, SendNakBack, HostAnswers
<1>3. CASE RunDataAggregator
  BY <1>3, Zenon DEF RunDataAggregator, NeedsAck, HostAnswers
<1>4. CASE RunPacker
  BY <1>4, Zenon DEF RunPacker
<1>5. CASE \/ (\E message \in HostMessages : HostSends(message)) \/ HostAcknowledges
           \/ HostGivesUp \/ RunCommunicationRx \/ RunUnpacker \/ SkipCommand \/ RunScope
           \/ SkipData \/ RunCommunicationTx \/ ScopeThreadRuns \/ Transport \/ ResetOutput
           \/ UNCHANGED vars
  BY <1>1, <1>5 DEF HostSends, HostAcknowledges, HostGivesUp, RunCommunicationRx, RunUnpacker,
        SkipCommand, RunScope, SkipData, RunCommunicationTx, ScopeThreadRuns, Transport,
        TransportReadsHead, TransportReadsBody, TransportReadsFoot, ResetOutput, vars, ctlVars
<1> QED
  BY <1>2, <1>3, <1>4, <1>5 DEF Next, StackThread

\* What was to come still is, or it has turned into something else that is to come.
LEMMA AnswerStep ==
    ASSUME TypeOK, AckInv, ResetStates = {}, ~LinkLosesFrames, AnswerToCome, waitForAck,
           [Next]_vars
    PROVE  AnswerToCome' \/ ReleaseToCome' \/ ~waitForAck'
<1> USE DEF AnswerToCome, HostAnswers
<1>1. CASE UNCHANGED <<packingPending, txVars, owed>>
  BY <1>1 DEF txVars
<1>2. CASE HostAcknowledges
  BY <1>2 DEF HostAcknowledges, Arrives, Put, putVars, AckInv, EverythingUnlocks, ReleaseToCome,
        Slots, Unlocks, None
<1>3. CASE RunDataAggregator
  BY <1>3 DEF RunDataAggregator, txVars, hostVars
<1>4. CASE RunPacker
  BY <1>4 DEF RunPacker, AckInv, WaitsForPacked, HostAnswers, None, hostVars
<1>5. CASE RunCommunicationTx
  BY <1>5 DEF RunCommunicationTx, AckInv, HeadPlace, hostVars
<1>6. CASE TransportReadsHead \/ TransportReadsBody
  BY <1>6 DEF TransportReadsHead, TransportReadsBody, hostVars
<1>7. CASE TransportReadsFoot
  <2>1. MaxOwed \in Nat \ {0} /\ owed \in 0 .. MaxOwed
    BY MessageStackAssumption DEF TypeOK
  <2>2. CASE HostAnswers(frame.type)
    BY <1>7, <2>1, <2>2 DEF TransportReadsFoot, Arrives
  <2>3. CASE ~HostAnswers(frame.type)
    BY <1>7, <2>1, <2>3 DEF TransportReadsFoot, Arrives
  <2> QED
    BY <2>2, <2>3
<1>8. CASE RunCommandParser
  BY <1>8 DEF RunCommandParser, txVars
<1>9. CASE \/ (\E message \in HostMessages : HostSends(message)) \/ HostGivesUp
           \/ RunCommunicationRx \/ RunUnpacker \/ SkipCommand \/ RunScope \/ SkipData
           \/ ScopeThreadRuns \/ UNCHANGED vars
  BY <1>1, <1>9 DEF HostSends, HostGivesUp, RunCommunicationRx, RunUnpacker, SkipCommand,
        RunScope, SkipData, ScopeThreadRuns, vars, hostVars
<1>10. ~ResetOutput
  BY DEF ResetOutput
<1> QED
  BY <1>2, <1>3, <1>4, <1>5, <1>6, <1>7, <1>8, <1>9, <1>10 DEF Next, StackThread, Transport

\* Nothing but the release of the lock takes away what will release it: a message may be
\* replaced, but only by one that ends the wait too.
LEMMA ReleaseStep ==
    ASSUME EverythingUnlocks, ReleaseToCome, [Next]_vars
    PROVE  ReleaseToCome' \/ ~waitForAck'
<1> USE DEF ReleaseToCome, Slots
<1>1. CASE UNCHANGED <<rxVars, commandPending>>
  BY <1>1 DEF rxVars, putVars
<1>2. CASE RunCommandParser
  <2>1. CASE Unlocks(commandPending)
    BY <1>2, <2>1 DEF RunCommandParser, SendNakBack, Unlocks
  <2>2. CASE ~Unlocks(commandPending)
    BY <1>2, <2>2 DEF RunCommandParser, rxVars, putVars
  <2> QED
    BY <2>1, <2>2
<1>3. CASE /\ \E message \in HostMessages \cup {"se_ack"} : Put(message)
           /\ UNCHANGED <<unpackingPending, commandPending>>
  BY <1>3 DEF EverythingUnlocks, Put, putVars, Unlocks
<1>4. CASE RunCommunicationRx
  BY <1>4 DEF RunCommunicationRx, EverythingUnlocks, ctlVars, Unlocks
<1>5. CASE RunUnpacker
  <2>1. unpackingPending # "cf_bad"
    BY DEF EverythingUnlocks, Unlocks, None
  <2> QED
    BY <1>5, <2>1 DEF RunUnpacker, EverythingUnlocks, Unlocks
<1> QED
  BY <1>1, <1>2, <1>3, <1>4, <1>5, SlotCases

\* A lock that is held waits for something that is on its way.
LEMMA WaitsForSomethingStep ==
    ASSUME TypeOK, AckInv, ResetStates = {}, ~LinkLosesFrames, [Next]_vars
    PROVE  WaitsForSomething'
<1> SUFFICES ASSUME waitForAck', greeted', ~AnswerToCome', ~ReleaseToCome' PROVE FALSE
  BY DEF WaitsForSomething
<1>1. ~RunDataAggregator \/ UNCHANGED <<waitForAck, greeted>>
  BY Zenon DEF RunDataAggregator, NeedsAck, AnswerToCome, HostAnswers, hostVars
<1>2. waitForAck /\ greeted
  <2>1. CASE UNCHANGED <<waitForAck, greeted>>
    BY <2>1
  <2>2. CASE RunCommandParser
    BY <2>2, Zenon DEF RunCommandParser, SendNakBack
  <2> QED
    BY <1>1, <2>1, <2>2 DEF Next, StackThread, HostSends, HostAcknowledges, HostGivesUp,
          RunCommunicationRx, RunUnpacker, SkipCommand, RunScope, SkipData, RunPacker,
          RunCommunicationTx, ScopeThreadRuns, Transport, TransportReadsHead,
          TransportReadsBody, TransportReadsFoot, ResetOutput, vars, ctlVars, hostVars
<1> QED
  BY <1>2, AnswerStep, ReleaseStep DEF AckInv, WaitsForSomething

(***************************************************************************)
(* The controller never waits for an acknowledgement that nobody is about  *)
(* to send, once it has heard the host, if no frame is lost on the link,   *)
(* no output is reset and all messages of the host decode and are not      *)
(* SE_NAK.  It holds whether the host waits for its answers or not: a      *)
(* message that discards or replaces the acknowledgement ends the wait     *)
(* itself.  A message that does not decode, or SE_NAK, does not.           *)
(***************************************************************************)
THEOREM AckLockJustified ==
    ASSUME HostMessages \cap {"cf_bad", "se_nak"} = {}, ~LinkLosesFrames, ResetStates = {}
    PROVE  Spec => []AckLockIsJustified
<1>1. Init => TypeOK /\ AckInv
  BY InitType, InitAck
<1>2. (TypeOK /\ AckInv) /\ [Next]_vars => (TypeOK /\ AckInv)'
  <2>1. None \notin HostMessages
    BY MessageStackAssumption DEF Commands, Configs, None
  <2> QED
    BY <2>1, TypeStep, EverythingUnlocksStep, PackingPlaceStep, HeadPlaceStep,
       WaitsForPackedStep, WaitsForSomethingStep DEF AckInv
<1>3. AckInv => AckLockIsJustified
  BY DEF AckInv, WaitsForSomething, AnswerToCome, ReleaseToCome, Slots, AckLockIsJustified
<1> QED
  BY <1>1, <1>2, <1>3, PTL DEF Spec

-----------------------------------------------------------------------------
(***************************************************************************)
(* Counting the events of a kind in the queue.                             *)
(***************************************************************************)
Places(q, S) == {k \in 1 .. Len(q) : q[k] \in S}

Count(q, S) == Cardinality(Places(q, S))

Flag(b) == IF b THEN 1 ELSE 0

\* The places of the events in a queue can be counted.
LEMMA CountType ==
    ASSUME NEW q \in Seq(Events), NEW S
    PROVE  /\ IsFiniteSet(Places(q, S)) /\ Count(q, S) \in Nat
           /\ Count(q, S) = 0 <=> Places(q, S) = {}
<1>1. Len(q) \in Nat /\ Places(q, S) \in SUBSET (1 .. Len(q))
  BY LenProperties DEF Places
<1>2. IsFiniteSet(1 .. Len(q))
  BY <1>1, FS_Interval
<1>3. IsFiniteSet(Places(q, S))
  BY <1>1, <1>2, FS_Subset
<1> QED
  BY <1>3, FS_CardinalityType, FS_EmptySet DEF Count

\* An event that is appended counts one more.
LEMMA CountAppend ==
    ASSUME NEW q \in Seq(Events), NEW event \in Events, NEW S
    PROVE  Count(Append(q, event), S) = Count(q, S) + Flag(event \in S)
<1>1. /\ Len(q) \in Nat /\ Len(Append(q, event)) = Len(q) + 1
      /\ \A k \in 1 .. Len(q) : Append(q, event)[k] = q[k]
      /\ Append(q, event)[Len(q) + 1] = event
  BY LenProperties, AppendProperties
<1>2. CASE event \in S
  <2>1. Places(Append(q, event), S) = Places(q, S) \cup {Len(q) + 1}
    BY <1>1, <1>2 DEF Places
  <2>2. Len(q) + 1 \notin Places(q, S)
    BY <1>1 DEF Places
  <2>3. IsFiniteSet(Places(q, S)) /\ Count(q, S) \in Nat
    BY CountType
  <2>4. Cardinality(Places(q, S) \cup {Len(q) + 1}) = Cardinality(Places(q, S)) + 1
    BY <2>2, <2>3, FS_AddElement
  <2> QED
    BY <1>2, <2>1, <2>3, <2>4 DEF Count, Flag
<1>3. CASE event \notin S
  <2>1. Places(Append(q, event), S) = Places(q, S)
    BY <1>1, <1>3 DEF Places
  <2> QED
    BY <1>3, <2>1, CountType DEF Count, Flag
<1> QED
  BY <1>2, <1>3

\* An event that is taken out counts one less.
LEMMA CountWithout ==
    ASSUME NEW q \in Seq(Events), NEW i \in 1 .. Len(q), NEW S
    PROVE  Count(Without(q, i), S) = Count(q, S) - Flag(q[i] \in S)
<1> DEFINE rest  == Places(q, S) \ {i}
           moved == [k \in Places(Without(q, i), S) |-> IF k < i THEN k ELSE k + 1]
<1>1. /\ Len(q) \in Nat /\ i \in Nat /\ Without(q, i) \in Seq(Events)
      /\ Len(Without(q, i)) = Len(q) - 1
      /\ \A k \in 1 .. Len(q) - 1 : Without(q, i)[k] = IF k < i THEN q[k] ELSE q[k + 1]
  <2>1. Len(q) \in Nat /\ i \in Nat
    BY LenProperties
  <2> QED
    BY <2>1, WithoutProperties, Zenon
<1>2. moved \in [Places(Without(q, i), S) -> rest]
  BY SMTT(30), <1>1 DEF Places
<1>3. \A k, l \in Places(Without(q, i), S) : moved[k] = moved[l] => k = l
  BY <1>1 DEF Places
<1>4. \A l \in rest : \E k \in Places(Without(q, i), S) : moved[k] = l
  <2> TAKE l \in rest
  <2>1. CASE l < i
    <3>1. l \in Places(Without(q, i), S)
      BY <1>1, <2>1 DEF Places
    <3> QED
      BY <2>1, <3>1
  <2>2. CASE ~(l < i)
    <3>1. l - 1 \in Places(Without(q, i), S) /\ ~(l - 1 < i)
      BY SMTT(30), <1>1, <2>2 DEF Places
    <3> QED
      BY <1>1, <3>1 DEF Places
  <2> QED
    BY <2>1, <2>2
<1>5. ExistsBijection(Places(Without(q, i), S), rest)
  <2> HIDE DEF moved, rest
  <2>1. moved \in Bijection(Places(Without(q, i), S), rest)
    BY <1>2, <1>3, <1>4, Fun_IsBij
  <2> QED
    BY <2>1 DEF ExistsBijection
<1>6. Cardinality(rest) = Count(Without(q, i), S)
  BY <1>1, <1>5, CountType, FS_Bijection DEF Count
<1>7. Cardinality(rest) = IF i \in Places(q, S) THEN Count(q, S) - 1 ELSE Count(q, S)
  BY CountType, FS_RemoveElement DEF Count
<1>8. i \in Places(q, S) <=> q[i] \in S
  BY DEF Places
<1> QED
  BY <1>6, <1>7, <1>8, CountType DEF Flag

\* Two sets together have no more elements than they have each.
LEMMA UnionCardinality ==
    ASSUME NEW S, NEW T, IsFiniteSet(S), IsFiniteSet(T)
    PROVE  /\ IsFiniteSet(S \cup T)
           /\ Cardinality(S \cup T) \in Nat /\ Cardinality(S) \in Nat /\ Cardinality(T) \in Nat
           /\ Cardinality(S \cup T) <= Cardinality(S) + Cardinality(T)
<1>1. IsFiniteSet(S \cap T) /\ IsFiniteSet(S \cup T)
  BY FS_Intersection, FS_Union
<1>2. \A U \in {S, T, S \cap T, S \cup T} : Cardinality(U) \in Nat
  BY <1>1, FS_CardinalityType
<1>3. Cardinality(S \cup T) = Cardinality(S) + Cardinality(T) - Cardinality(S \cap T)
  BY FS_Union
<1> QED
  BY <1>1, <1>2, <1>3

\* every event is an answer, a window or a piece of log
LEMMA LengthIsCount ==
    ASSUME NEW q \in Seq(Events)
    PROVE  Len(q) <= Count(q, Answer) + Count(q, {"sc_data"}) + Count(q, {"sc_log"})
<1> DEFINE both == Places(q, Answer) \cup Places(q, {"sc_data"})
<1>1. Len(q) \in Nat /\ \A k \in 1 .. Len(q) : q[k] \in Events
  BY LenProperties, ElementOfSeq
<1>2. 1 .. Len(q) = both \cup Places(q, {"sc_log"})
  BY <1>1 DEF Places, Events, Answer
<1>3. /\ IsFiniteSet(both)
      /\ Cardinality(both) <= Count(q, Answer) + Count(q, {"sc_data"})
  BY CountType, UnionCardinality DEF Count
<1>4. Cardinality(both \cup Places(q, {"sc_log"})) <= Cardinality(both) + Count(q, {"sc_log"})
  BY <1>3, CountType, UnionCardinality DEF Count
<1>5. Cardinality(1 .. Len(q)) = Len(q)
  <2>1. Cardinality(1 .. Len(q)) = IF 1 > Len(q) THEN 0 ELSE Len(q) - 1 + 1
    BY SMTT(30), <1>1, FS_Interval
  <2> QED
    BY <1>1, <2>1
<1>6. Count(q, Answer) \in Nat /\ Count(q, {"sc_data"}) \in Nat /\ Count(q, {"sc_log"}) \in Nat
  BY CountType
<1>7. Cardinality(both) \in Nat
  BY <1>3, FS_CardinalityType
<1> HIDE DEF both
<1>8. Cardinality(both \cup Places(q, {"sc_log"})) = Len(q)
  BY <1>2, <1>5, Zenon
<1> QED
  BY <1>1, <1>3, <1>4, <1>6, <1>7, <1>8

\* A push counts one more, or nothing when the queue is full.
LEMMA CountPush ==
    ASSUME NEW q \in Queues, NEW event \in Events, NEW S
    PROVE  /\ Len(q) < QueueSize => Count(Push(q, event), S) = Count(q, S) + Flag(event \in S)
           /\ Count(Push(q, event), S) \in {Count(q, S), Count(q, S) + Flag(event \in S)}
BY CountAppend DEF Push, Queues

\* A queue without these events counts none.
LEMMA CountOfNone ==
    ASSUME NEW q \in Seq(Events), NEW S, \A event \in S : ~Holds(q, event)
    PROVE  Count(q, S) = 0
BY CountType DEF Places, Holds

\* A queue holds an event if it counts at least one.
LEMMA CountOfHeld ==
    ASSUME NEW q \in Seq(Events), NEW event
    PROVE  Holds(q, event) <=> Count(q, {event}) > 0
<1>1. Holds(q, event) <=> Places(q, {event}) # {}
  BY DEF Holds, Places
<1>2. Count(q, {event}) \in Nat /\ (Count(q, {event}) = 0 <=> Places(q, {event}) = {})
  BY CountType
<1>3. Count(q, {event}) > 0 <=> Count(q, {event}) # 0
  BY <1>2
<1> QED
  BY <1>1, <1>2, <1>3, Zenon

-----------------------------------------------------------------------------
(***************************************************************************)
(* The window.  A push that the full queue drops would leave it in the     *)
(* SWAP buffers for good, unless the queue is full of older windows.  It   *)
(* is: a host that awaits its answers never has more than one on its way,  *)
(* and there is never more than one piece of log in the queue.             *)
(***************************************************************************)
\* the messages whose answer says nothing else
Asking == (Commands \ {"ev_trans", "cf_unanswered"}) \cup {"se_nak"}

MessagesIn ==
    Flag(rxType \in Asking) + Flag(unpackingPending \in Asking) + Flag(commandPending \in Asking)

AnswersBeingSent ==
    Flag(packingPending \in Answer) + Flag(txReady /\ txType \in Answer)
      + Flag(txState # "NONE" /\ frame.type \in Answer)

FewAnswers == Count(queue, Answer) + MessagesIn + AnswersBeingSent <= Flag(awaited \in Asking)

FewLogs == Count(queue, {"sc_log"}) <= 1

QueueInv == FewAnswers /\ FewLogs

WindowInv == PackingPlace /\ HeadPlace /\ QueueInv /\ WindowIsAnnounced

\* Nothing but a message that asks for it makes an answer.
LEMMA NobodyAsks == None \notin Asking /\ "se_ack" \notin Asking /\ None \notin Answer
BY DEF Asking, Commands, Configs, Answer, None

\* At the beginning there is no window.
LEMMA InitWindow == Init => WindowInv
<1> SUFFICES ASSUME Init PROVE WindowInv
  OBVIOUS
<1>1. queue = <<>> /\ ~box
  BY DEF Init, ControllerInit
<1>2. \A S : Count(queue, S) = 0
  <2>1. \A S : Places(queue, S) = {}
    BY <1>1 DEF Places
  <2> QED
    BY <2>1, FS_EmptySet DEF Count
<1>3. MessagesIn = 0 /\ AnswersBeingSent = 0 /\ Flag(awaited \in Asking) = 0
  BY NobodyAsks DEF Init, FramedIOInit, SerializerInit, ControllerInit, MessagesIn,
     AnswersBeingSent, Flag
<1> QED
  BY <1>1, <1>2, <1>3, InitFrames DEF FrameInv, WindowInv, QueueInv, FewAnswers, FewLogs,
     WindowIsAnnounced

\* What is counted is a number.
LEMMA AnswersType ==
    ASSUME queue \in Seq(Events)
    PROVE  /\ MessagesIn \in Nat /\ AnswersBeingSent \in Nat /\ \A S : Count(queue, S) \in Nat
           /\ Flag(awaited \in Asking) \in {0, 1}
BY CountType DEF MessagesIn, AnswersBeingSent, Flag

\* A message of the host does not reach the queue yet.
LEMMA HostKeepsQueueInv ==
    ASSUME TypeOK, QueueInv, HostPaced,
           HostAcknowledges \/ HostGivesUp \/ \E message \in HostMessages : HostSends(message)
    PROVE  QueueInv'
<1>1. /\ UNCHANGED <<queue, unpackingPending, commandPending, packingPending, txVars>>
      /\ UNCHANGED AnswersBeingSent /\ FewLogs'
  BY DEF HostAcknowledges, HostGivesUp, HostSends, ctlVars, rxVars, txVars, QueueInv, FewLogs,
         AnswersBeingSent
<1>2. queue \in Seq(Events)
  BY DEF TypeOK
<1>3. CASE HostAcknowledges
  <2>1. (rxType' = rxType \/ rxType' = "se_ack") /\ UNCHANGED awaited
    BY <1>3 DEF HostAcknowledges, Put, putVars
  <2>2. MessagesIn' <= MessagesIn /\ MessagesIn' \in Nat
    BY <1>1, <2>1, NobodyAsks DEF MessagesIn, Flag
  <2> QED
    BY <1>1, <1>2, <2>1, <2>2, AnswersType DEF QueueInv, FewAnswers
<1>4. ASSUME NEW message \in HostMessages, HostSends(message) PROVE QueueInv'
  <2>1. awaited = None /\ awaited' = message /\ (rxType' = rxType \/ rxType' = message)
    BY <1>4 DEF HostSends, Put, putVars
  <2>2. Count(queue, Answer) = 0 /\ MessagesIn = 0 /\ AnswersBeingSent = 0
    <3>1. Flag(awaited \in Asking) = 0
      BY <2>1, NobodyAsks DEF Flag
    <3> QED
      BY <1>2, <3>1, AnswersType DEF QueueInv, FewAnswers
  <2>3. MessagesIn' <= Flag(awaited' \in Asking) /\ MessagesIn' \in Nat
    BY <1>1, <2>1, <2>2 DEF MessagesIn, Flag
  <2>4. FewAnswers'
    <3>1. Count(queue', Answer) = 0 /\ AnswersBeingSent' = 0
      BY <1>1, <2>2
    <3>2. \A n \in Nat : \A flag : n <= flag => 0 + n + 0 <= flag
      OBVIOUS
    <3> QED
      BY <2>3, <3>1, <3>2, Zenon DEF FewAnswers
  <2> QED
    BY <1>1, <2>4 DEF QueueInv
<1>5. CASE HostGivesUp
  <2>1. UNCHANGED MessagesIn
    <3>1. UNCHANGED <<rxType, unpackingPending, commandPending>>
      BY <1>1, <1>5 DEF HostGivesUp, rxVars, putVars
    <3> QED
      BY <3>1 DEF MessagesIn
  <2>2. MessagesIn = 0
    <3>1. \A message \in {rxType, unpackingPending, commandPending} : message \notin Asking
      BY <1>5, NobodyAsks DEF HostGivesUp, AnswerIsOnItsWay
    <3> QED
      BY <3>1 DEF MessagesIn, Flag
  <2>3. AnswersBeingSent = 0
    BY <1>5 DEF HostGivesUp, AnswerIsOnItsWay, AnswersBeingSent, Flag
  <2>4. Count(queue, Answer) = 0
    BY <1>2, <1>5, CountOfNone DEF HostGivesUp, AnswerIsOnItsWay
  <2>5. Flag(awaited' \in Asking) \in {0, 1}
    BY DEF Flag
  <2> QED
    BY <1>1, <2>1, <2>2, <2>3, <2>4, <2>5 DEF QueueInv, FewAnswers
<1> QED
  BY <1>3, <1>4, <1>5

\* Nor does a message that is received and unpacked.
LEMMA ReceiverKeepsQueueInv ==
    ASSUME TypeOK, QueueInv, RunCommunicationRx \/ RunUnpacker
    PROVE  QueueInv'
<1>1. /\ UNCHANGED <<queue, packingPending, txVars, awaited>>
      /\ UNCHANGED AnswersBeingSent
  <2>1. UNCHANGED <<queue, packingPending, txVars, awaited>>
    BY DEF RunCommunicationRx, RunUnpacker, hostVars
  <2> QED
    BY <2>1 DEF AnswersBeingSent, txVars
<1>2. MessagesIn' \in Nat /\ MessagesIn' <= MessagesIn
  <2>1. CASE RunCommunicationRx
    <3>1. UNCHANGED commandPending
      BY <2>1 DEF RunCommunicationRx, ctlVars
    <3> QED
      BY <2>1, <3>1, NobodyAsks DEF RunCommunicationRx, MessagesIn, Flag
  <2>2. CASE RunUnpacker
    <3>1. "se_nak" \in Asking /\ "cf_bad" \in Asking
      BY DEF Asking, Commands
    <3>2. \/ unpackingPending = None /\ UNCHANGED commandPending
          \/ commandPending' \in Asking <=> unpackingPending \in Asking
      BY <2>2, <3>1 DEF RunUnpacker, None
    <3> QED
      BY <2>2, <3>2, NobodyAsks DEF RunUnpacker, MessagesIn, Flag
  <2> QED
    BY <2>1, <2>2
<1>3. queue \in Seq(Events)
  BY DEF TypeOK
<1> QED
  BY <1>1, <1>2, <1>3, AnswersType DEF QueueInv, FewAnswers, FewLogs

\* what the execution of a command pushes, and what it does to the window
LEMMA CommandCases ==
    ASSUME TypeOK, RunCommandParser
    PROVE  /\ UNCHANGED <<rxType, unpackingPending, packingPending, txVars, awaited>>
           /\ commandPending' = None /\ box' \in {FALSE, box}
           /\ \/ UNCHANGED queue
              \/ commandPending \in Asking /\ \E event \in Answer : queue' = Push(queue, event)
              \/ queue' = Push(queue, "sc_data")
<1>1. CASE SendNakBack
  BY <1>1 DEF SendNakBack, RunCommandParser, Answers, Answer, Asking, rxVars, putVars
<1>2. CASE ExecuteCommand
  BY <1>2 DEF RunCommandParser, ExecuteCommand, CommandRunning, CommandTInc, CommandClear,
        CommandTrans, CommandAnnounce, CommandDetect, CommandReturnsEarly, NoCommand, Answers,
        Answer, Asking, Commands, Configs, rxVars, putVars
<1> QED
  BY <1>1, <1>2 DEF RunCommandParser, rxVars, putVars

\* The answer of a command takes the place the command had.
LEMMA CommandKeepsQueueInv ==
    ASSUME TypeOK, QueueInv, RunCommandParser
    PROVE  QueueInv'
<1>0. queue \in Queues /\ queue \in Seq(Events)
  BY DEF TypeOK, Queues
<1>1. /\ \A S : Count(queue, S) \in Nat
      /\ MessagesIn \in Nat /\ AnswersBeingSent \in Nat
  BY <1>0, AnswersType
<1>2. UNCHANGED <<AnswersBeingSent, awaited>>
  BY CommandCases DEF AnswersBeingSent, txVars
<1>3. MessagesIn' = MessagesIn - Flag(commandPending \in Asking)
  BY CommandCases, NobodyAsks DEF MessagesIn, Flag
<1>4. MessagesIn' \in Nat
  BY DEF MessagesIn, Flag
<1>5. CASE UNCHANGED queue
  BY <1>1, <1>2, <1>3, <1>4, <1>5 DEF QueueInv, FewAnswers, FewLogs, Flag
<1>6. ASSUME commandPending \in Asking, NEW event \in Answer, queue' = Push(queue, event)
      PROVE  QueueInv'
  <2>1. /\ Count(queue', Answer) \in {Count(queue, Answer), Count(queue, Answer) + 1}
        /\ Count(queue', {"sc_log"}) = Count(queue, {"sc_log"})
    BY <1>0, <1>1, <1>6, CountPush DEF Answer, Events, Flag
  <2>2. MessagesIn' = MessagesIn - 1
    BY <1>3, <1>6 DEF Flag
  <2> QED
    BY <1>1, <1>2, <2>1, <2>2 DEF QueueInv, FewAnswers, FewLogs, Flag
<1>7. CASE queue' = Push(queue, "sc_data")
  <2>1. /\ Count(queue', Answer) = Count(queue, Answer)
        /\ Count(queue', {"sc_log"}) = Count(queue, {"sc_log"})
    BY <1>0, <1>1, <1>7, CountPush DEF Answer, Events, Flag
  <2> QED
    BY <1>1, <1>2, <1>3, <1>4, <2>1 DEF QueueInv, FewAnswers, FewLogs, Flag
<1> QED
  BY <1>5, <1>6, <1>7, CommandCases

\* A command does not take the event of a window out of the queue.
LEMMA CommandKeepsWindow ==
    ASSUME TypeOK, WindowIsAnnounced, RunCommandParser
    PROVE  WindowIsAnnounced'
<1>1. queue \in Queues /\ queue \in Seq(Events)
  BY DEF TypeOK, Queues
<1>2. UNCHANGED packingPending /\ box' \in {FALSE, box}
  BY CommandCases
<1>3. Holds(queue, "sc_data") => Holds(queue', "sc_data")
  <2>1. \A event \in Events : Holds(queue, "sc_data") => Holds(Push(queue, event), "sc_data")
    BY <1>1, AppendProperties, LenProperties DEF Holds, Push
  <2>2. Answer \cup {"sc_data"} \subseteq Events
    BY DEF Answer, Events
  <2> QED
    BY <2>1, <2>2, CommandCases
<1> QED
  BY <1>2, <1>3 DEF WindowIsAnnounced

\* A queue of three events or more is full of windows when it is full.
LEMMA HandOverStep ==
    ASSUME TypeOK, QueueInv, QueueSize >= 3, HandOver,
           UNCHANGED <<rxVars, commandPending, packingPending, txVars, awaited>>
    PROVE  QueueInv' /\ WindowIsAnnounced'
<1>0. queue \in Queues /\ queue \in Seq(Events) /\ Len(queue) \in Nat
  BY LenProperties DEF TypeOK, Queues
<1>1. \A S : Count(queue, S) \in Nat
  BY <1>0, CountType
<1>2. queue' = Push(queue, "sc_data") /\ UNCHANGED <<MessagesIn, AnswersBeingSent, awaited>>
  BY DEF HandOver, MessagesIn, AnswersBeingSent, rxVars, putVars, txVars
<1>3. QueueInv'
  <2>1. /\ Count(queue', Answer) = Count(queue, Answer)
        /\ Count(queue', {"sc_log"}) = Count(queue, {"sc_log"})
    BY <1>0, <1>1, <1>2, CountPush DEF Answer, Events, Flag
  <2> QED
    BY <1>2, <2>1 DEF QueueInv, FewAnswers, FewLogs
<1>4. Holds(queue', "sc_data")
  <2>1. CASE Len(queue) < QueueSize
    BY <1>0, <1>2, <2>1, AppendProperties DEF Push, Holds, Events
  <2>2. CASE ~(Len(queue) < QueueSize)
    <3>1. Len(queue) <= Count(queue, Answer) + Count(queue, {"sc_data"}) + Count(queue, {"sc_log"})
      BY <1>0, LengthIsCount
    <3>2. Count(queue, Answer) <= 1 /\ Count(queue, {"sc_log"}) <= 1
      BY <1>0, <1>1, AnswersType DEF QueueInv, FewAnswers, FewLogs
    <3>3. Count(queue, {"sc_data"}) > 0
      BY <1>0, <1>1, <2>2, <3>1, <3>2, MessageStackAssumption
    <3> QED
      BY <1>0, <1>2, <2>2, <3>3, CountOfHeld DEF Push
  <2> QED
    BY <2>1, <2>2
<1> QED
  BY <1>3, <1>4 DEF WindowIsAnnounced

\* The aggregator may add a piece of log before it takes an event out.
LEMMA AggregatorStep ==
    ASSUME TypeOK, QueueInv, PackingPlace, WindowIsAnnounced, RunDataAggregator
    PROVE  QueueInv' /\ WindowIsAnnounced'
<1>0. queue \in Queues /\ queue \in Seq(Events)
  BY DEF TypeOK, Queues
<1>1. /\ UNCHANGED <<box, MessagesIn, awaited>> /\ packingPending = None
      /\ \A S : Count(queue, S) \in Nat
      /\ AnswersBeingSent' = AnswersBeingSent + Flag(packingPending' \in Answer)
      /\ MessagesIn \in Nat /\ AnswersBeingSent \in Nat
  <2>1. UNCHANGED <<box, MessagesIn, awaited, txVars>> /\ packingPending = None
    BY DEF RunDataAggregator, rxVars, putVars, hostVars, MessagesIn, PackingPlace
  <2>2. AnswersBeingSent' = AnswersBeingSent + Flag(packingPending' \in Answer)
    BY <2>1, NobodyAsks DEF AnswersBeingSent, txVars, Flag
  <2> QED
    BY <1>0, <2>1, <2>2, AnswersType
<1>2. CASE UNCHANGED <<queue, packingPending, waitForAck>>
  BY <1>1, <1>2, NobodyAsks DEF QueueInv, FewAnswers, FewLogs, WindowIsAnnounced, Flag
<1>3. CASE ~UNCHANGED <<queue, packingPending, waitForAck>>
  <2>1. PICK log \in BOOLEAN :
          /\ WithLog(queue, log) \in Queues
          /\ \E i \in 1 .. Len(WithLog(queue, log)) :
               /\ AggregatorPops(WithLog(queue, log), i)
               /\ WithLog(queue, log)[i] \in Events
               /\ Without(WithLog(queue, log), i) \in Queues
    BY <1>0, <1>3, AggregatorCases
  <2> DEFINE q == WithLog(queue, log)
  <2>2. /\ q \in Queues /\ q \in Seq(Events)
        /\ Count(q, Answer) = Count(queue, Answer)
        /\ Count(q, {"sc_data"}) = Count(queue, {"sc_data"})
        /\ Count(q, {"sc_log"}) \in Nat /\ Count(q, {"sc_log"}) <= 1
    <3>1. CASE log /\ ~Holds(queue, "sc_log")
      <4>1. Count(queue, {"sc_log"}) = 0
        BY <1>0, <3>1, CountOfNone
      <4> QED
        BY SMTT(30), <1>0, <1>1, <2>1, <3>1, <4>1, CountPush DEF WithLog, Answer, Events, Flag,
              Queues
    <3>2. CASE ~(log /\ ~Holds(queue, "sc_log"))
      BY <1>0, <1>1, <2>1, <3>2 DEF WithLog, QueueInv, FewLogs, Queues
    <3> QED
      BY <3>1, <3>2
  <2> HIDE DEF q
  <2>3. PICK i \in 1 .. Len(q) : AggregatorPops(q, i) /\ q[i] \in Events
    BY <2>1 DEF q
  <2>4. \A S : /\ Count(q, S) \in Nat /\ Count(queue', S) \in Nat
                /\ Count(queue', S) = Count(q, S) - Flag(q[i] \in S)
    BY <2>2, <2>3, CountType, CountWithout, WithoutProperties DEF AggregatorPops
  <2>5. packingPending' = q[i]
    BY <2>3 DEF AggregatorPops
  <2>6. QueueInv'
    <3>1. FewLogs'
      BY <2>2, <2>4 DEF FewLogs, Flag
    <3>2. Count(queue', Answer) + AnswersBeingSent' = Count(queue, Answer) + AnswersBeingSent
      BY <1>1, <2>2, <2>4, <2>5 DEF Flag
    <3>3. FewAnswers'
      <4>1. Count(queue', Answer) \in Nat /\ AnswersBeingSent' \in Nat
        BY <1>1, <2>4 DEF Flag
      <4> QED
        BY <1>1, <3>2, <4>1 DEF QueueInv, FewAnswers
    <3> QED
      BY <3>1, <3>3 DEF QueueInv
  <2>7. WindowIsAnnounced'
    <3>1. CASE q[i] = "sc_data"
      BY <2>5, <3>1 DEF WindowIsAnnounced
    <3>2. CASE q[i] # "sc_data"
      <4>1. Count(queue', {"sc_data"}) = Count(queue, {"sc_data"})
        BY <1>1, <2>2, <2>4, <3>2 DEF Flag
      <4>2. queue' \in Seq(Events)
        BY <2>2, <2>3, WithoutProperties DEF AggregatorPops
      <4>3. Holds(queue, "sc_data") => Holds(queue', "sc_data")
        BY <1>0, <4>1, <4>2, CountOfHeld
      <4> QED
        BY <1>1, <4>3 DEF WindowIsAnnounced, None
    <3> QED
      BY <3>1, <3>2
  <2> QED
    BY <2>6, <2>7
<1> QED
  BY <1>2, <1>3

\* Packing SC_DATA takes the window, and there is nothing in its way.
LEMMA PackerStep ==
    ASSUME TypeOK, QueueInv, PackingPlace, WindowIsAnnounced, RunPacker
    PROVE  QueueInv' /\ WindowIsAnnounced'
<1>1. UNCHANGED <<queue, MessagesIn, awaited>>
  BY DEF RunPacker, rxVars, putVars, ctlVars, hostVars, MessagesIn
<1>2. QueueInv'
  <2>1. AnswersBeingSent' \in Nat /\ AnswersBeingSent' <= AnswersBeingSent
    <3>1. UNCHANGED <<txState, frame>>
      BY DEF RunPacker
    <3>2. CASE packingPending = None
      BY <3>1, <3>2 DEF RunPacker, AnswersBeingSent, Flag
    <3>3. CASE packingPending # None
      <4>1. packingPending' = None /\ txType' = packingPending /\ txReady' = TRUE
        BY <3>3 DEF RunPacker
      <4> QED
        BY <3>1, <4>1, NobodyAsks DEF AnswersBeingSent, Flag
    <3> QED
      BY <3>2, <3>3
  <2>2. queue \in Seq(Events)
    BY DEF TypeOK
  <2> QED
    BY <1>1, <2>1, <2>2, AnswersType DEF QueueInv, FewAnswers, FewLogs
<1>3. box' => box /\ packingPending # "sc_data"
  BY DEF RunPacker, PackingPlace, None
<1> QED
  BY <1>1, <1>2, <1>3 DEF WindowIsAnnounced

\* A frame takes the answer along, and the host that hears it awaits nothing any more.
LEMMA FrameStep ==
    ASSUME TypeOK, QueueInv, HeadPlace, RunCommunicationTx \/ Transport \/ ResetOutput
    PROVE  QueueInv'
<1>0. queue \in Seq(Events)
  BY DEF TypeOK
<1>1. UNCHANGED <<queue, MessagesIn, packingPending>>
  BY DEF RunCommunicationTx, Transport, TransportReadsHead, TransportReadsBody,
         TransportReadsFoot, ResetOutput, rxVars, putVars, ctlVars, MessagesIn
<1>2. AnswersBeingSent' \in Nat
  BY DEF AnswersBeingSent, Flag
<1>3. CASE AnswersBeingSent' <= AnswersBeingSent /\ UNCHANGED awaited
  BY <1>0, <1>1, <1>2, <1>3, AnswersType DEF QueueInv, FewAnswers, FewLogs
<1>4. CASE RunCommunicationTx
  <2>1. UNCHANGED <<awaited, txType>>
    BY <1>4 DEF RunCommunicationTx, hostVars
  <2>2. CASE UNCHANGED <<frame, headWaits, txState, txReady>>
    BY <1>1, <1>2, <1>3, <2>1, <2>2 DEF AnswersBeingSent, Flag
  <2>3. CASE txState = "NONE" /\ txReady /\ frame'.type = txType /\ ~txReady' /\ txState' = "HEAD"
    BY <1>1, <1>3, <2>1, <2>3 DEF AnswersBeingSent, Flag
  <2> QED
    BY <1>4, <2>2, <2>3 DEF RunCommunicationTx, HeadPlace
<1>5. CASE TransportReadsHead \/ TransportReadsBody
  <2>1. UNCHANGED <<awaited, txReady, txType, frame>> /\ txState # "NONE"
    BY <1>5 DEF TransportReadsHead, TransportReadsBody, hostVars
  <2> QED
    BY <1>1, <1>3, <2>1 DEF AnswersBeingSent, Flag
<1>6. CASE ResetOutput
  <2>1. UNCHANGED awaited /\ txType' = None /\ txState' = "NONE"
    BY <1>6 DEF ResetOutput, hostVars
  <2> QED
    BY <1>1, <1>3, <2>1, NobodyAsks DEF AnswersBeingSent, Flag
<1>7. CASE TransportReadsFoot
  <2>1. /\ UNCHANGED <<txReady, txType, frame>> /\ txState # "NONE" /\ txState' = "NONE"
        /\ awaited' = awaited \/ (awaited' = None /\ frame.type \in AnswersTo(awaited))
    BY <1>7 DEF TransportReadsFoot
  <2>2. AnswersBeingSent' = AnswersBeingSent - Flag(frame.type \in Answer)
    BY <1>1, <2>1 DEF AnswersBeingSent, Flag
  <2>3. CASE UNCHANGED awaited
    BY <1>2, <1>3, <2>2, <2>3, <1>0, AnswersType DEF Flag
  <2>4. CASE awaited' = None /\ frame.type \in AnswersTo(awaited)
    <3>1. awaited \in Asking => frame.type \in Answer
      BY <2>4 DEF AnswersTo, Asking, Answer, Commands, Configs
    <3>2. /\ Count(queue, Answer) + MessagesIn + AnswersBeingSent' <= 0
      BY <1>0, <2>2, <3>1, AnswersType DEF QueueInv, FewAnswers, Flag
    <3>3. Flag(awaited' \in Asking) = 0
      BY <2>4, NobodyAsks DEF Flag
    <3> QED
      BY <1>1, <3>2, <3>3 DEF QueueInv, FewAnswers, FewLogs
  <2> QED
    BY <2>1, <2>3, <2>4
<1> QED
  BY <1>4, <1>5, <1>6, <1>7 DEF Transport

\* The room that is left in the queue suffices for the announcement of a window.
LEMMA WindowStep ==
    ASSUME TypeOK, WindowInv, HostPaced, QueueSize >= 3, [Next]_vars
    PROVE  QueueInv' /\ WindowIsAnnounced'
<1> USE DEF WindowInv
<1>1. CASE UNCHANGED <<queue, box, packingPending>> /\ QueueInv'
  BY <1>1 DEF WindowIsAnnounced
<1>2. CASE RunCommandParser
  BY <1>2, CommandKeepsQueueInv, CommandKeepsWindow
<1>3. CASE HostAcknowledges \/ HostGivesUp \/ \E message \in HostMessages : HostSends(message)
  <2>1. UNCHANGED <<queue, box, packingPending>>
    BY <1>3 DEF HostAcknowledges, HostGivesUp, HostSends
  <2> QED
    BY <1>1, <1>3, <2>1, HostKeepsQueueInv
<1>4. CASE RunCommunicationRx \/ RunUnpacker
  <2>1. UNCHANGED <<queue, box, packingPending>>
    BY <1>4 DEF RunCommunicationRx, RunUnpacker
  <2> QED
    BY <1>1, <1>4, <2>1, ReceiverKeepsQueueInv
<1>5. CASE UNCHANGED <<rxVars, commandPending, packingPending, txVars, awaited, queue, box>>
  <2>1. QueueInv'
    BY <1>5 DEF QueueInv, FewAnswers, FewLogs, MessagesIn, AnswersBeingSent, rxVars, putVars,
          txVars
  <2> QED
    BY <1>1, <1>5, <2>1
<1>6. CASE RunScope \/ ScopeThreadRuns
  <2>1. UNCHANGED <<rxVars, commandPending, packingPending, txVars, awaited>>
    BY <1>6 DEF RunScope, ScopeThreadRuns, ctlVars, hostVars
  <2> QED
    BY <1>5, <1>6, <2>1, HandOverStep DEF RunScope, ScopeThreadRuns
<1>7. CASE RunDataAggregator
  BY <1>7, AggregatorStep
<1>8. CASE RunPacker
  BY <1>8, PackerStep
<1>9. CASE RunCommunicationTx \/ Transport \/ ResetOutput
  <2>1. UNCHANGED <<queue, box, packingPending>>
    BY <1>9 DEF RunCommunicationTx, Transport, TransportReadsHead, TransportReadsBody,
          TransportReadsFoot, ResetOutput
  <2> QED
    BY <1>1, <1>9, <2>1, FrameStep
<1>10. CASE SkipCommand \/ SkipData \/ UNCHANGED vars
  BY <1>5, <1>10 DEF SkipCommand, SkipData, vars, ctlVars, hostVars
<1> QED
  BY <1>2, <1>3, <1>4, <1>6, <1>7, <1>8, <1>9, <1>10 DEF Next, StackThread

(***************************************************************************)
(* A window is never forgotten in the SWAP buffers if the host awaits the  *)
(* answer to a message before it sends the next, or gives up when none can *)
(* come any more, and the queue has room for three events (the code's has  *)
(* ten places): the push of its event is dropped only when the queue is    *)
(* full, and then the event of an older window is in it.  Its messages may *)
(* fail to decode, frames may be lost and output reset, but not between    *)
(* runTx and the head being read: the head that stays would give the host  *)
(* an answer to a later message.  With two places the queue may be full of *)
(* an answer and a piece of log.                                           *)
(***************************************************************************)
THEOREM WindowAnnounced ==
    ASSUME HostPaced, "HEAD" \notin ResetStates, QueueSize >= 3
    PROVE  Spec => []WindowIsAnnounced
<1>1. Init => TypeOK /\ WindowInv
  BY InitType, InitWindow
<1>2. (TypeOK /\ WindowInv) /\ [Next]_vars => (TypeOK /\ WindowInv)'
  BY TypeStep, PackingPlaceStep, HeadPlaceStep, WindowStep DEF WindowInv
<1>3. WindowInv => WindowIsAnnounced
  BY DEF WindowInv
<1> QED
  BY <1>1, <1>2, <1>3, PTL DEF Spec

-----------------------------------------------------------------------------
(***************************************************************************)
(* Commands that wait.  Until a message has been answered a host that      *)
(* awaits the answer sends nothing behind it, except acknowledgements.     *)
(***************************************************************************)
NothingBehind ==
    /\ commandPending \in Asking => {rxType, unpackingPending} \subseteq {None, "se_ack"}
    /\ unpackingPending \in Asking => rxType \in {None, "se_ack"}

\* When the host sends, none of its messages is on its way in.
LEMMA NothingWaits ==
    ASSUME TypeOK, QueueInv, awaited = None
    PROVE  commandPending \notin Asking /\ unpackingPending \notin Asking
<1>1. Flag(awaited \in Asking) = 0
  BY NobodyAsks DEF Flag
<1>2. queue \in Seq(Events)
  BY DEF TypeOK
<1>3. MessagesIn = 0
  BY <1>1, <1>2, AnswersType DEF QueueInv, FewAnswers
<1> QED
  BY <1>3 DEF MessagesIn, Flag

\* So nothing comes up behind a message that waits.
LEMMA NothingBehindStep ==
    ASSUME TypeOK, QueueInv, NothingBehind, HostPaced, [Next]_vars
    PROVE  NothingBehind'
<1> USE DEF NothingBehind
<1>1. CASE UNCHANGED <<rxVars, commandPending>>
  BY <1>1 DEF rxVars, putVars
<1>2. CASE RunCommandParser
  BY <1>2, NobodyAsks DEF RunCommandParser, rxVars, putVars
<1>3. CASE /\ HostAcknowledges
           /\ UNCHANGED <<unpackingPending, commandPending>>
  <2>1. rxType' \in {rxType, "se_ack"}
    BY <1>3 DEF HostAcknowledges, Put, putVars
  <2> QED
    BY <1>3, <2>1
<1>4. CASE /\ \E message \in HostMessages : HostSends(message)
           /\ UNCHANGED <<unpackingPending, commandPending>>
  <2>1. awaited = None
    BY <1>4 DEF HostSends
  <2> QED
    BY <1>4, <2>1, NothingWaits
<1>5. CASE RunCommunicationRx
  BY <1>5, NobodyAsks DEF RunCommunicationRx, ctlVars
<1>6. CASE RunUnpacker
  <2>1. "se_nak" \in Asking /\ "cf_bad" \in Asking
    BY DEF Asking, Commands
  <2>2. /\ unpackingPending' = None /\ rxType' = rxType
        /\ commandPending' \in Asking => \/ unpackingPending \in Asking
                                         \/ unpackingPending = None /\ UNCHANGED commandPending
    BY <1>6, <2>1 DEF RunUnpacker
  <2> QED
    BY <2>2, NobodyAsks
<1> QED
  BY <1>1, <1>2, <1>3, <1>4, <1>5, <1>6, SlotCases

(***************************************************************************)
(* A host that awaits the answer to its command loses it to nothing but    *)
(* one of its own acknowledgements of a window or a piece of log, whatever *)
(* fails to decode, is lost on the link or reset, and however often the    *)
(* config mutex is busy.  To one of these it may lose it: NoCommandLost    *)
(* does not hold.  The hypotheses are those of WindowAnnounced.            *)
(***************************************************************************)
THEOREM CommandsYieldToAcks ==
    ASSUME HostPaced, "HEAD" \notin ResetStates, QueueSize >= 3
    PROVE  Spec => OnlyAcksOverwrite
<1> DEFINE Inv == TypeOK /\ WindowInv /\ NothingBehind
<1>1. Init => Inv
  BY InitType, InitWindow, NobodyAsks
     DEF Init, FramedIOInit, SerializerInit, ControllerInit, NothingBehind
<1>2. Inv /\ [Next]_vars => Inv'
  BY TypeStep, PackingPlaceStep, HeadPlaceStep, WindowStep, NothingBehindStep DEF WindowInv
<1>3. ASSUME Inv, [Next]_vars, commandPending' # commandPending,
             commandPending \in Commands \ {"ev_trans", "cf_unanswered"}
      PROVE  RunCommandParser \/ commandPending' = "se_ack"
  <2>1. commandPending \in Asking
    BY <1>3 DEF Asking
  <2>2. unpackingPending \in {None, "se_ack"}
    BY <1>3, <2>1 DEF NothingBehind
  <2>3. ~RunCommunicationRx
    BY <1>3 DEF RunCommunicationRx, ctlVars
  <2>4. CASE RunUnpacker
    BY <1>3, <2>2, <2>4 DEF RunUnpacker, None
  <2> QED
    BY <1>3, <2>3, <2>4, SlotCases
<1>4. Inv /\ [Next]_vars
        => [commandPending' # commandPending
              /\ commandPending \in Commands \ {"ev_trans", "cf_unanswered"}
              => RunCommandParser \/ commandPending' = "se_ack"]_vars
  BY <1>3
<1> QED
  BY <1>1, <1>2, <1>4, PTL DEF Spec, OnlyAcksOverwrite
=============================================================================
