---------------------------- MODULE MessageStack ----------------------------
(***************************************************************************)
(* The way of a message through the stack: from the frame the transport    *)
(* puts into FramedIO (Communication/Interfaces/FramedIO.c) over the       *)
(* serializer (Serialisation/Serializer.c) into the controller             *)
(* (Control/Controller.c), which executes it, and from the event queue of  *)
(* the controller over the packer back to the transport.  Every module     *)
(* hands over to the next one through a single pending slot, so the order  *)
(* of the runnables in a turn (Builders/ScopeRunner.c,                     *)
(* Builders/ScopeThreadRunner.c) is part of the model.                     *)
(*                                                                         *)
(* A frame is one message here: its type, and in the output stream the     *)
(* message whose body it holds.  The transport reads a frame in its three  *)
(* parts, head, body and foot, at its own pace.  The scope is reduced to   *)
(* the box of CaptureProtocol: a window is handed over only when the SWAP  *)
(* buffers are empty, and packing an SC_DATA message empties them.         *)
(***************************************************************************)
EXTENDS Naturals, Sequences

CONSTANTS
    HostMessages,         \* what the host sends of its own accord
    QueueSize,            \* events the queue takes (10)
    DataPriority,         \* priorities.data; the other priorities are fixed
    LogPriority,          \* priorities.log
    Logging,              \* TRUE iff the application writes to the log stream
    Threaded,             \* TRUE: ScopeThreadRunner, FALSE: ScopeRunner
    SynchronousTransport, \* TRUE iff the transmit callback reads the whole frame
    HostPaced,            \* TRUE iff the host sends one message and awaits its answer
    LinkLosesFrames,      \* TRUE iff a frame may be lost on its way
    ResetStates,          \* the parts of a frame in which the application resets the output
    MaxOwed               \* bounds the answers the host owes

None == "none"

\* cf_bad does not decode, and may leave a rest of its payload in the input buffer;
\* cf_unanswered names the channel one past the last, at which CommandRunning and
\* CommandAddr return without an answer
Configs  == {"cf_running", "cf_t_inc", "ev_clear"}      \* acknowledged when executed
Commands == Configs \cup {"cf_bad", "cf_unanswered", "ev_trans", "ev_announce", "ev_detect"}
Events   == {"se_ack", "se_nak", "sc_data", "sc_announce", "sc_detect", "sc_log"}

\* the messages of the host that have a payload; the others are empty frames
WithPayload == {"cf_running", "cf_t_inc", "cf_bad", "cf_unanswered"}

ASSUME MessageStackAssumption ==
    /\ HostMessages \subseteq Commands \cup {"se_nak"}
    /\ QueueSize \in Nat \ {0}
    /\ DataPriority \in Nat /\ LogPriority \in Nat
    /\ Logging \in BOOLEAN /\ Threaded \in BOOLEAN
    /\ SynchronousTransport \in BOOLEAN /\ HostPaced \in BOOLEAN
    /\ LinkLosesFrames \in BOOLEAN /\ ResetStates \subseteq {"NONE", "HEAD", "BODY", "FOOT"}
    /\ MaxOwed \in Nat \ {0}

VARIABLES
    pc,                \* the runnable that is next in the turn
    \* FramedIO, receiving
    rxType,            \* type of the complete frame; None: rxDataReady is false
    unread,            \* TRUE iff the input buffer holds the rest of an earlier payload
    hung,              \* TRUE iff FramedIO_putRxData does not come back
    \* Serializer
    unpackingPending,
    packingPending,
    \* Controller
    commandPending,
    waitForAck,
    queue,             \* the events, oldest first
    \* FramedIO, sending
    output,            \* the message whose body is in the output stream
    txReady,           \* txDataFramingReady
    txType,
    txState,           \* NONE, HEAD, BODY or FOOT
    frame,             \* the head of the frame in transmission: type, and if it has a body
    headWaits,         \* TRUE iff it has not been read out of its buffer
    frameBody,         \* the body the transport has read for it
    \* Scope
    box,               \* TRUE iff a window waits in the SWAP buffers
    \* The host
    awaited,           \* the message whose answer a paced host awaits
    owed,              \* messages it has received and not acknowledged yet
    greeted            \* TRUE iff it has been heard since the start

putVars  == <<rxType, unread, hung>>
rxVars   == <<putVars, unpackingPending>>
ctlVars  == <<commandPending, waitForAck>>
txVars   == <<txReady, txType, txState, frame, headWaits, frameBody>>
hostVars == <<awaited, owed, greeted>>
vars     == <<pc, rxVars, packingPending, ctlVars, queue, output, txVars, box, hostVars>>

\* FramedIO_resetTx leaves txDataFramingReady set: the first frame is an empty SE_NONE.
FramedIOInit ==
    /\ rxType = None /\ unread = FALSE /\ hung = FALSE
    /\ output = None /\ txReady = TRUE /\ txType = None /\ txState = "NONE"
    /\ frame = [type |-> None, body |-> FALSE] /\ headWaits = FALSE /\ frameBody = None

SerializerInit == unpackingPending = None /\ packingPending = None

\* The controller waits for an acknowledgement until it has heard the host.
ControllerInit == commandPending = None /\ waitForAck = TRUE /\ queue = <<>>

Init ==
    /\ pc = "receive"
    /\ FramedIOInit /\ SerializerInit /\ ControllerInit
    /\ box = FALSE
    /\ awaited = None /\ owed = 0 /\ greeted = FALSE

-----------------------------------------------------------------------------
(***************************************************************************)
(* The event queue.  AgingPriorityQueue is part of se-lib-c: it pops the   *)
(* oldest event of the highest priority, unless one of lower priority has  *)
(* aged; so the oldest of any priority may come next.                      *)
(***************************************************************************)
PushNeverDrops(q, event) == Append(q, event)  \* mutation: the queue has no limit

Push(q, event) == IF Len(q) < QueueSize THEN Append(q, event) ELSE q

Priority(event) ==
    CASE event \in {"se_ack", "se_nak"}           -> 0
      [] event \in {"sc_announce", "sc_detect"}   -> 1
      [] event = "sc_data"                        -> DataPriority
      [] event = "sc_log"                         -> LogPriority

Poppable(q) == {i \in 1 .. Len(q) : \A j \in 1 .. i - 1 : Priority(q[j]) # Priority(q[i])}

Without(q, i) == SubSeq(q, 1, i - 1) \o SubSeq(q, i + 1, Len(q))

Holds(q, event) == \E i \in 1 .. Len(q) : q[i] = event

\* messageNeedsToBeAcked
NeedsAckAlways(event) == TRUE  \* mutation

NeedsAck(event) == event \in {"sc_data", "sc_log"}

\* what the host acknowledges when it has received it
HostAnswers(event) == event \in {"sc_data", "sc_log"}

HasBody(event) == event \in {"sc_data", "sc_announce", "sc_log"}

-----------------------------------------------------------------------------
(***************************************************************************)
(* Receiving.                                                              *)
(***************************************************************************)
(***************************************************************************)
(* FramedIO_putRxData of one frame.  The frame is discarded while another  *)
(* one waits.  Behind the rest of an earlier payload it never comes        *)
(* through: when its own payload is shorter than the rest, put does not    *)
(* come back; otherwise the checksum is looked for too early, and the      *)
(* frame and the rest are dropped (FramedRx has it byte by byte).          *)
(***************************************************************************)
Put(message) ==
    IF hung \/ rxType # None
    THEN UNCHANGED putVars
    ELSE \/ ~unread /\ rxType' = message /\ UNCHANGED <<unread, hung>>
         \/ unread /\ hung' = TRUE /\ UNCHANGED <<rxType, unread>>
         \/ unread /\ message \in WithPayload /\ unread' = FALSE /\ UNCHANGED <<rxType, hung>>

\* A host that paces itself has seen the answer to its last message when it sends the next.
HostSends(message) ==
    /\ HostPaced => awaited = None
    /\ Put(message)
    /\ awaited' = IF HostPaced THEN message ELSE awaited
    /\ UNCHANGED <<pc, unpackingPending, packingPending, ctlVars, queue, output, txVars, box,
                   owed, greeted>>

Arrives == IF LinkLosesFrames THEN {TRUE, FALSE} ELSE {TRUE}

\* The answer to SC_DATA and SC_LOG does not wait for anything.
HostAcknowledges ==
    /\ owed > 0
    /\ \E arrives \in Arrives : IF arrives THEN Put("se_ack") ELSE UNCHANGED putVars
    /\ owed' = owed - 1
    /\ UNCHANGED <<pc, unpackingPending, packingPending, ctlVars, queue, output, txVars, box,
                   awaited, greeted>>

Answer == {"se_ack", "se_nak", "sc_announce", "sc_detect"}

\* A message of the host or an answer is on its way.
AnswerIsOnItsWay ==
    \/ \E message \in {rxType, unpackingPending, commandPending} : message \notin {None, "se_ack"}
    \/ packingPending \in Answer
    \/ txReady /\ txType \in Answer
    \/ txState # "NONE" /\ frame.type \in Answer
    \/ \E event \in Answer : Holds(queue, event)

\* The time a host waits for an answer is longer than an answer takes.
HostGivesUp ==
    /\ awaited # None /\ ~AnswerIsOnItsWay
    /\ awaited' = None
    /\ UNCHANGED <<pc, rxVars, packingPending, ctlVars, queue, output, txVars, box, owed, greeted>>

\* FramedIO runRx, with Serializer updateUnpacker
RunCommunicationRx ==
    /\ pc = "receive" /\ pc' = "unpack"
    /\ SynchronousTransport => txState = "NONE"
    /\ rxType' = None
    /\ unpackingPending' = IF rxType # None THEN rxType ELSE unpackingPending
    /\ UNCHANGED <<unread, hung, packingPending, ctlVars, queue, output, txVars, box, hostVars>>

\* Serializer runRx, with Controller commandUpdate.  A payload may fail to decode, and what
\* is left of it stays in the input buffer.  A command that waits is replaced.
RunUnpacker ==
    /\ pc = "unpack" /\ pc' = "command"
    /\ unpackingPending' = None
    /\ commandPending' = CASE unpackingPending = None     -> commandPending
                           [] unpackingPending = "cf_bad" -> "se_nak"
                           [] OTHER                       -> unpackingPending
    /\ unread' \in IF unpackingPending = "cf_bad" THEN {TRUE, FALSE} ELSE {unread}
    /\ UNCHANGED <<rxType, hung, packingPending, waitForAck, queue, output, txVars, box, hostVars>>

-----------------------------------------------------------------------------
(***************************************************************************)
(* Controller runRx executes the pending command.  Every message of the    *)
(* host ends the wait for an acknowledgement, except SE_NAK, which is sent *)
(* back before that.                                                       *)
(***************************************************************************)
Answers(message) == queue' = Push(queue, message)

\* a start clears the buffers
CommandRunning ==
    /\ commandPending = "cf_running"
    /\ Answers("se_ack")
    /\ box' \in {FALSE, box}

\* CommandAddr and CommandTrigger answer alike and leave the window alone too
CommandTInc == commandPending = "cf_t_inc" /\ Answers("se_ack") /\ UNCHANGED box

CommandClear == commandPending = "ev_clear" /\ Answers("se_ack") /\ box' = FALSE

CommandTrans == commandPending = "ev_trans" /\ Answers("sc_data") /\ UNCHANGED box

CommandAnnounce == commandPending = "ev_announce" /\ Answers("sc_announce") /\ UNCHANGED box

CommandDetect == commandPending = "ev_detect" /\ Answers("sc_detect") /\ UNCHANGED box

\* CommandRunning and CommandAddr return at an id that does not exist
CommandReturnsEarly == commandPending = "cf_unanswered" /\ UNCHANGED <<queue, box>>

\* the dispatcher has no parser for SE_ACK
NoCommand == commandPending \in {"se_ack", None} /\ UNCHANGED <<queue, box>>

ExecuteCommand ==
    \/ CommandRunning \/ CommandTInc \/ CommandClear \/ CommandTrans
    \/ CommandAnnounce \/ CommandDetect
    \/ CommandReturnsEarly \/ NoCommand

UnlocksIfConfig(command) == command \in Configs \cup {"se_ack"}  \* mutation: the events do not

\* messageCanUnlockAckLock, and what is left of a message that has not decoded
Unlocks(command) == command \notin {None, "cf_bad", "se_nak"}

SendNakBack ==
    /\ commandPending = "se_nak"
    /\ Answers("se_nak")
    /\ UNCHANGED <<waitForAck, greeted, box>>

RunCommandParser ==
    /\ pc = "command" /\ pc' = "scope"
    /\ \/ SendNakBack
       \/ /\ IF Unlocks(commandPending) THEN waitForAck' = FALSE /\ greeted' = TRUE
                                         ELSE UNCHANGED <<waitForAck, greeted>>
          /\ ExecuteCommand
    /\ commandPending' = None
    /\ UNCHANGED <<rxVars, packingPending, output, txVars, awaited, owed>>

SkipCommandDropsIt ==  \* mutation: the slot is emptied all the same
    /\ Threaded /\ commandPending # None
    /\ pc = "command" /\ pc' = "scope"
    /\ commandPending' = None
    /\ UNCHANGED <<rxVars, packingPending, waitForAck, queue, output, txVars, box, hostVars>>

\* The config mutex is held by the scope thread: the command stays pending.
SkipCommand ==
    /\ Threaded /\ commandPending # None
    /\ pc = "command" /\ pc' = "scope"
    /\ UNCHANGED <<rxVars, packingPending, ctlVars, queue, output, txVars, box, hostVars>>

(***************************************************************************)
(* The scope hands a window over and pushes SC_DATA, as CaptureProtocol    *)
(* lets it: in its turn, or from the scope thread, which holds both        *)
(* mutexes then.                                                           *)
(***************************************************************************)
HandOver ==
    /\ ~box /\ box' = TRUE
    /\ queue' = Push(queue, "sc_data")

RunScope ==
    /\ pc = "scope" /\ pc' = "aggregate"
    /\ \/ UNCHANGED <<box, queue>>
       \/ ~Threaded /\ HandOver
    /\ UNCHANGED <<rxVars, packingPending, ctlVars, output, txVars, hostVars>>

ScopeThreadRuns ==
    /\ Threaded /\ pc \notin {"pack", "send"}
    /\ HandOver
    /\ UNCHANGED <<pc, rxVars, packingPending, ctlVars, output, txVars, hostVars>>

-----------------------------------------------------------------------------
(***************************************************************************)
(* Sending.                                                                *)
(***************************************************************************)
\* Serializer isReady
PackerIsReady == packingPending = None /\ output = None

\* commandPackPushEvent(SC_LOG) when there is something to log and it is not queued yet
WithLog(q, log) == IF log /\ ~Holds(q, "sc_log") THEN Push(q, "sc_log") ELSE q

\* Controller runTx, with Serializer updatePacker
RunDataAggregatorPopsFirst ==  \* mutation: the event is popped before the checks
    /\ pc = "aggregate" /\ pc' = "pack"
    /\ IF queue # <<>>
       THEN \E i \in Poppable(queue) :
              /\ queue' = Without(queue, i)
              /\ IF PackerIsReady /\ ~waitForAck
                 THEN packingPending' = queue[i] /\ waitForAck' = NeedsAck(queue[i])
                 ELSE UNCHANGED <<packingPending, waitForAck>>
       ELSE UNCHANGED <<queue, packingPending, waitForAck>>
    /\ UNCHANGED <<rxVars, commandPending, output, txVars, box, hostVars>>

RunDataAggregator ==
    /\ pc = "aggregate" /\ pc' = "pack"
    /\ \E log \in {FALSE, Logging} :
         LET q == WithLog(queue, log) IN
         IF PackerIsReady /\ ~waitForAck /\ q # <<>>
         THEN \E i \in Poppable(q) :
                /\ queue' = Without(q, i)
                /\ packingPending' = q[i]
                /\ waitForAck' = NeedsAck(q[i])
         ELSE UNCHANGED <<queue, packingPending, waitForAck>>
    /\ UNCHANGED <<rxVars, commandPending, output, txVars, box, hostVars>>

\* The data mutex is held by the scope thread: nothing is sent in this turn.
SkipData ==
    /\ Threaded
    /\ pc = "aggregate" /\ pc' = "receive"
    /\ UNCHANGED <<rxVars, packingPending, ctlVars, queue, output, txVars, box, hostVars>>

\* Serializer runTx, with NanopbPacker pack and FramedIO update
RunPacker ==
    /\ pc = "pack" /\ pc' = "send"
    /\ IF packingPending = None
       THEN UNCHANGED <<packingPending, output, txReady, txType, box>>
       ELSE /\ output' = IF output = None /\ HasBody(packingPending)
                         THEN packingPending ELSE output
            /\ box' = (box /\ (packingPending # "sc_data" \/ output # None))
            /\ txReady' = TRUE /\ txType' = packingPending
            /\ packingPending' = None
    /\ UNCHANGED <<rxVars, ctlVars, queue, txState, frame, headWaits, frameBody, hostVars>>

\* FramedIO runTx writes the head of the frame, into a buffer with room for one
RunCommunicationTx ==
    /\ pc = "send" /\ pc' = "receive"
    /\ IF txState = "NONE" /\ txReady
       THEN /\ frame' = IF headWaits THEN frame ELSE [type |-> txType, body |-> output # None]
            /\ headWaits' = TRUE
            /\ txState' = "HEAD" /\ txReady' = FALSE
       ELSE UNCHANGED <<frame, headWaits, txState, txReady>>
    /\ UNCHANGED <<rxVars, packingPending, ctlVars, queue, output, txType, frameBody, box,
                   hostVars>>

\* FramedIO_getTxData, one part of the frame after the other
TransportReadsHead ==
    /\ txState = "HEAD" /\ txState' = "BODY"
    /\ headWaits' = FALSE
    /\ UNCHANGED <<pc, rxVars, packingPending, ctlVars, queue, output, txReady, txType, frame,
                   frameBody, box, hostVars>>

TransportReadsBody ==
    /\ txState = "BODY" /\ txState' = "FOOT"
    /\ frameBody' = output /\ output' = None
    /\ UNCHANGED <<pc, rxVars, packingPending, ctlVars, queue, txReady, txType, frame, headWaits,
                   box, hostVars>>

\* what the host takes for the answer to its message
AnswersTo(message) ==
    CASE message = "ev_trans"              -> {"sc_data"}
      [] message = "ev_announce"           -> {"sc_announce"}
      [] message = "ev_detect"             -> {"sc_detect"}
      [] message \in {"cf_bad", "se_nak"}  -> {"se_nak"}
      [] message \in Configs \cup {"cf_unanswered"} -> {"se_ack", "se_nak"}
      [] OTHER                             -> {}

\* The frame is complete: it may be what the host awaits, and the host owes an answer to a
\* message that needs one.
TransportReadsFoot ==
    /\ txState = "FOOT" /\ txState' = "NONE"
    /\ frameBody' = None
    /\ \E arrives \in Arrives :
         /\ owed' = IF arrives /\ HostAnswers(frame.type) /\ owed < MaxOwed THEN owed + 1 ELSE owed
         /\ awaited' = IF arrives /\ frame.type \in AnswersTo(awaited) THEN None ELSE awaited
    /\ UNCHANGED <<pc, rxVars, packingPending, ctlVars, queue, output, txReady, txType, frame,
                   headWaits, box, greeted>>

ResetOutputKeepsData ==  \* mutation: the stream is not cleared
    /\ txState \in ResetStates
    /\ txReady' = TRUE /\ txType' = None /\ txState' = "NONE" /\ frameBody' = None
    /\ UNCHANGED <<pc, rxVars, packingPending, ctlVars, queue, output, frame, headWaits, box,
                   hostVars>>

\* FramedIO_resetTx leaves the buffer of the head alone; what the host has of the frame is
\* worth nothing to it.
ResetOutput ==
    /\ txState \in ResetStates
    /\ output' = None /\ txReady' = TRUE /\ txType' = None /\ txState' = "NONE"
    /\ frameBody' = None
    /\ UNCHANGED <<pc, rxVars, packingPending, ctlVars, queue, frame, headWaits, box, hostVars>>

Transport == TransportReadsHead \/ TransportReadsBody \/ TransportReadsFoot

-----------------------------------------------------------------------------
StackThread ==
    \/ RunCommunicationRx \/ RunUnpacker
    \/ RunCommandParser \/ SkipCommand
    \/ RunScope
    \/ RunDataAggregator \/ SkipData
    \/ RunPacker \/ RunCommunicationTx

Next ==
    \/ \E message \in HostMessages : HostSends(message)
    \/ HostAcknowledges \/ HostGivesUp
    \/ StackThread
    \/ ScopeThreadRuns
    \/ Transport
    \/ ResetOutput

Spec == Init /\ [][Next]_vars

(***************************************************************************)
(* Fairness.  The stack is run again and again and the transport empties   *)
(* the frame it has been called for; a thread that tries for a mutex again *)
(* and again gets it (the threads are not in lockstep); and the host       *)
(* acknowledges what it has received.                                      *)
(***************************************************************************)
Fairness ==
    /\ WF_vars(StackThread) /\ WF_vars(Transport)
    /\ SF_vars(RunCommandParser) /\ SF_vars(RunDataAggregator)
    /\ SF_vars(HostAcknowledges)

FairSpec == Spec /\ Fairness

(***************************************************************************)
(* Over a link that loses frames nobody is sure to acknowledge anything.   *)
(* Here the host sends some message without a payload, all of which unlock *)
(* the controller, again and again.                                        *)
(***************************************************************************)
HostInsists ==
    /\ WF_vars(StackThread) /\ WF_vars(Transport)
    /\ SF_vars(\E message \in HostMessages \ (WithPayload \cup {"se_nak"}) : HostSends(message))

InsistentSpec == Spec /\ HostInsists

-----------------------------------------------------------------------------
TypeOK ==
    /\ pc \in {"receive", "unpack", "command", "scope", "aggregate", "pack", "send"}
    /\ rxType \in HostMessages \cup {"se_ack", None}
    /\ unread \in BOOLEAN /\ hung \in BOOLEAN
    /\ unpackingPending \in HostMessages \cup {"se_ack", None}
    /\ commandPending \in (HostMessages \ {"cf_bad"}) \cup {"se_ack", "se_nak", None}
    /\ waitForAck \in BOOLEAN
    /\ queue \in Seq(Events) /\ Len(queue) <= QueueSize
    /\ packingPending \in Events \cup {None}
    /\ output \in {"sc_data", "sc_announce", "sc_log", None}
    /\ txReady \in BOOLEAN /\ txType \in Events \cup {None}
    /\ txState \in {"NONE", "HEAD", "BODY", "FOOT"}
    /\ frame \in [type : Events \cup {None}, body : BOOLEAN]
    /\ headWaits \in BOOLEAN
    /\ frameBody \in {"sc_data", "sc_announce", "sc_log", None}
    /\ box \in BOOLEAN
    /\ awaited \in HostMessages \cup {None} /\ owed \in 0 .. MaxOwed
    /\ greeted \in BOOLEAN

(***************************************************************************)
(* "Returns true if the packer is ready to serialize new data.  This is    *)
(* the case if all previously sent data has been sent and the transmit     *)
(* buffer is empty" (IPacker.h): a frame carries the body its head has     *)
(* announced, the body of its own message, and none if it has none.        *)
(***************************************************************************)
FramesAreWhole ==
    txState = "FOOT" => frameBody = IF HasBody(frame.type) THEN frame.type ELSE None

(***************************************************************************)
(* A window that waits in the SWAP buffers waits for an SC_DATA event that *)
(* is queued or being packed.  The trigger does not push a second one, so  *)
(* a push that the full queue has dropped would end the acquisition.       *)
(***************************************************************************)
WindowIsAnnounced == box => Holds(queue, "sc_data") \/ packingPending = "sc_data"

(***************************************************************************)
(* The controller waits for an acknowledgement only while there is one to  *)
(* come: a message that needs it is on its way to the host, the host owes  *)
(* the answer, or a message of the host that ends the wait is on its way   *)
(* in.                                                                     *)
(***************************************************************************)
AckLockIsJustified ==
    waitForAck /\ greeted =>
      \/ HostAnswers(packingPending)
      \/ txReady /\ HostAnswers(txType)
      \/ txState # "NONE" /\ HostAnswers(frame.type)
      \/ owed > 0
      \/ \E message \in {rxType, unpackingPending, commandPending} : Unlocks(message)

(***************************************************************************)
(* A command that has been accepted is executed, not overwritten by the    *)
(* next message: "Process all pending data.  This can be done no matter    *)
(* what the state of the mutexes is" (ScopeThreadRunner.c).  It is not so: *)
(* the acknowledgement of a window replaces a command that waits.          *)
(***************************************************************************)
NoCommandLost ==
    [][commandPending' # commandPending /\ commandPending \in Commands => RunCommandParser]_vars

(***************************************************************************)
(* A host that awaits the answer to its command before it sends another    *)
(* loses it to nothing but one of its own acknowledgements, however often  *)
(* the mutex is busy: no other message gets between a command and its      *)
(* answer.  (SC_DATA, the answer to EV_TRANS, may have been pushed for     *)
(* something else, so that the host goes on while EV_TRANS waits; and      *)
(* cf_unanswered has no answer.)                                           *)
(***************************************************************************)
OnlyAcksOverwrite ==
    [][commandPending' # commandPending /\ commandPending \in Commands \ {"ev_trans", "cf_unanswered"}
         => RunCommandParser \/ commandPending' = "se_ack"]_vars

(***************************************************************************)
(* Once the host has been heard, the events do not stay in the queue,      *)
(* unless an unread payload has hung up the receiver.                      *)
(***************************************************************************)
EventsAreSent == greeted /\ queue # <<>> ~> packingPending # None \/ hung
=============================================================================
