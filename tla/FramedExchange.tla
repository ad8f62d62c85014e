--------------------------- MODULE FramedExchange ---------------------------
(***************************************************************************)
(* Both sides of FramedIO, byte by byte: what the host has sent reaches    *)
(* the unpacker, and the stack may answer with a frame of its own, which   *)
(* the transport reads.  A paced host reads the answer before it sends the *)
(* next frame.                                                             *)
(***************************************************************************)
EXTENDS FramedRx, FramedTx

exchangeVars == <<vars, txVars>>

ExchangeInit == Init /\ TxInit

TransportIsIdle == txState = "NONE" /\ ~txReady

HostMoves ==
    /\ HostPaced => TransportIsIdle
    /\ \E f \in HostFrames : HostSends(f) \/ HostSendsAgain(f)
    /\ UNCHANGED txVars

Receive ==
    /\ Put \/ Checks \/ PutLoops \/ ResetInput \/ RunCommunicationRx
    /\ UNCHANGED txVars

\* runRx of the serializer, and the answer of the same turn.  For a paced host the stack is
\* not run while a frame is being read (SynchronousTransport in MessageStack).
Answer ==
    /\ HostPaced => TransportIsIdle
    /\ RunUnpacker
    /\ UNCHANGED txVars \/ \E f \in TargetFrames : Update(f)

Send ==
    /\ RunCommunicationTx \/ TransportReads
    /\ UNCHANGED vars

\* The application gives up a frame that the transport cannot get rid of.
DropOutput ==
    /\ ~TransportIsIdle
    /\ chunk = <<>> /\ pending = SeNone
    /\ ResetOutput
    /\ Counted
    /\ UNCHANGED <<rxVars, input, chunk, pending, spoilt, line, awaited>>

ExchangeNext == HostMoves \/ Receive \/ Answer \/ Send \/ DropOutput

ExchangeSpec == ExchangeInit /\ [][ExchangeNext]_exchangeVars

\* The transport and the stack run, and a host without an answer sends again.
FairExchangeSpec ==
    /\ ExchangeSpec
    /\ WF_exchangeVars(Put /\ UNCHANGED txVars)
    /\ WF_exchangeVars(Checks /\ UNCHANGED txVars)
    /\ WF_exchangeVars(RunCommunicationRx /\ UNCHANGED txVars)
    /\ WF_exchangeVars(Answer) /\ WF_exchangeVars(Send)
    /\ WF_exchangeVars(HostMoves)

-----------------------------------------------------------------------------
(***************************************************************************)
(* A frame of a host that sends it again and again gets through, although  *)
(* frames before it were damaged: the receive machine finds back to the    *)
(* start of a frame with nothing left over of the failed one.  Only what   *)
(* an unpacker has left unread may stand in its way.                       *)
(***************************************************************************)
FrameArrives == \A f \in HostFrames : f \in awaited ~> f \notin awaited \/ spoilt

(***************************************************************************)
(* A frame that has been handed to the transport is read to its end, or    *)
(* gives way to the empty one of a reset, which is.                        *)
(***************************************************************************)
FrameIsSent == txReady ~> TransportIsIdle
=============================================================================
