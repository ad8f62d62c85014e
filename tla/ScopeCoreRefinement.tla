------------------------ MODULE ScopeCoreRefinement ------------------------
(***************************************************************************)
(* ScopeCore implements CaptureProtocol: the state of the trigger is the   *)
(* state of the engine, and the box is the set of SWAP buffers.            *)
(***************************************************************************)
EXTENDS ScopeCore

EngineOf(s) ==
    CASE s = "IDLE"    -> "off"
      [] s = "CLEANUP" -> "waiting"
      [] s = "PAUSED"  -> "handed"
      [] OTHER         -> "acquiring"

Engine == EngineOf(trState)
Box    == IF ChannelsToPack = {} THEN <<>> ELSE tsStream[tsSwap]

Capture == INSTANCE CaptureProtocol
             WITH engine <- Engine, box <- Box, Instants <- Time, Size <- Capacity

(***************************************************************************)
(* Every behaviour of the sampling engine is a behaviour of the capture    *)
(* protocol: a window is handed over only when it is complete and the      *)
(* previous one is gone, and it leaves the SWAP buffers as a whole.        *)
(***************************************************************************)
ImplementsCapture == Capture!CPSpec
=============================================================================
