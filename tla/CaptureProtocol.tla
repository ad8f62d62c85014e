-------------------------- MODULE CaptureProtocol --------------------------
(***************************************************************************)
(* What the sampling engine promises to the side that sends the data.      *)
(* The engine acquires one window after the other.  A complete window is   *)
(* put into a box that holds one window, and only when the box is empty;   *)
(* while it is not, the engine waits.  The window stays in the box until   *)
(* it is taken as a whole, to be sent, or thrown away when the host resets *)
(* the scope.  A window is the sequence of the times it covers.            *)
(***************************************************************************)
EXTENDS Integers, Sequences

CONSTANTS
    Instants,   \* the reference times
    Size        \* number of samples in a window

VARIABLES
    engine,     \* off, acquiring a window, waiting for the box, or handed over
    box         \* the window that waits to be sent; empty if there is none

cpVars == <<engine, box>>

Empty   == <<>>
Windows == {w \in Seq(Instants) : Len(w) = Size}

CPInit == engine = "off" /\ box = Empty

\* The window is complete.
Complete == engine = "acquiring" /\ engine' = "waiting" /\ UNCHANGED box

\* The complete window is handed over; a one-shot capture then ends.
HandOver ==
    /\ engine = "waiting" /\ engine' \in {"handed", "off"}
    /\ box = Empty /\ box' \in Windows

\* The next window is started.
Resume == engine = "handed" /\ engine' = "acquiring" /\ UNCHANGED box

\* The window is taken out to be sent, or thrown away.
TakeOut == box # Empty /\ box' = Empty /\ UNCHANGED engine

\* The host starts a channel: acquisition begins anew with empty buffers.
Start == engine' = "acquiring" /\ box' = Empty

\* The host stops the last running channel; a window that waits is kept.
Stop == engine' = "off" /\ UNCHANGED box

CPNext == Complete \/ HandOver \/ Resume \/ TakeOut \/ Start \/ Stop

CPSpec == CPInit /\ [][CPNext]_cpVars
=============================================================================
