----------------------------- MODULE MCFramedRx -----------------------------
(***************************************************************************)
(* Instances of FramedExchange with frames of the protocol: CF_RUNNING     *)
(* with one channel, CF_T_INC with an increment that looks like a start    *)
(* flag, EV_DETECT, which has no payload, and a CF_RUNNING whose channel   *)
(* is cut short, so that it does not decode.  The target answers SE_ACK,   *)
(* without a payload, or SC_LOG with one whose sum takes both bytes of the *)
(* checksum.                                                               *)
(***************************************************************************)
EXTENDS FramedExchange

MCMalformed == {[type |-> 105, payload |-> <<10, 2, 8>>]}
MCWellFormed ==
    {[type |-> 105, payload |-> <<10, 2, 8, 1>>],
     [type |-> 107, payload |-> <<8, 91>>],
     [type |-> 104, payload |-> <<>>]}
MCFrames == MCWellFormed \cup MCMalformed
MCAnswers ==
    {[type |-> 2, payload |-> <<>>],
     [type |-> 54, payload |-> <<10, 1, 255, 97>>]}

MCDecodable == {102, 105, 106, 107, 108}
=============================================================================
