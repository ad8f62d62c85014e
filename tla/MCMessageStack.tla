--------------------------- MODULE MCMessageStack ---------------------------
(***************************************************************************)
(* Instances of MessageStack: the single loop with a host that sends       *)
(* whenever it likes, and the two threads with a host that waits for the   *)
(* answer to its message.                                                  *)
(***************************************************************************)
EXTENDS MessageStack
=============================================================================
