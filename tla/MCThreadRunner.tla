--------------------------- MODULE MCThreadRunner ---------------------------
(***************************************************************************)
(* The two threads with two channels, a queue that can fill up, and a host *)
(* that sends what it likes: one CF_RUNNING message that starts a channel, *)
(* one that stops it and then names the channel past the last, and one     *)
(* that is rejected for its second entry; the addresses of both channels,  *)
(* and a NULL; a trigger on a channel that does not exist.                 *)
(***************************************************************************)
EXTENDS ThreadedScope

CONSTANT a

Change(id, newState) == [id |-> id, newState |-> newState]
Place(id, address) == [id |-> id, address |-> address]

MCRunningRequests ==
    {<<Change(0, TRUE)>>,
     <<Change(0, FALSE), Change(2, TRUE)>>,
     <<Change(1, TRUE), Change(3, TRUE)>>}

MCAddressRequests == {<<Place(0, a), Place(1, a)>>, <<Place(0, Null)>>}

MCTriggerRequests == {[modeIsValid |-> TRUE, channelId |-> 2]}

\* one stack with threads, which has nothing to announce, and the sizes around those at which
\* the width of a length changes
MCStackConfigs ==
    [amountOfChannels : {0, 2}, sizeOfChannels : {4}, addresses : {0}, timestamp : BOOLEAN,
     logByteStream : BOOLEAN, configMutex : {TRUE}]
    \cup
    [amountOfChannels : {1, 2, 16, 17}, sizeOfChannels : {0, 1, 2, 15, 16, 31, 32, 255, 256, 4096},
     addresses : {0, 1}, timestamp : {TRUE}, logByteStream : {TRUE}, configMutex : {FALSE}]
    \cup
    [amountOfChannels : {1}, sizeOfChannels : {1}, addresses : {2}, timestamp : {TRUE},
     logByteStream : {TRUE}, configMutex : {FALSE}]

\* words of bytes with two bits: the ends of the ranges, and 32-bit values between two floats
MCWords == {0, 1, 2, 3, 7, 8, 15, 18, 63, 64, 65, 67, 127, 128, 129, 187, 190, 193, 254, 255}
=============================================================================
