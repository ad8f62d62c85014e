---------------------------- MODULE MCScopeCore ----------------------------
(***************************************************************************)
(* Instances of ScopeCore for TLC.  Two channels show how channels         *)
(* interact; one channel with changing values shows the trigger.           *)
(***************************************************************************)
EXTENDS ScopeCoreRefinement

TwoChannels == {0, 1}
OneChannel  == {0}

\* Polled values: constant, or two values on the only channel
FlatInputs   == {[c \in TwoChannels |-> 0]}
OneInput     == {[c \in OneChannel |-> x] : x \in {0, 1}}

\* Trigger configurations: any channel in continuous mode, or both edges through 1
ContinuousConfs == {[mode |-> "CONTINUOUS", level |-> 0, edge |-> TRUE, channelId |-> c] : c \in Channels}
EdgeConfs       == {[mode |-> m, level |-> 1, edge |-> e, channelId |-> 0] :
                      m \in {"NORMAL", "ONESHOT"}, e \in BOOLEAN}
=============================================================================
