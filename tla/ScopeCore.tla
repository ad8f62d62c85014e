------------------------------ MODULE ScopeCore ------------------------------
(***************************************************************************)
(* The sampling engine of the scope: the channels (Core/Channel.c), the    *)
(* timestamper (Core/Timestamper.c), the trigger (Core/Trigger.c) and the  *)
(* scope that drives them (Core/Scope.c), together with the two operations *)
(* of the controller and the packer that reach into their state: the push  *)
(* of an SC_DATA event and the packing of a data message, which drains the *)
(* SWAP buffers.                                                           *)
(*                                                                         *)
(* Every channel and the timestamper own two buffers.  The POLL buffer is  *)
(* filled by Scope_poll; when the trigger has a complete window the POLL   *)
(* and SWAP buffers change places and the SWAP buffers wait to be packed.  *)
(* A host command runs while the scope does not poll (config mutex), and a *)
(* message is packed while it does not poll either (data mutex), so        *)
(* Scope_poll, one channel change of a cf_running command, every other     *)
(* command and the packing of one message are each one step.               *)
(*                                                                         *)
(* A sample is the pair of the polled value and, for the specification,    *)
(* the reference time at which it was taken; the code stores the value.    *)
(* Only the values that the trigger tells apart matter, so the address a   *)
(* channel polls is abstracted to an arbitrary value at every poll.        *)
(***************************************************************************)
EXTENDS Integers, Sequences

CONSTANTS
    Channels,        \* ids of the channels of the scope
    Capacity,        \* size of each channel buffer and timestamp stream
    Inputs,          \* the assignments of polled values to channels
    TriggerConfs,    \* the trigger configurations the host sends
    TimeMod,         \* the reference timestamp counts modulo TimeMod (2^32)
    Increments,      \* time increments the host configures
    InitialChannel,  \* the channel the trigger observes after creation (0)
    MaxEvents,       \* SC_DATA events the controller queue takes
    MaxLag,          \* ticks that may pass before a due poll is executed
    MaxChanges,      \* channel changes in one cf_running command
    StreamDropsOldest, \* TRUE iff a full timestamp stream drops its oldest entry
    PackerMemory,    \* what the packer may take for a timestamp stream before it has one
    TickWhileStopped,  \* FALSE bounds the model: time rests while the scope is stopped
    LiveCommands,    \* the commands the host sends while the scope is ready to run
    StoppedCommands, \* and while it is not
    CleanStart       \* TRUE iff cf_running is sent only when no SC_DATA event waits

Modes == {"CONTINUOUS", "NORMAL", "ONESHOT"}
TriggerConfigurations == [mode : Modes, level : Int, edge : BOOLEAN, channelId : Channels]

Commands == {"cf_running", "cf_addr", "cf_trigger", "cf_t_inc", "ev_clear", "ev_trans"}

ASSUME ScopeCoreAssumption ==
    /\ InitialChannel \in Channels
    /\ Capacity \in Nat \ {0}
    /\ Inputs \subseteq [Channels -> Int]
    /\ TriggerConfs \subseteq TriggerConfigurations
    /\ TimeMod \in Nat \ {0}
    /\ Increments \subseteq Nat
    /\ MaxEvents \in Nat \ {0}
    /\ MaxLag \in Nat
    /\ MaxChanges \in Nat
    /\ StreamDropsOldest \in BOOLEAN
    /\ PackerMemory \subseteq {0, 1, 2}
    /\ TickWhileStopped \in BOOLEAN
    /\ LiveCommands \subseteq Commands /\ StoppedCommands \subseteq Commands
    /\ CleanStart \in BOOLEAN

VARIABLES
    \* Channel.c, one entry per channel
    chState,         \* state: INIT, STOPPED or RUNNING
    pollBuf,         \* buffers[POLL_BUFFER]
    swapBuf,         \* buffers[SWAP_BUFFER]
    oldValue,        \* oldTriggerData
    trigStream,      \* the trigger stream: empty, or <<old value, new value>>
    \* Timestamper.c
    tsRunning,       \* state = TIMESTAMPER_RUNNING
    tsStream,        \* the two physical timestamp streams
    tsPoll,          \* which of them is the POLL stream
    refTime,         \* *referenceTimestamp, counted up by the target
    lastTimestamp,
    timeIncrement,
    \* Trigger.c
    trState,         \* state: IDLE, DETECTING, FILLUP, CLEANUP or PAUSED
    strategy,        \* activeStrategy, named by its mode
    activeChannel,   \* activeChannelId; the observed stream is always its stream
    level,
    edge,            \* TRUE: rising
    isTriggered,     \* isTriggereds[]
    trigIndex,       \* triggerIndexes[]
    saved,           \* channelIsRunning[]
    fillUpPollCount,
    \* Scope.c
    isRunning,       \* scopeIsRunning
    isReady,         \* scopeIsReadyToRun
    \* Controller and packer
    dataEvents,      \* SC_DATA events waiting in the controller queue
    packerStream,    \* the timestamp stream the packer remembers
    changes,         \* the channel changes a cf_running command has still to make
    \* Specification only
    requested,       \* the last cf_running request of the host for each channel
    refused          \* the timestamps each stream has refused since it was emptied

chVars   == <<chState, pollBuf, swapBuf, oldValue, trigStream>>
clkVars  == <<refTime, lastTimestamp, timeIncrement>>
tsVars   == <<tsRunning, tsStream, tsPoll, refused>>
confVars == <<strategy, activeChannel, level, edge>>
trVars   == <<trState, isTriggered, trigIndex, saved, fillUpPollCount>>
scVars   == <<isRunning, isReady>>
ctlVars  == <<dataEvents, packerStream, changes, requested>>
vars     == <<chVars, tsVars, clkVars, confVars, trVars, scVars, ctlVars>>

-----------------------------------------------------------------------------
Time   == 0 .. TimeMod - 1
Sample == [t : Time, v : Int]
Streams == {0, 1}
NoStream == 2
tsSwap == 1 - tsPoll

ChannelStates == {"INIT", "STOPPED", "RUNNING"}
TrStates == {"IDLE", "DETECTING", "FILLUP", "CLEANUP", "PAUSED"}
Changes  == [id : Channels, run : BOOLEAN]

Full(buf)    == Len(buf) = Capacity
Cleared      == [c \in Channels |-> <<>>]
NoTimestamps == [i \in Streams |-> <<>>]
NoneRefused  == [i \in Streams |-> 0]
Running(c)   == chState[c] = "RUNNING"
SomeRunning  == \E c \in Channels : Running(c)

(***************************************************************************)
(* The writes.  Channel_poll makes room in a full buffer before it writes. *)
(* Timestamper_stamp does not look at the room, and what a full stream     *)
(* does is decided in se-lib-c, which is not part of the repository: its   *)
(* use in Channel_poll and the tests of its float buffer speak of one that *)
(* refuses.  The constant covers both.  refused only counts, up to the     *)
(* capacity: no action looks at it.                                        *)
(***************************************************************************)
WriteSampleNeverDrops(buf, s) == Append(buf, s)  \* mutation

WriteSample(buf, s) == IF Full(buf) THEN Append(Tail(buf), s) ELSE Append(buf, s)

WriteTimestamp(stream, t) ==
    IF ~Full(stream) THEN Append(stream, t)
    ELSE IF StreamDropsOldest THEN Append(Tail(stream), t)
    ELSE stream

RefusedByWrite(stream, r) ==
    IF Full(stream) /\ ~StreamDropsOldest /\ r < Capacity THEN r + 1 ELSE r

(***************************************************************************)
(* Timestamper_updateElapsedTime compares unsigned integers: the sum of    *)
(* the last timestamp and the increment wraps.                             *)
(***************************************************************************)
Due == refTime >= (lastTimestamp + timeIncrement) % TimeMod
Lag == (refTime - lastTimestamp) % TimeMod

(***************************************************************************)
(* checkCurrentData: the two values of the trigger stream lie on different *)
(* sides of the level (or on it) and rise or fall as configured.           *)
(***************************************************************************)
Crosses(old, new) ==
    /\ new # old
    /\ (new > old) = edge
    /\ \/ old <= level /\ level <= new
       \/ new <= level /\ level <= old

-----------------------------------------------------------------------------
(***************************************************************************)
(* The constructors: Scope_create, Channel_create, Timestamper_create and  *)
(* Trigger_create, which ends with Trigger_clear and Trigger_deactivate.   *)
(***************************************************************************)
ChannelsInit ==
    /\ chState = [c \in Channels |-> "INIT"]
    /\ pollBuf = Cleared /\ swapBuf = Cleared
    /\ oldValue = [c \in Channels |-> 0] /\ trigStream = Cleared

TimestamperInit ==
    /\ tsRunning = FALSE /\ tsStream = NoTimestamps /\ tsPoll = 0 /\ refused = NoneRefused
    /\ refTime = 0 /\ lastTimestamp = 0 /\ timeIncrement = 1

TriggerInit ==
    /\ trState = "IDLE" /\ strategy = "CONTINUOUS" /\ activeChannel = InitialChannel
    /\ level = 0 /\ edge = FALSE  \* not set by the code, and not read in this mode
    /\ isTriggered = [poll |-> FALSE, swap |-> FALSE]
    /\ trigIndex = [poll |-> 0, swap |-> 0]
    /\ saved = [c \in Channels |-> FALSE]
    /\ fillUpPollCount = 0

\* NanopbPacker_create does not set its timestamp stream
PackerInit == packerStream \in PackerMemory

Init ==
    /\ ChannelsInit /\ TimestamperInit /\ TriggerInit /\ PackerInit
    /\ isRunning = FALSE /\ isReady = FALSE
    /\ dataEvents = 0 /\ changes = <<>>
    /\ requested = [c \in Channels |-> FALSE]

-----------------------------------------------------------------------------
(***************************************************************************)
(* Pieces of the trigger.                                                  *)
(***************************************************************************)

\* safeChannelStates
RunningStatesAfterStop == [c \in Channels |-> FALSE]  \* mutation: saved after the stop

RunningStates == [c \in Channels |-> Running(c)]

\* stopChannelsAndTimestamp, the channels
AllStopped(st) == [c \in Channels |-> IF st[c] = "RUNNING" THEN "STOPPED" ELSE st[c]]

\* restoreChannelStates, the channels
Restored(st) ==
    [c \in Channels |-> IF saved[c] /\ st[c] = "STOPPED" THEN "RUNNING" ELSE st[c]]

\* Trigger_clear
TriggerClear ==
    /\ isTriggered' = [isTriggered EXCEPT !.poll = FALSE]
    /\ trigIndex' = [trigIndex EXCEPT !.poll = 0]
    /\ fillUpPollCount' = 0

\* resetBuffers: Channel_clear of every channel, and Timestamper_clear
ResetBuffers ==
    /\ pollBuf' = Cleared /\ swapBuf' = Cleared /\ trigStream' = Cleared
    /\ tsStream' = NoTimestamps /\ refused' = NoneRefused

\* Trigger_activate, for the channel states it finds
Activate(states) ==
    /\ chState' = Restored(states)
    /\ tsRunning' = TRUE
    /\ trState' = "DETECTING"
    /\ ResetBuffers
    /\ TriggerClear

\* Scope_transmit: the observer pushes SC_DATA; a push to a full queue is dropped
PushData == dataEvents' = IF dataEvents < MaxEvents THEN dataEvents + 1 ELSE dataEvents

\* Channel_poll of every channel, and Timestamper_stamp into the POLL stream
Sampled(v) ==
    [c \in Channels |-> IF Running(c)
                        THEN WriteSample(pollBuf[c], [t |-> refTime, v |-> v[c]])
                        ELSE pollBuf[c]]

SampledTrigger(v) ==
    [c \in Channels |-> IF Running(c) THEN <<oldValue[c], v[c]>> ELSE trigStream[c]]

SampledTimesAlways == [tsStream EXCEPT ![tsPoll] = WriteTimestamp(@, refTime)]  \* mutation

SampledTimes ==
    IF tsRunning THEN [tsStream EXCEPT ![tsPoll] = WriteTimestamp(@, refTime)] ELSE tsStream

SampledRefused ==
    IF tsRunning THEN [refused EXCEPT ![tsPoll] = RefusedByWrite(tsStream[tsPoll], @)] ELSE refused

\* swapBuffers: the windows that polling leaves in the buffers may change places
ChannelSwapIsPending(buf) == Full(buf[activeChannel]) /\ swapBuf[activeChannel] = <<>>

TimestampSwapIsPending(times) == Full(times[tsPoll]) /\ times[tsSwap] = <<>>

SwapIsPendingWhenFull(buf, times) ==  \* mutation: the SWAP buffers are not looked at
    Full(buf[activeChannel]) /\ Full(times[tsPoll])

SwapIsPending(buf, times) ==
    ChannelSwapIsPending(buf) /\ TimestampSwapIsPending(times)

\* Channel_swapBuffers of every channel
SwapChannels(buf) == swapBuf' = buf /\ pollBuf' = Cleared

SwapBuffers(buf, times) ==
    /\ SwapChannels(buf)
    /\ tsStream' = [times EXCEPT ![tsSwap] = <<>>] /\ tsPoll' = tsSwap
    /\ refused' = [SampledRefused EXCEPT ![tsSwap] = 0]
    /\ isTriggered' = [isTriggered EXCEPT !.swap = isTriggered.poll]
    /\ trigIndex' = [trigIndex EXCEPT !.swap = trigIndex.poll]

(***************************************************************************)
(* Scope_poll: the part that does not depend on the state of the trigger.  *)
(***************************************************************************)
PollScope(v) ==
    /\ isReady
    /\ changes = <<>>
    /\ Due
    /\ isRunning' = TRUE
    /\ lastTimestamp' = refTime
    /\ oldValue' = [c \in Channels |-> IF Running(c) THEN v[c] ELSE oldValue[c]]
    /\ UNCHANGED <<isReady, refTime, timeIncrement, confVars, packerStream, changes, requested>>

KeepSamples(v) ==
    /\ pollBuf' = Sampled(v)
    /\ tsStream' = SampledTimes /\ refused' = SampledRefused
    /\ UNCHANGED <<swapBuf, tsPoll>>

\* Scope_poll before the time increment has elapsed
PollTooEarly ==
    /\ isReady /\ changes = <<>> /\ ~Due
    /\ isRunning' = TRUE
    /\ UNCHANGED <<chVars, tsVars, clkVars, confVars, trVars, isReady, ctlVars>>

\* TRIGGER_IDLE: a one-shot capture is over
PollIdle(v) ==
    /\ trState = "IDLE"
    /\ PollScope(v) /\ KeepSamples(v) /\ trigStream' = SampledTrigger(v)
    /\ UNCHANGED <<chState, tsRunning, trVars, dataEvents>>

\* TRIGGER_PAUSED: startWhenPaused or startNever, then Trigger_clear
PollPaused(v) ==
    /\ trState = "PAUSED"
    /\ PollScope(v) /\ KeepSamples(v) /\ trigStream' = SampledTrigger(v)
    /\ IF strategy = "ONESHOT"
       THEN UNCHANGED <<chState, tsRunning, trState>>
       ELSE /\ chState' = Restored(chState)
            /\ tsRunning' = TRUE
            /\ trState' = "DETECTING"
    /\ TriggerClear
    /\ UNCHANGED <<saved, dataEvents>>

\* TRIGGER_DETECTING, detectNever
PollDetectNever(v) ==
    /\ trState = "DETECTING" /\ strategy = "CONTINUOUS"
    /\ PollScope(v) /\ KeepSamples(v) /\ trigStream' = SampledTrigger(v)
    /\ isTriggered' = [isTriggered EXCEPT !.poll = FALSE]
    /\ trState' = "FILLUP"
    /\ UNCHANGED <<chState, tsRunning, trigIndex, saved, fillUpPollCount, dataEvents>>

\* detectNormal looks at the stream once the observed channel is half full
Looks(v) ==
    /\ Len(Sampled(v)[activeChannel]) >= Capacity \div 2
    /\ SampledTrigger(v)[activeChannel] # <<>>

Detects(v) ==
    /\ Looks(v)
    /\ LET data == SampledTrigger(v)[activeChannel] IN Crosses(data[1], data[2])

\* TRIGGER_DETECTING, detectNormal
PollDetectNormal(v) ==
    /\ trState = "DETECTING" /\ strategy # "CONTINUOUS"
    /\ PollScope(v) /\ KeepSamples(v)
    /\ trigStream' = IF Looks(v)
                     THEN [SampledTrigger(v) EXCEPT ![activeChannel] = <<>>]
                     ELSE SampledTrigger(v)
    /\ isTriggered' = IF Looks(v) THEN [isTriggered EXCEPT !.poll = Detects(v)]
                                  ELSE isTriggered
    /\ IF Detects(v)
       THEN trigIndex' = [trigIndex EXCEPT !.poll = refTime] /\ trState' = "FILLUP"
       ELSE UNCHANGED <<trigIndex, trState>>
    /\ UNCHANGED <<chState, tsRunning, saved, fillUpPollCount, dataEvents>>

\* fillUpTillChannelFull and fillUpIfTriggered: the window is complete
WindowCompleteLate(v) ==  \* mutation: counts a whole window after the trigger
    /\ Full(Sampled(v)[activeChannel])
    /\ strategy # "CONTINUOUS" => fillUpPollCount + 1 >= Capacity

WindowComplete(v) ==
    /\ Full(Sampled(v)[activeChannel])
    /\ strategy # "CONTINUOUS" => fillUpPollCount + 1 >= Capacity \div 2

\* TRIGGER_FILLUP.  The code's counter goes on counting; only its comparison with
\* half the capacity is used, so the model stops counting at Capacity.
PollFillUp(v) ==
    /\ trState = "FILLUP"
    /\ PollScope(v) /\ KeepSamples(v) /\ trigStream' = SampledTrigger(v)
    /\ fillUpPollCount' = IF strategy = "CONTINUOUS" \/ fillUpPollCount = Capacity
                          THEN fillUpPollCount ELSE fillUpPollCount + 1
    /\ IF WindowComplete(v)
       THEN saved' = RunningStates /\ tsRunning' = TRUE /\ trState' = "CLEANUP"
       ELSE UNCHANGED <<saved, tsRunning, trState>>
    /\ UNCHANGED <<chState, isTriggered, trigIndex, dataEvents>>

\* TRIGGER_CLEANUP: stopIntoPause or stopIntoIdle
PollCleanUp(v) ==
    /\ trState = "CLEANUP"
    /\ PollScope(v)
    /\ trigStream' = SampledTrigger(v)
    /\ chState' = AllStopped(chState)
    /\ tsRunning' = FALSE
    /\ IF SwapIsPending(Sampled(v), SampledTimes)
       THEN /\ SwapBuffers(Sampled(v), SampledTimes)
            /\ trState' = IF strategy = "ONESHOT" THEN "IDLE" ELSE "PAUSED"
            /\ fillUpPollCount' = 0
            /\ PushData
       ELSE /\ KeepSamples(v)
            /\ UNCHANGED <<isTriggered, trigIndex, trState, fillUpPollCount, dataEvents>>
    /\ UNCHANGED saved

Poll(v) ==
    \/ PollIdle(v)
    \/ PollPaused(v)
    \/ PollDetectNever(v)
    \/ PollDetectNormal(v)
    \/ PollFillUp(v)
    \/ PollCleanUp(v)

-----------------------------------------------------------------------------
MayCommand(cmd) ==
    /\ changes = <<>>
    /\ cmd \in IF isReady THEN LiveCommands ELSE StoppedCommands

(***************************************************************************)
(* The host commands.  Configuring an address that is already set changes  *)
(* only what the channel polls, which is arbitrary at every poll.          *)
(***************************************************************************)
ConfigureChannel(c) ==
    /\ MayCommand("cf_addr")
    /\ chState[c] = "INIT"
    /\ chState' = [chState EXCEPT ![c] = "STOPPED"]
    /\ UNCHANGED <<pollBuf, swapBuf, oldValue, trigStream,
                   tsVars, clkVars, confVars, trVars, scVars, ctlVars>>

\* cf_running arrives: its changes are made one after the other, see CommandRunning.c
CommandRunning(cs) ==
    /\ MayCommand("cf_running")
    /\ CleanStart => dataEvents = 0
    /\ changes' = cs
    /\ UNCHANGED <<chVars, tsVars, clkVars, confVars, trVars, scVars,
                   dataEvents, packerStream, requested>>

\* Channel_setStateRunning and Channel_setStateStopped
SetState(c, from, to) == IF chState[c] = from THEN [chState EXCEPT ![c] = to] ELSE chState

\* Scope_setChannelRunning, with Trigger_activate when a channel runs
SetChannelRunning ==
    /\ changes # <<>> /\ Head(changes).run
    /\ changes' = Tail(changes)
    /\ requested' = [requested EXCEPT ![Head(changes).id] = TRUE]
    /\ LET started == SetState(Head(changes).id, "STOPPED", "RUNNING")
       IN  IF \E c \in Channels : started[c] = "RUNNING"
           THEN Activate(started) /\ isReady' = TRUE
           ELSE /\ chState' = started
                /\ UNCHANGED <<tsRunning, trState, pollBuf, swapBuf, trigStream, tsStream, refused,
                               isTriggered, trigIndex, fillUpPollCount, isReady>>
    /\ UNCHANGED <<oldValue, tsPoll, clkVars, confVars, saved, isRunning,
                   dataEvents, packerStream>>

\* Trigger_deactivate once every channel has stopped: safeChannelStates saves no channel
TriggerDeactivateKeepsSaved ==  \* mutation: safeChannelStates forgotten
    /\ tsRunning' = FALSE
    /\ trState' = "IDLE"
    /\ fillUpPollCount' = 0
    /\ UNCHANGED saved

TriggerDeactivate ==
    /\ saved' = [c \in Channels |-> FALSE]
    /\ tsRunning' = FALSE
    /\ trState' = "IDLE"
    /\ fillUpPollCount' = 0

\* Scope_setChannelStopped, with Trigger_deactivate when no channel runs
SetChannelStopped ==
    /\ changes # <<>> /\ ~Head(changes).run
    /\ changes' = Tail(changes)
    /\ requested' = [requested EXCEPT ![Head(changes).id] = FALSE]
    /\ chState' = SetState(Head(changes).id, "RUNNING", "STOPPED")
    /\ IF \E c \in Channels : chState'[c] = "RUNNING"
       THEN UNCHANGED <<tsRunning, trState, saved, fillUpPollCount, isRunning, isReady>>
       ELSE TriggerDeactivate /\ isRunning' = FALSE /\ isReady' = FALSE
    /\ UNCHANGED <<pollBuf, swapBuf, oldValue, trigStream, tsStream, tsPoll, refused, clkVars,
                   confVars, isTriggered, trigIndex, dataEvents, packerStream>>

\* Trigger_configure with a valid configuration
ConfigureTrigger(conf) ==
    /\ MayCommand("cf_trigger")
    /\ strategy' = conf.mode /\ level' = conf.level /\ edge' = conf.edge
    /\ activeChannel' = conf.channelId
    /\ UNCHANGED <<chVars, tsVars, clkVars, trVars, scVars, ctlVars>>

ConfigureTimeIncrement(i) ==
    /\ MayCommand("cf_t_inc")
    /\ timeIncrement' = i
    /\ UNCHANGED <<chVars, tsVars, refTime, lastTimestamp, confVars, trVars, scVars, ctlVars>>

\* Scope_clear: the state of the trigger stays as it is
Clear ==
    /\ MayCommand("ev_clear")
    /\ ResetBuffers
    /\ TriggerClear
    /\ UNCHANGED <<chState, oldValue, tsRunning, tsPoll, clkVars, confVars, trState, saved,
                   scVars, ctlVars>>

\* ev_trans: CommandTrans calls Scope_transmit
Transmit ==
    /\ MayCommand("ev_trans")
    /\ PushData
    /\ UNCHANGED <<chVars, tsVars, clkVars, confVars, trVars, scVars,
                   packerStream, changes, requested>>

-----------------------------------------------------------------------------
\* channelHasToBePacked
ChannelsToPackOffByOne == {c \in Channels : Len(swapBuf[c]) > Capacity}  \* mutation

ChannelsToPack == {c \in Channels : Full(swapBuf[c])}

(***************************************************************************)
(* An SC_DATA event is popped and packed: CommandPackData hands the full   *)
(* SWAP buffers to the packer, which drains them and the timestamp stream. *)
(* When no channel has to be packed, CommandPackData returns early and the *)
(* packer packs with the timestamp stream it remembers.                    *)
(***************************************************************************)
Pack ==
    /\ dataEvents > 0
    /\ changes = <<>>
    /\ dataEvents' = dataEvents - 1
    /\ packerStream' = IF ChannelsToPack # {} THEN tsSwap ELSE packerStream
    /\ swapBuf' = [c \in Channels |-> IF c \in ChannelsToPack THEN <<>> ELSE swapBuf[c]]
    /\ tsStream' = [i \in Streams |-> IF i = packerStream' THEN <<>> ELSE tsStream[i]]
    /\ refused' = [i \in Streams |-> IF i = packerStream' THEN 0 ELSE refused[i]]
    /\ UNCHANGED <<chState, pollBuf, oldValue, trigStream, tsRunning, tsPoll, clkVars, confVars,
                   trVars, scVars, changes, requested>>

(***************************************************************************)
(* The target counts the reference timestamp.  MaxLag bounds how late a    *)
(* poll that is due may come.                                              *)
(***************************************************************************)
Tick ==
    /\ isReady /\ Due => Lag < MaxLag
    /\ isReady \/ TickWhileStopped
    /\ refTime' = (refTime + 1) % TimeMod
    /\ UNCHANGED <<chVars, tsVars, lastTimestamp, timeIncrement, confVars, trVars, scVars, ctlVars>>

-----------------------------------------------------------------------------
ChangeSequences == UNION {[1 .. n -> Changes] : n \in 1 .. MaxChanges}

HostCommand ==
    \/ \E c \in Channels : ConfigureChannel(c)
    \/ \E cs \in ChangeSequences : CommandRunning(cs)
    \/ \E conf \in TriggerConfs : ConfigureTrigger(conf)
    \/ \E i \in Increments : ConfigureTimeIncrement(i)
    \/ Clear
    \/ Transmit

Next ==
    \/ \E v \in Inputs : Poll(v)
    \/ PollTooEarly
    \/ HostCommand
    \/ SetChannelRunning
    \/ SetChannelStopped
    \/ Pack
    \/ Tick

Spec == Init /\ [][Next]_vars

(***************************************************************************)
(* Fairness.  ScopeRunner_run calls the command parser, the scope and the  *)
(* data aggregator in every turn of its loop, and a command that has begun *)
(* runs to its end: commands that keep arriving delay a poll that is due,  *)
(* or the packing of a queued event, but do not keep it from happening.    *)
(* The reference timestamp keeps counting.  That events are packed again   *)
(* and again also needs the host to acknowledge and the transport to send. *)
(***************************************************************************)
Fairness ==
    /\ SF_vars(\E v \in Inputs : Poll(v))
    /\ WF_vars(Tick)
    /\ WF_vars(SetChannelRunning \/ SetChannelStopped)
    /\ SF_vars(Pack)

FairSpec == Spec /\ Fairness
-----------------------------------------------------------------------------
ChannelsTypeOK ==
    /\ chState \in [Channels -> ChannelStates]
    /\ pollBuf \in [Channels -> Seq(Sample)]
    /\ swapBuf \in [Channels -> Seq(Sample)]
    /\ \A c \in Channels : Len(pollBuf[c]) <= Capacity /\ Len(swapBuf[c]) <= Capacity
    /\ oldValue \in [Channels -> Int]
    /\ trigStream \in [Channels -> Seq(Int)]
    /\ \A c \in Channels : Len(trigStream[c]) \in {0, 2}

TimestamperTypeOK ==
    /\ tsStream \in [Streams -> Seq(Time)]
    /\ \A i \in Streams : Len(tsStream[i]) <= Capacity
    /\ tsPoll \in Streams /\ refused \in [Streams -> 0 .. Capacity]
    /\ refTime \in Time /\ lastTimestamp \in Time /\ timeIncrement \in Nat

TriggerTypeOK ==
    /\ trState \in TrStates
    /\ strategy \in Modes
    /\ activeChannel \in Channels
    /\ level \in Int
    /\ trigIndex \in [poll : Time, swap : Time]
    /\ fillUpPollCount \in 0 .. Capacity

ControlTypeOK ==
    /\ dataEvents \in 0 .. MaxEvents
    /\ packerStream \in {0, 1, NoStream}
    /\ changes \in Seq(Changes)

FlagsTypeOK ==
    /\ tsRunning \in BOOLEAN /\ edge \in BOOLEAN
    /\ isRunning \in BOOLEAN /\ isReady \in BOOLEAN
    /\ isTriggered \in [poll : BOOLEAN, swap : BOOLEAN]
    /\ saved \in [Channels -> BOOLEAN]
    /\ requested \in [Channels -> BOOLEAN]

\* Types of the variables, and the bounds of the buffers, streams and counters.
TypeOK == ChannelsTypeOK /\ TimestamperTypeOK /\ TriggerTypeOK /\ ControlTypeOK /\ FlagsTypeOK

(***************************************************************************)
(* The trigger never waits for channels that nobody will start again: when *)
(* it detects or fills up, a channel is running and the timestamper with   *)
(* it; when it has halted the channels itself, to hand a window over, it   *)
(* remembers a channel to restart.  (Trigger.c: the channels are halted in *)
(* stopChannelsAndTimestamp and revived by restoreChannelStates.)          *)
(***************************************************************************)
TriggerNeverStranded ==
    /\ trState \in {"DETECTING", "FILLUP"} => SomeRunning /\ tsRunning
    /\ trState \in {"CLEANUP", "PAUSED"} => \E c \in Channels : saved[c]

(***************************************************************************)
(* A scope that is not ready to run is completely quiet: no channel and no *)
(* timestamper runs, the trigger is idle and remembers nothing it could    *)
(* revive.  ScopeThreadRunner relies on it when it skips the scope because *)
(* isRunning and isReadyToRun are both false.                              *)
(***************************************************************************)
StoppedScopeIsQuiet ==
    ~isReady => /\ ~isRunning /\ ~SomeRunning /\ ~tsRunning
                /\ trState = "IDLE"
                /\ \A c \in Channels : ~saved[c]

(***************************************************************************)
(* A complete window in a SWAP buffer is never overwritten by polling: it  *)
(* stays until it is packed, or until the host clears the scope or starts  *)
(* a channel, which resets all the buffers.  (Trigger.c swapBuffers checks *)
(* the observed channel only; the other channels have to follow suit.)     *)
(***************************************************************************)
UnsentWindowKept ==
    [][\A c \in Channels :
         Full(swapBuf[c]) /\ swapBuf'[c] # swapBuf[c] => Pack \/ Clear \/ SetChannelRunning]_vars

(***************************************************************************)
(* "Copies the current referenceTimestamp and puts it into the buffer"     *)
(* (Timestamper.h): a channel that the host wants to run is packed with    *)
(* exactly the times at which it was polled.  A stream that refuses a      *)
(* timestamp when it is full does not keep this promise, since the         *)
(* channels drop their oldest sample: at the latest in CLEANUP one more    *)
(* sample is taken although the buffers are full.                          *)
(***************************************************************************)
SampleTimes(buf) == [i \in 1 .. Len(buf) |-> buf[i].t]

AlignedWindows ==
    \A c \in Channels :
        requested[c] /\ Full(swapBuf[c]) => SampleTimes(swapBuf[c]) = tsStream[tsSwap]

(***************************************************************************)
(* What holds of the samples and the timestamps that are packed together,  *)
(* whatever a full stream does: they are shifted against one another by    *)
(* exactly the timestamps that the stream has refused, and by none if it   *)
(* drops its oldest.  Nothing else puts them out of step: not a packer     *)
(* that empties the stream that is being filled, not starts, stops,        *)
(* clears or transmits between the polls.                                  *)
(***************************************************************************)
ShiftedBy(r, times, buf) == \A i \in 1 .. Capacity : i > r => times[i] = buf[i - r].t

WindowsShiftByRefused ==
    \A c \in Channels :
        requested[c] /\ Full(swapBuf[c]) =>
            /\ Full(tsStream[tsSwap])
            /\ ShiftedBy(refused[tsSwap], tsStream[tsSwap], swapBuf[c])
            /\ StreamDropsOldest => refused[tsSwap] = 0

(***************************************************************************)
(* When a triggered window is handed over, the window holds the sample     *)
(* that triggered at the announced trigger timestamp, and that sample and  *)
(* its predecessor cross the level in the configured direction.  (The      *)
(* half-full and half-capacity conditions of detectNormal and              *)
(* fillUpIfTriggered are there for this; windows of fewer than four        *)
(* samples are too short.)                                                 *)
(***************************************************************************)
\* getTriggerData: what SC_DATA says of the trigger
TriggerData ==
    [isTriggered |-> isTriggered.swap, triggerTimestamp |-> trigIndex.swap,
     channelId |-> activeChannel, mode |-> strategy]

HoldsTrigger(buf, t) ==
    \E i \in 1 .. Len(buf) : buf[i].t = t /\ (i > 1 => Crosses(buf[i - 1].v, buf[i].v))

TriggerInWindow ==
    [][tsPoll' # tsPoll /\ TriggerData'.isTriggered /\ requested[activeChannel]
         => HoldsTrigger(swapBuf'[TriggerData'.channelId], TriggerData'.triggerTimestamp)]_vars

(***************************************************************************)
(* A capture that has its window finishes: the trigger does not stay in    *)
(* CLEANUP, because the previous window is packed eventually, and does not *)
(* stay in FILLUP while the observed channel is running.                   *)
(***************************************************************************)
CleanUpCompletes == trState = "CLEANUP" ~> trState # "CLEANUP"
FillUpCompletes  == trState = "FILLUP" ~> trState # "FILLUP" \/ ~Running(activeChannel)

CaptureCompletes == CleanUpCompletes /\ FillUpCompletes

(***************************************************************************)
(* "Clears the timestamp stream as well as all channels" (Scope.h) and     *)
(* "Resets the trigger" (Trigger.h): a host that clears the scope now and  *)
(* then still gets its captures.                                           *)
(***************************************************************************)
ClearKeepsCapturing == CleanUpCompletes

(***************************************************************************)
(* Packing a data message takes the samples and the timestamps that were   *)
(* handed over in the SWAP buffers and never those of the window that is   *)
(* being acquired.  (IPacker.h: reset "Resets the packer"; resetSelf       *)
(* forgets the channels and keeps the timestamp stream.)                   *)
(***************************************************************************)
PackTakesSwapOnly == [][Pack => tsStream'[tsPoll] = tsStream[tsPoll]]_vars

(***************************************************************************)
(* "Stopps the channel with its id matching idOfChangedChannel" (Scope.h): *)
(* a channel that the host has stopped is not running again unless the     *)
(* host starts it.                                                         *)
(***************************************************************************)
StopIsRespected == \A c \in Channels : Running(c) => requested[c]
=============================================================================
