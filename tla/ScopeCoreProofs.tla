--------------------------- MODULE ScopeCoreProofs ---------------------------
(***************************************************************************)
(* Proofs about the sampling engine, for every number of channels, every   *)
(* capacity and every choice of the commands the host may send.            *)
(*                                                                         *)
(* The safety invariants are not inductive by themselves: that a restart   *)
(* finds a channel to revive also needs every remembered channel to have   *)
(* been configured, and that a window is not overwritten also needs a full *)
(* SWAP buffer to imply a full stream of SWAP timestamps, because          *)
(* swapBuffers in Trigger.c looks at the observed channel only.            *)
(***************************************************************************)
EXTENDS ScopeCoreRefinement, TLAPS

SavedWereConfigured == \A c \in Channels : saved[c] => chState[c] # "INIT"

FullWindowHasTimes == \A c \in Channels : Full(swapBuf[c]) => Full(tsStream[tsSwap])

IInv ==
    /\ TypeOK
    /\ TriggerNeverStranded
    /\ StoppedScopeIsQuiet
    /\ SavedWereConfigured
    /\ FullWindowHasTimes

-----------------------------------------------------------------------------
(***************************************************************************)
(* What polling writes.                                                    *)
(***************************************************************************)
LEMMA WriteSampleType ==
    ASSUME NEW buf \in Seq(Sample), Len(buf) <= Capacity, NEW s \in Sample
    PROVE  WriteSample(buf, s) \in Seq(Sample) /\ Len(WriteSample(buf, s)) <= Capacity
BY ScopeCoreAssumption DEF WriteSample, Full

\* A full stream takes no more than its capacity, whatever it drops.
LEMMA WriteTimestampType ==
    ASSUME NEW stream \in Seq(Time), Len(stream) <= Capacity, NEW t \in Time
    PROVE  WriteTimestamp(stream, t) \in Seq(Time) /\ Len(WriteTimestamp(stream, t)) <= Capacity
BY ScopeCoreAssumption DEF WriteTimestamp, Full

\* The refused timestamps are counted up to the capacity, those of the POLL stream only.
LEMMA RefusedType ==
    ASSUME TypeOK
    PROVE  /\ SampledRefused \in [Streams -> 0 .. Capacity]
           /\ SampledRefused[tsSwap] = refused[tsSwap]
<1>1. Capacity \in Nat /\ tsPoll \in Streams /\ tsSwap # tsPoll
  BY ScopeCoreAssumption DEF TypeOK, TimestamperTypeOK, Streams, tsSwap
<1>2. refused \in [Streams -> 0 .. Capacity] /\ tsSwap \in Streams
  BY DEF TypeOK, TimestamperTypeOK, Streams, tsSwap
<1>3. RefusedByWrite(tsStream[tsPoll], refused[tsPoll]) \in 0 .. Capacity
  BY <1>1, <1>2 DEF RefusedByWrite
<1> QED
  BY <1>1, <1>2, <1>3 DEF SampledRefused

\* An empty stream has refused nothing.
LEMMA NoneRefusedType == NoneRefused \in [Streams -> 0 .. Capacity]
BY ScopeCoreAssumption DEF NoneRefused

\* Two values are a sequence of two.
LEMMA PairType ==
    ASSUME NEW a \in Int, NEW b \in Int
    PROVE  <<a, b>> \in Seq(Int) /\ Len(<<a, b>>) = 2
OBVIOUS

\* What a poll writes into the buffers is of their type.
LEMMA SampledType ==
    ASSUME TypeOK, NEW v \in Inputs
    PROVE  /\ Sampled(v) \in [Channels -> Seq(Sample)]
           /\ \A c \in Channels : Len(Sampled(v)[c]) <= Capacity
           /\ SampledTimes \in [Streams -> Seq(Time)]
           /\ \A i \in Streams : Len(SampledTimes[i]) <= Capacity
           /\ SampledTimes[tsSwap] = tsStream[tsSwap]
           /\ SampledTrigger(v) \in [Channels -> Seq(Int)]
           /\ \A c \in Channels : Len(SampledTrigger(v)[c]) \in {0, 2}
<1>1. v \in [Channels -> Int]
  BY ScopeCoreAssumption
<1>2. \A c \in Channels : [t |-> refTime, v |-> v[c]] \in Sample
  BY <1>1 DEF TypeOK, TimestamperTypeOK, Sample
<1>3. \A c \in Channels : Sampled(v)[c] \in Seq(Sample) /\ Len(Sampled(v)[c]) <= Capacity
  BY <1>2, WriteSampleType DEF TypeOK, ChannelsTypeOK, Sampled
<1>4. Sampled(v) \in [Channels -> Seq(Sample)]
  BY <1>3 DEF Sampled
<1>5. /\ WriteTimestamp(tsStream[tsPoll], refTime) \in Seq(Time)
      /\ Len(WriteTimestamp(tsStream[tsPoll], refTime)) <= Capacity
  BY WriteTimestampType DEF TypeOK, TimestamperTypeOK
<1>6. /\ SampledTimes \in [Streams -> Seq(Time)]
      /\ \A i \in Streams : Len(SampledTimes[i]) <= Capacity
      /\ SampledTimes[tsSwap] = tsStream[tsSwap]
  BY <1>5 DEF TypeOK, TimestamperTypeOK, SampledTimes, Streams, tsSwap
<1>7. \A c \in Channels : /\ <<oldValue[c], v[c]>> \in Seq(Int)
                          /\ Len(<<oldValue[c], v[c]>>) = 2
  <2> TAKE c \in Channels
  <2>1. oldValue[c] \in Int /\ v[c] \in Int
    BY <1>1 DEF TypeOK, ChannelsTypeOK
  <2> QED
    BY <2>1, PairType
<1>8. /\ SampledTrigger(v) \in [Channels -> Seq(Int)]
      /\ \A c \in Channels : Len(SampledTrigger(v)[c]) \in {0, 2}
  BY <1>7 DEF TypeOK, ChannelsTypeOK, SampledTrigger
<1> QED
  BY <1>3, <1>4, <1>6, <1>8

\* What clearing leaves is of their type, too.
LEMMA ClearedType ==
    /\ Cleared \in [Channels -> Seq(Sample)] /\ Cleared \in [Channels -> Seq(Int)]
    /\ \A c \in Channels : Cleared[c] = <<>> /\ Len(Cleared[c]) = 0 /\ ~Full(Cleared[c])
    /\ \A i \in Streams : [j \in Streams |-> <<>>][i] = <<>>
    /\ [i \in Streams |-> <<>>] \in [Streams -> Seq(Time)]
BY ScopeCoreAssumption DEF Cleared, Full

-----------------------------------------------------------------------------
(***************************************************************************)
(* Type correctness, one step per action.                                  *)
(***************************************************************************)
LEMMA BoundFacts ==
    /\ Capacity \in Nat /\ Capacity > 0 /\ TimeMod \in Nat /\ TimeMod > 0 /\ MaxEvents \in Nat
    /\ InitialChannel \in Channels
    /\ 0 \in Time
BY ScopeCoreAssumption DEF Time

\* The parts of a trigger configuration have their types.
LEMMA ConfFacts ==
    \A conf \in TriggerConfs : /\ conf.mode \in Modes /\ conf.level \in Int
                               /\ conf.edge \in BOOLEAN /\ conf.channelId \in Channels
BY ScopeCoreAssumption DEF Modes, TriggerConfigurations

\* The timer wraps around.
LEMMA NextTime == \A t \in Time : (t + 1) % TimeMod \in Time
BY BoundFacts DEF Time

\* The first state is well-typed.
LEMMA InitType == Init => TypeOK
<1> SUFFICES ASSUME Init PROVE TypeOK
  OBVIOUS
<1>1. ChannelsTypeOK
  BY ClearedType, BoundFacts DEF Init, ChannelsInit, TimestamperInit, TriggerInit, PackerInit,
        ChannelsTypeOK, ChannelStates
<1>2. TimestamperTypeOK
  BY ClearedType, NoneRefusedType, BoundFacts DEF Init, ChannelsInit, TimestamperInit,
        TriggerInit, PackerInit, TimestamperTypeOK, Streams, NoTimestamps
<1>3. TriggerTypeOK
  BY BoundFacts DEF Init, ChannelsInit, TimestamperInit, TriggerInit, PackerInit,
        TriggerTypeOK, TrStates, Modes
<1>4. ControlTypeOK
  BY ScopeCoreAssumption, BoundFacts DEF Init, ChannelsInit, TimestamperInit, TriggerInit,
        PackerInit, ControlTypeOK, NoStream
<1>5. FlagsTypeOK
  BY DEF Init, ChannelsInit, TimestamperInit, TriggerInit, PackerInit,
        FlagsTypeOK
<1> QED
  BY <1>1, <1>2, <1>3, <1>4, <1>5 DEF TypeOK

\* What PollScope writes has the right types; the rest of the controls it leaves alone.
LEMMA PollScopeType ==
    ASSUME TypeOK, NEW v \in Inputs, PollScope(v)
    PROVE  /\ oldValue' \in [Channels -> Int]
           /\ refTime' \in Time /\ lastTimestamp' \in Time /\ timeIncrement' \in Nat
           /\ strategy' \in Modes /\ activeChannel' \in Channels /\ level' \in Int
           /\ packerStream' \in {0, 1, NoStream}
           /\ changes' \in Seq(Changes)
<1>1. v \in [Channels -> Int]
  BY ScopeCoreAssumption
<1> QED
  BY <1>1 DEF PollScope, confVars, TypeOK, ChannelsTypeOK, TimestamperTypeOK, TriggerTypeOK,
              ControlTypeOK

\* The flags of the scope after a poll.
LEMMA PollScopeFlags ==
    ASSUME TypeOK, NEW v \in Inputs, PollScope(v)
    PROVE  /\ edge' \in BOOLEAN /\ isRunning' \in BOOLEAN /\ isReady' \in BOOLEAN
           /\ requested' \in [Channels -> BOOLEAN]
BY DEF PollScope, confVars, TypeOK, FlagsTypeOK

\* The buffers after a poll that goes on sampling.
LEMMA KeepSamplesType ==
    ASSUME TypeOK, NEW v \in Inputs, PollScope(v), KeepSamples(v),
           chState' \in [Channels -> {"INIT", "STOPPED", "RUNNING"}],
           trigStream' \in [Channels -> Seq(Int)],
           \A c \in Channels : Len(trigStream'[c]) \in {0, 2}
    PROVE  ChannelsTypeOK' /\ TimestamperTypeOK'
<1>1. ChannelsTypeOK'
  BY PollScopeType, SampledType DEF ChannelsTypeOK, KeepSamples, TypeOK, ChannelStates
<1>2. TimestamperTypeOK'
  BY PollScopeType, SampledType, RefusedType DEF TimestamperTypeOK, KeepSamples, TypeOK
<1> QED
  BY <1>1, <1>2

\* The states the trigger saves and restores are states of channels.
LEMMA StatesType ==
    ASSUME TypeOK
    PROVE  /\ RunningStates \in [Channels -> BOOLEAN]
           /\ AllStopped(chState) \in [Channels -> {"INIT", "STOPPED", "RUNNING"}]
           /\ Restored(chState) \in [Channels -> {"INIT", "STOPPED", "RUNNING"}]
BY DEF TypeOK, ChannelsTypeOK, RunningStates, Running, AllStopped, Restored, ChannelStates

\* A poll keeps the types.
LEMMA PollType ==
    ASSUME TypeOK, NEW v \in Inputs, Poll(v)
    PROVE  TypeOK'
<1>1. CASE PollIdle(v)
  <2>1. ChannelsTypeOK' /\ TimestamperTypeOK'
    BY <1>1, SampledType, StatesType, KeepSamplesType DEF PollIdle, TypeOK, ChannelsTypeOK, ChannelStates
  <2>2. TriggerTypeOK' /\ ControlTypeOK'
    BY <1>1, PollScopeType DEF PollIdle, trVars, TypeOK, TriggerTypeOK, ControlTypeOK
  <2>3. FlagsTypeOK'
    BY <1>1, PollScopeFlags, StatesType DEF PollIdle, trVars, TypeOK, FlagsTypeOK
  <2> QED
    BY <2>1, <2>2, <2>3 DEF TypeOK
<1>2. CASE PollPaused(v)
  <2>1. ChannelsTypeOK' /\ TimestamperTypeOK'
    BY <1>2, SampledType, StatesType, KeepSamplesType DEF PollPaused, TypeOK, ChannelsTypeOK, ChannelStates
  <2>2. TriggerTypeOK' /\ ControlTypeOK'
    <3>1. trState' \in TrStates
      BY <1>2 DEF PollPaused, TypeOK, TriggerTypeOK, TrStates
    <3>2. trigIndex' \in [poll : Time, swap : Time] /\ fillUpPollCount' \in 0 .. Capacity
      <4>1. trigIndex' = [trigIndex EXCEPT !.poll = 0] /\ fillUpPollCount' = 0
        BY <1>2 DEF PollPaused, TriggerClear
      <4>2. trigIndex \in [poll : Time, swap : Time]
        BY DEF TypeOK, TriggerTypeOK
      <4> QED
        BY <4>1, <4>2, BoundFacts
    <3>3. dataEvents' \in 0 .. MaxEvents
      BY <1>2 DEF PollPaused, TypeOK, ControlTypeOK
    <3> QED
      BY <1>2, PollScopeType, <3>1, <3>2, <3>3 DEF PollPaused, TriggerTypeOK, ControlTypeOK
  <2>3. FlagsTypeOK'
    BY <1>2, PollScopeFlags, StatesType DEF PollPaused, TriggerClear, TypeOK, FlagsTypeOK
  <2> QED
    BY <2>1, <2>2, <2>3 DEF TypeOK
<1>3. CASE PollDetectNever(v)
  <2>1. ChannelsTypeOK' /\ TimestamperTypeOK'
    BY <1>3, SampledType, StatesType, KeepSamplesType DEF PollDetectNever, TypeOK, ChannelsTypeOK, ChannelStates
  <2>2. TriggerTypeOK' /\ ControlTypeOK'
    BY <1>3, PollScopeType DEF PollDetectNever, TypeOK, TriggerTypeOK, ControlTypeOK, TrStates
  <2>3. FlagsTypeOK'
    BY <1>3, PollScopeFlags, StatesType DEF PollDetectNever, TypeOK, FlagsTypeOK
  <2> QED
    BY <2>1, <2>2, <2>3 DEF TypeOK
<1>4. CASE PollDetectNormal(v)
  <2>1. ChannelsTypeOK' /\ TimestamperTypeOK'
    <3>1. /\ trigStream' \in [Channels -> Seq(Int)]
          /\ \A c \in Channels : Len(trigStream'[c]) \in {0, 2}
      <4>1. CASE Looks(v)
        <5>1. trigStream' = [SampledTrigger(v) EXCEPT ![activeChannel] = <<>>]
          BY <1>4, <4>1 DEF PollDetectNormal
        <5> DEFINE f == SampledTrigger(v)
        <5>2. f \in [Channels -> Seq(Int)] /\ \A c \in Channels : Len(f[c]) \in {0, 2}
          BY SampledType
        <5>3. \A c \in Channels : trigStream'[c] = IF c = activeChannel THEN <<>> ELSE f[c]
          BY <5>1, <5>2
        <5>4. \A c \in Channels : trigStream'[c] \in Seq(Int) /\ Len(trigStream'[c]) \in {0, 2}
          <6> TAKE c \in Channels
          <6>1. f[c] \in Seq(Int) /\ Len(f[c]) \in {0, 2}
            BY <5>2
          <6>2. <<>> \in Seq(Int) /\ Len(<<>>) = 0
            OBVIOUS
          <6> HIDE DEF f
          <6>3. CASE c = activeChannel
            BY <5>3, <6>2, <6>3
          <6>4. CASE c # activeChannel
            BY <5>3, <6>1, <6>4
          <6> QED
            BY <6>3, <6>4
        <5> QED
          BY <5>1, <5>2, <5>4
      <4>2. CASE ~Looks(v)
        BY <1>4, <4>2, SampledType DEF PollDetectNormal
      <4> QED
        BY <4>1, <4>2
    <3> QED
      BY <1>4, PollScopeType, <3>1, KeepSamplesType DEF PollDetectNormal, TypeOK, ChannelsTypeOK, ChannelStates
  <2>2. TriggerTypeOK' /\ ControlTypeOK'
    BY <1>4, PollScopeType DEF PollDetectNormal, TypeOK, TimestamperTypeOK, TriggerTypeOK, ControlTypeOK, TrStates
  <2>3. FlagsTypeOK'
    BY <1>4, PollScopeFlags, StatesType DEF PollDetectNormal, Detects, Crosses, TypeOK, FlagsTypeOK
  <2> QED
    BY <2>1, <2>2, <2>3 DEF TypeOK
<1>5. CASE PollFillUp(v)
  <2>1. ChannelsTypeOK' /\ TimestamperTypeOK'
    BY <1>5, SampledType, StatesType, KeepSamplesType DEF PollFillUp, TypeOK, ChannelsTypeOK, ChannelStates
  <2>2. TriggerTypeOK' /\ ControlTypeOK'
    BY <1>5, PollScopeType, BoundFacts DEF PollFillUp, TypeOK, TriggerTypeOK, ControlTypeOK, TrStates
  <2>3. FlagsTypeOK'
    BY <1>5, PollScopeFlags, StatesType DEF PollFillUp, TypeOK, FlagsTypeOK
  <2> QED
    BY <2>1, <2>2, <2>3 DEF TypeOK
<1>6. CASE PollCleanUp(v)
  <2> DEFINE Goal == ChannelsTypeOK' /\ TimestamperTypeOK' /\ TriggerTypeOK' /\ ControlTypeOK'
  <2>1. ASSUME SwapIsPending(Sampled(v), SampledTimes) PROVE Goal
    <3>1. /\ swapBuf' = Sampled(v) /\ pollBuf' = Cleared /\ chState' = AllStopped(chState)
          /\ trigStream' = SampledTrigger(v)
      BY <1>6, <2>1 DEF PollCleanUp, SwapBuffers, SwapChannels
    <3>2. /\ tsStream' = [SampledTimes EXCEPT ![tsSwap] = <<>>] /\ tsPoll' = tsSwap
          /\ trigIndex' = [trigIndex EXCEPT !.swap = trigIndex.poll]
          /\ fillUpPollCount' = 0 /\ PushData
          /\ refused' = [SampledRefused EXCEPT ![tsSwap] = 0]
      BY <1>6, <2>1 DEF PollCleanUp, SwapBuffers
    <3>3. trState' \in TrStates
      BY <1>6, <2>1 DEF PollCleanUp, TrStates
    <3>4. PollScope(v)
      BY <1>6 DEF PollCleanUp
    <3>5. ChannelsTypeOK'
      BY <3>1, <3>4, PollScopeType, SampledType, StatesType, ClearedType, BoundFacts
      DEF ChannelsTypeOK, ChannelStates
    <3>6. TimestamperTypeOK'
      <4>1. tsSwap \in Streams
        BY DEF TypeOK, TimestamperTypeOK, Streams, tsSwap
      <4>2. SampledTimes \in [Streams -> Seq(Time)] /\ \A i \in Streams : Len(SampledTimes[i]) <= Capacity
        BY SampledType
      <4>3. tsStream' \in [Streams -> Seq(Time)] /\ \A i \in Streams : Len(tsStream'[i]) <= Capacity
        <5> QED
          BY <3>2, <4>1, <4>2, BoundFacts
      <4>4. refused' \in [Streams -> 0 .. Capacity]
        BY <3>2, <4>1, RefusedType, BoundFacts
      <4> QED
        BY <3>2, <3>4, <4>1, <4>3, <4>4, PollScopeType DEF TimestamperTypeOK
    <3>7. TriggerTypeOK'
      BY <3>2, <3>3, <3>4, PollScopeType, BoundFacts DEF TypeOK, TriggerTypeOK
    <3>8. ControlTypeOK'
      BY <3>2, <3>4, PollScopeType, BoundFacts DEF PushData, TypeOK, ControlTypeOK
    <3> QED
      BY <3>5, <3>6, <3>7, <3>8
  <2>2. ASSUME ~SwapIsPending(Sampled(v), SampledTimes) PROVE Goal
    <3>1. /\ KeepSamples(v) /\ chState' = AllStopped(chState) /\ trigStream' = SampledTrigger(v)
          /\ UNCHANGED <<trigIndex, trState, fillUpPollCount, dataEvents>>
      BY <1>6, <2>2 DEF PollCleanUp
    <3>2. PollScope(v)
      BY <1>6 DEF PollCleanUp
    <3>3. ChannelsTypeOK' /\ TimestamperTypeOK'
      BY <3>1, <3>2, KeepSamplesType, SampledType, StatesType
    <3>4. TriggerTypeOK' /\ ControlTypeOK'
      BY <3>1, <3>2, PollScopeType DEF TypeOK, TriggerTypeOK, ControlTypeOK
    <3> QED
      BY <3>3, <3>4
  <2>3. ChannelsTypeOK' /\ TimestamperTypeOK' /\ TriggerTypeOK' /\ ControlTypeOK'
    BY <2>1, <2>2
  <2>4. FlagsTypeOK'
    BY ZenonT(30), <1>6, PollScopeFlags, StatesType DEF PollCleanUp, TypeOK, FlagsTypeOK, SwapBuffers
  <2> QED
    BY <2>3, <2>4 DEF TypeOK
<1> QED
  BY <1>1, PollScopeType, <1>2, <1>3, <1>4, <1>5, <1>6 DEF Poll

\* The channel changes still to be made, and the one that is made now.
LEMMA ChangesType ==
    ASSUME TypeOK, changes # <<>>
    PROVE  Head(changes).id \in Channels /\ Tail(changes) \in Seq(Changes)
<1>1. changes \in Seq(Changes)
  BY DEF TypeOK, ControlTypeOK
<1>2. Head(changes) \in Changes /\ Tail(changes) \in Seq(Changes)
  BY <1>1
<1> QED
  BY <1>2 DEF Changes

\* A change of the state of one channel.
LEMMA SetStateType ==
    ASSUME TypeOK, NEW c \in Channels,
           NEW from \in {"STOPPED", "RUNNING"}, NEW to \in {"STOPPED", "RUNNING"}
    PROVE  SetState(c, from, to) \in [Channels -> {"INIT", "STOPPED", "RUNNING"}]
BY DEF TypeOK, ChannelsTypeOK, SetState, ChannelStates

\* Starting a channel keeps the types.
LEMMA StartType ==
    ASSUME TypeOK, SetChannelRunning
    PROVE  TypeOK'
<1> DEFINE started == SetState(Head(changes).id, "STOPPED", "RUNNING")
<1>1. started \in [Channels -> {"INIT", "STOPPED", "RUNNING"}]
  BY ChangesType, SetStateType DEF SetChannelRunning
<1>2. Restored(started) \in [Channels -> {"INIT", "STOPPED", "RUNNING"}]
  BY <1>1 DEF Restored
<1>3. ChannelsTypeOK'
  <2>1. chState' \in [Channels -> {"INIT", "STOPPED", "RUNNING"}]
    BY <1>1, <1>2 DEF SetChannelRunning, Activate
  <2>2. \/ pollBuf' = Cleared /\ swapBuf' = Cleared /\ trigStream' = Cleared
        \/ UNCHANGED <<pollBuf, swapBuf, trigStream>>
    BY DEF SetChannelRunning, Activate, ResetBuffers
  <2>3. oldValue' = oldValue
    BY DEF SetChannelRunning
  <2>4. CASE pollBuf' = Cleared /\ swapBuf' = Cleared /\ trigStream' = Cleared
    BY <2>1, <2>3, <2>4, ClearedType, BoundFacts DEF TypeOK, ChannelsTypeOK, ChannelStates
  <2>5. CASE UNCHANGED <<pollBuf, swapBuf, trigStream>>
    BY <2>1, <2>3, <2>5 DEF TypeOK, ChannelsTypeOK, ChannelStates
  <2> QED
    BY <2>2, <2>4, <2>5
<1>4. TimestamperTypeOK'
  <2>1. /\ tsStream' = [i \in Streams |-> <<>>] \/ UNCHANGED tsStream
        /\ refused' = NoneRefused \/ UNCHANGED refused
    BY DEF SetChannelRunning, Activate, ResetBuffers, NoTimestamps
  <2>2. UNCHANGED <<tsPoll, refTime, lastTimestamp, timeIncrement>>
    BY DEF SetChannelRunning, clkVars
  <2> QED
    BY <2>1, <2>2, ClearedType, NoneRefusedType, BoundFacts DEF TypeOK, TimestamperTypeOK
<1>5. TriggerTypeOK'
  <2>1. \/ /\ trState' = "DETECTING" /\ fillUpPollCount' = 0
           /\ trigIndex' = [trigIndex EXCEPT !.poll = 0]
        \/ UNCHANGED <<trState, trigIndex, fillUpPollCount>>
    BY DEF SetChannelRunning, TriggerClear, Activate
  <2>2. UNCHANGED <<strategy, activeChannel, level>>
    BY DEF SetChannelRunning, confVars
  <2> QED
    BY <2>1, <2>2, BoundFacts DEF TypeOK, TriggerTypeOK, TrStates
<1>6. ControlTypeOK'
  BY ChangesType DEF SetChannelRunning, TypeOK, ControlTypeOK
<1>7. FlagsTypeOK'
  BY ChangesType DEF SetChannelRunning, TriggerClear, confVars, TypeOK, FlagsTypeOK, Activate
<1> QED
  BY <1>3, <1>4, <1>5, <1>6, <1>7 DEF TypeOK

\* Stopping a channel keeps the types.
LEMMA StopType ==
    ASSUME TypeOK, SetChannelStopped
    PROVE  TypeOK'
<1>1. ChannelsTypeOK'
  <2>1. chState' \in [Channels -> {"INIT", "STOPPED", "RUNNING"}]
    BY ChangesType, SetStateType DEF SetChannelStopped
  <2> QED
    BY <2>1 DEF SetChannelStopped, TypeOK, ChannelsTypeOK, ChannelStates
<1>2. TimestamperTypeOK'
  BY DEF SetChannelStopped, clkVars, TypeOK, TimestamperTypeOK
<1>3. TriggerTypeOK'
  BY BoundFacts DEF SetChannelStopped, TriggerDeactivate, confVars, TypeOK, TriggerTypeOK, TrStates
<1>4. ControlTypeOK'
  BY ChangesType DEF SetChannelStopped, TypeOK, ControlTypeOK
<1>5. FlagsTypeOK'
  BY ChangesType DEF SetChannelStopped, TriggerDeactivate, confVars, TypeOK, FlagsTypeOK
<1> QED
  BY <1>1, <1>2, <1>3, <1>4, <1>5 DEF TypeOK

\* Packing keeps the types.
LEMMA PackType ==
    ASSUME TypeOK, Pack
    PROVE  TypeOK'
<1>1. ChannelsTypeOK'
  BY BoundFacts DEF Pack, TypeOK, ChannelsTypeOK
<1>2. TimestamperTypeOK'
  BY BoundFacts DEF Pack, clkVars, TypeOK, TimestamperTypeOK
<1>3. TriggerTypeOK'
  BY DEF Pack, trVars, confVars, TypeOK, TriggerTypeOK
<1>4. ControlTypeOK'
  <2>1. tsSwap \in {0, 1}
    BY DEF TypeOK, TimestamperTypeOK, Streams, tsSwap
  <2>2. packerStream' \in {0, 1, NoStream}
    BY <2>1 DEF Pack, TypeOK, ControlTypeOK
  <2> QED
    BY <2>2, BoundFacts DEF Pack, TypeOK, ControlTypeOK
<1>5. FlagsTypeOK'
  BY DEF Pack, trVars, confVars, scVars, TypeOK, FlagsTypeOK
<1> QED
  BY <1>1, <1>2, <1>3, <1>4, <1>5 DEF TypeOK

\* The changes of a CF_RUNNING message are a sequence.
LEMMA ChangeSequencesType == ChangeSequences \subseteq Seq(Changes)
BY ScopeCoreAssumption DEF ChangeSequences

\* Every command of the host keeps the types.
LEMMA CommandType ==
    ASSUME TypeOK, HostCommand
    PROVE  TypeOK'
<1> USE DEF TypeOK, ChannelsTypeOK, ChannelStates, TimestamperTypeOK, TriggerTypeOK, ControlTypeOK
<1>1. ASSUME NEW c \in Channels, ConfigureChannel(c) PROVE TypeOK'
  <2>1. chState' \in [Channels -> {"INIT", "STOPPED", "RUNNING"}]
    BY <1>1 DEF ConfigureChannel
  <2>2. FlagsTypeOK'
    BY <1>1 DEF ConfigureChannel, tsVars, confVars, trVars, scVars, ctlVars, FlagsTypeOK
  <2> QED
    BY <1>1, <2>1, <2>2 DEF ConfigureChannel, tsVars, clkVars, confVars, trVars, scVars, ctlVars
<1>2. ASSUME NEW cs \in ChangeSequences, CommandRunning(cs) PROVE TypeOK'
  <2>1. FlagsTypeOK'
    BY <1>2 DEF CommandRunning, tsVars, confVars, trVars, scVars, FlagsTypeOK
  <2> QED
    BY <1>2, <2>1, ChangeSequencesType
    DEF CommandRunning, chVars, tsVars, clkVars, confVars, trVars, scVars
<1>3. ASSUME NEW conf \in TriggerConfs, ConfigureTrigger(conf) PROVE TypeOK'
  <2>1. FlagsTypeOK'
    BY <1>3, ConfFacts DEF ConfigureTrigger, tsVars, trVars, scVars, ctlVars, FlagsTypeOK
  <2> QED
    BY <1>3, <2>1, ConfFacts DEF ConfigureTrigger, chVars, tsVars, clkVars, trVars, scVars, ctlVars
<1>4. ASSUME NEW i \in Increments, ConfigureTimeIncrement(i) PROVE TypeOK'
  <2>1. FlagsTypeOK'
    BY <1>4 DEF ConfigureTimeIncrement, tsVars, confVars, trVars, scVars, ctlVars, FlagsTypeOK
  <2>2. timeIncrement' \in Nat
    BY <1>4, ScopeCoreAssumption DEF ConfigureTimeIncrement
  <2> QED
    BY <1>4, <2>1, <2>2 DEF ConfigureTimeIncrement, chVars, tsVars, confVars, trVars, scVars, ctlVars
<1>5. CASE Clear
  <2>1. FlagsTypeOK'
    BY <1>5 DEF Clear, TriggerClear, confVars, scVars, ctlVars, FlagsTypeOK
  <2>2. ChannelsTypeOK'
    BY <1>5, ClearedType, BoundFacts DEF Clear, ResetBuffers
  <2>3. TimestamperTypeOK'
    BY <1>5, ClearedType, NoneRefusedType, BoundFacts DEF Clear, clkVars, ResetBuffers, NoTimestamps
  <2>4. TriggerTypeOK'
    <3>1. trigIndex' = [trigIndex EXCEPT !.poll = 0] /\ fillUpPollCount' = 0
      BY <1>5 DEF Clear, TriggerClear
    <3>2. trigIndex' \in [poll : Time, swap : Time]
      BY <3>1, BoundFacts
    <3>3. UNCHANGED <<trState, strategy, activeChannel, level>>
      BY <1>5 DEF Clear, confVars
    <3> QED
      BY <3>1, <3>2, <3>3, BoundFacts
  <2> QED
    BY <1>5, <2>1, <2>2, <2>3, <2>4 DEF Clear, ctlVars
<1>6. CASE Transmit
  <2>1. FlagsTypeOK'
    BY <1>6 DEF Transmit, tsVars, trVars, confVars, scVars, FlagsTypeOK
  <2> QED
    BY <1>6, <2>1, BoundFacts DEF Transmit, PushData, chVars, tsVars, clkVars, confVars, trVars, scVars
<1> QED
  BY <1>1, <1>2, <1>3, <1>4, <1>5, <1>6 DEF HostCommand

\* Every step keeps the types.
LEMMA NextType == TypeOK /\ [Next]_vars => TypeOK'
<1> SUFFICES ASSUME TypeOK, [Next]_vars PROVE TypeOK'
  OBVIOUS
<1>1. ASSUME NEW v \in Inputs, Poll(v) PROVE TypeOK'
  BY <1>1, PollType
<1>2. CASE PollTooEarly
  <2>1. FlagsTypeOK'
    BY <1>2 DEF PollTooEarly, tsVars, confVars, trVars, ctlVars, TypeOK, FlagsTypeOK
  <2> QED
    BY <1>2, <2>1 DEF PollTooEarly, chVars, tsVars, clkVars, confVars, trVars, ctlVars, TypeOK,
                      ChannelsTypeOK, TimestamperTypeOK, TriggerTypeOK, ControlTypeOK
<1>3. CASE HostCommand
  BY <1>3, CommandType
<1>4. CASE SetChannelRunning
  BY <1>4, StartType
<1>5. CASE SetChannelStopped
  BY <1>5, StopType
<1>6. CASE Pack
  BY <1>6, PackType
<1>7. CASE Tick
  <2>1. FlagsTypeOK'
    BY <1>7 DEF Tick, tsVars, confVars, trVars, scVars, ctlVars, TypeOK, FlagsTypeOK
  <2>2. refTime' \in Time
    BY <1>7, NextTime DEF Tick, TypeOK, TimestamperTypeOK
  <2> QED
    BY <1>7, <2>1, <2>2 DEF Tick, chVars, tsVars, confVars, trVars, scVars, ctlVars, TypeOK,
                            ChannelsTypeOK, TimestamperTypeOK, TriggerTypeOK, ControlTypeOK
<1>8. CASE UNCHANGED vars
  <2>1. FlagsTypeOK'
    BY <1>8 DEF vars, tsVars, confVars, trVars, scVars, ctlVars, TypeOK, FlagsTypeOK
  <2> QED
    BY <1>8, <2>1 DEF vars, chVars, tsVars, clkVars, confVars, trVars, scVars, ctlVars, TypeOK,
                      ChannelsTypeOK, TimestamperTypeOK, TriggerTypeOK, ControlTypeOK
<1> QED
  BY <1>1, <1>2, <1>3, <1>4, <1>5, <1>6, <1>7, <1>8 DEF Next

(***************************************************************************)
(* The variables keep their types, and no buffer, stream or counter ever   *)
(* outgrows its capacity.                                                  *)
(***************************************************************************)
THEOREM TypeCorrect == Spec => []TypeOK
BY InitType, NextType, PTL DEF Spec

-----------------------------------------------------------------------------
(***************************************************************************)
(* The conjuncts of the inductive invariant, one lemma each.  What they    *)
(* say of the initial state follows from Init alone.                       *)
(***************************************************************************)
LEMMA InitIInv == Init => IInv
<1> SUFFICES ASSUME Init PROVE IInv
  OBVIOUS
<1>1. TriggerNeverStranded /\ StoppedScopeIsQuiet
  BY DEF Init, ChannelsInit, TimestamperInit, TriggerInit, PackerInit,
        TriggerNeverStranded, StoppedScopeIsQuiet, SomeRunning, Running
<1>2. SavedWereConfigured
  BY DEF Init, ChannelsInit, TimestamperInit, TriggerInit, PackerInit,
        SavedWereConfigured
<1>3. FullWindowHasTimes
  BY ClearedType DEF Init, ChannelsInit, TimestamperInit, TriggerInit, PackerInit,
        FullWindowHasTimes
<1> QED
  BY <1>1, <1>2, <1>3, InitType DEF IInv

\* The trigger remembers only channels that were configured.
LEMMA SavedStep ==
    ASSUME TypeOK, SavedWereConfigured, [Next]_vars
    PROVE  SavedWereConfigured'
<1> USE DEF SavedWereConfigured
<1>1. ASSUME NEW v \in Inputs, Poll(v) PROVE SavedWereConfigured'
  <2>1. \A c \in Channels : chState'[c] = "INIT" => chState[c] = "INIT"
    BY <1>1 DEF Poll, PollIdle, PollPaused, PollDetectNever, PollDetectNormal, PollFillUp,
                PollCleanUp, AllStopped, Restored, TypeOK, ChannelsTypeOK
  <2>2. saved' = saved \/ saved' = RunningStates
    BY <1>1 DEF Poll, PollIdle, PollPaused, PollDetectNever, PollDetectNormal, PollFillUp,
                PollCleanUp, trVars
  <2> QED
    BY <2>1, <2>2 DEF RunningStates, Running
<1>2. ASSUME NEW c \in Channels, ConfigureChannel(c) PROVE SavedWereConfigured'
  BY <1>2 DEF ConfigureChannel, trVars, TypeOK, ChannelsTypeOK
<1>3. CASE SetChannelRunning
  BY <1>3 DEF SetChannelRunning, SetState, Restored, TypeOK, ChannelsTypeOK, Activate
<1>4. CASE SetChannelStopped
  BY <1>4 DEF SetChannelStopped, TriggerDeactivate, SetState, TypeOK, ChannelsTypeOK
<1>5. ASSUME UNCHANGED <<chState, saved>> PROVE SavedWereConfigured'
  BY <1>5
<1> QED
  BY <1>1, <1>2, <1>3, <1>4, <1>5
     DEF Next, vars, HostCommand, PollTooEarly, CommandRunning, ConfigureTrigger,
         ConfigureTimeIncrement, Clear, Transmit, Pack, Tick, chVars, trVars

\* A trigger that waits has channels that will be started again.
LEMMA StrandedStep ==
    ASSUME TypeOK, SavedWereConfigured, TriggerNeverStranded, StoppedScopeIsQuiet, [Next]_vars
    PROVE  TriggerNeverStranded'
<1> USE DEF TriggerNeverStranded, SomeRunning, Running
<1>1. ASSUME NEW v \in Inputs, Poll(v) PROVE TriggerNeverStranded'
  <2>1. CASE PollIdle(v)
    BY <2>1 DEF PollIdle, trVars
  <2>2. CASE PollPaused(v)
    BY <2>2 DEF PollPaused, SavedWereConfigured, Restored, TypeOK, ChannelsTypeOK, ChannelStates
  <2>3. CASE PollDetectNever(v)
    BY <2>3 DEF PollDetectNever
  <2>4. CASE PollDetectNormal(v)
    BY <2>4 DEF PollDetectNormal
  <2>5. CASE PollFillUp(v)
    BY <2>5 DEF PollFillUp, RunningStates
  <2>6. CASE PollCleanUp(v)
    BY <2>6 DEF PollCleanUp
  <2> QED
    BY <1>1, <2>1, <2>2, <2>3, <2>4, <2>5, <2>6 DEF Poll
<1>2. ASSUME NEW c \in Channels, ConfigureChannel(c) PROVE TriggerNeverStranded'
  BY <1>2 DEF ConfigureChannel, tsVars, trVars, TypeOK, ChannelsTypeOK
<1>3. CASE SetChannelRunning
  BY <1>3 DEF SetChannelRunning, SetState, Restored, TypeOK, ChannelsTypeOK, Activate
<1>4. CASE SetChannelStopped
  BY <1>4 DEF SetChannelStopped, TriggerDeactivate, SetState, TypeOK, ChannelsTypeOK
<1>5. ASSUME UNCHANGED <<chState, tsRunning, trState, saved>> PROVE TriggerNeverStranded'
  BY <1>5
<1> QED
  BY <1>1, <1>2, <1>3, <1>4, <1>5
     DEF Next, vars, HostCommand, PollTooEarly, CommandRunning, ConfigureTrigger,
         ConfigureTimeIncrement, Clear, Transmit, Pack, Tick, chVars, tsVars, trVars

\* A scope that is not ready is quiet.
LEMMA QuietStep ==
    ASSUME TypeOK, SavedWereConfigured, TriggerNeverStranded, StoppedScopeIsQuiet, [Next]_vars
    PROVE  StoppedScopeIsQuiet'
<1> USE DEF StoppedScopeIsQuiet, SomeRunning, Running
<1>1. ASSUME NEW v \in Inputs, Poll(v) PROVE StoppedScopeIsQuiet'
  BY <1>1 DEF Poll, PollIdle, PollPaused, PollDetectNever, PollDetectNormal, PollFillUp,
              PollCleanUp, PollScope
<1>2. ASSUME NEW c \in Channels, ConfigureChannel(c) PROVE StoppedScopeIsQuiet'
  BY <1>2 DEF ConfigureChannel, tsVars, trVars, scVars, TypeOK, ChannelsTypeOK
<1>3. CASE SetChannelRunning
  BY <1>3 DEF SetChannelRunning, SetState, TypeOK, ChannelsTypeOK
<1>4. CASE SetChannelStopped
  BY <1>4 DEF SetChannelStopped, TriggerDeactivate, SetState, TypeOK, ChannelsTypeOK
<1>5. CASE PollTooEarly
  BY <1>5 DEF PollTooEarly
<1>6. ASSUME UNCHANGED <<chState, tsRunning, trState, saved, isRunning, isReady>>
      PROVE  StoppedScopeIsQuiet'
  BY <1>6
<1> QED
  BY <1>1, <1>2, <1>3, <1>4, <1>5, <1>6
     DEF Next, vars, HostCommand, CommandRunning, ConfigureTrigger, ConfigureTimeIncrement,
         Clear, Transmit, Pack, Tick, chVars, tsVars, trVars, scVars

\* The timestamps of a full window are all there: swapBuffers moves both, Pack takes both.
LEMMA TimesStep ==
    ASSUME TypeOK, FullWindowHasTimes, [Next]_vars
    PROVE  FullWindowHasTimes'
<1> USE DEF FullWindowHasTimes
<1>1. ASSUME NEW v \in Inputs, Poll(v) PROVE FullWindowHasTimes'
  <2>1. ASSUME KeepSamples(v) PROVE FullWindowHasTimes'
    BY <2>1, SampledType DEF KeepSamples, tsSwap, Full
  <2>2. ASSUME PollCleanUp(v), SwapIsPending(Sampled(v), SampledTimes) PROVE FullWindowHasTimes'
    <3>1. /\ Full(SampledTimes[tsPoll])
          /\ tsStream' = [SampledTimes EXCEPT ![tsSwap] = <<>>] /\ tsPoll' = tsSwap
      BY <2>2 DEF PollCleanUp, SwapIsPending, SwapBuffers, TimestampSwapIsPending
    <3>2. tsSwap' = tsPoll /\ tsPoll # tsSwap /\ tsPoll \in Streams
      BY <3>1 DEF TypeOK, TimestamperTypeOK, Streams, tsSwap
    <3>3. tsStream'[tsPoll] = SampledTimes[tsPoll]
      BY <3>1, <3>2, SampledType
    <3> QED
      BY <3>1, <3>2, <3>3 DEF Full
  <2> QED
    BY <1>1, <2>1, <2>2 DEF Poll, PollIdle, PollPaused, PollDetectNever, PollDetectNormal,
                            PollFillUp, PollCleanUp
<1>2. CASE SetChannelRunning
  BY <1>2, ClearedType DEF SetChannelRunning, tsSwap, Full, Activate, ResetBuffers
<1>3. CASE Clear
  BY <1>3, ClearedType DEF Clear, ResetBuffers
<1>4. CASE Pack
  BY <1>4, BoundFacts DEF Pack, ChannelsToPack, Full, TypeOK, ChannelsTypeOK
<1>5. ASSUME UNCHANGED <<swapBuf, tsStream, tsPoll>> PROVE FullWindowHasTimes'
  BY <1>5 DEF tsSwap, Full
<1> QED
  BY <1>1, <1>2, <1>3, <1>4, <1>5
     DEF Next, vars, HostCommand, PollTooEarly, ConfigureChannel, CommandRunning,
         ConfigureTrigger, ConfigureTimeIncrement, Transmit, SetChannelStopped, Tick,
         chVars, tsVars

\* Every step keeps the invariant.
LEMMA NextIInv == IInv /\ [Next]_vars => IInv'
BY NextType, SavedStep, StrandedStep, QuietStep, TimesStep DEF IInv

\* The invariant of the sampling engine.
LEMMA InvariantHolds == Spec => []IInv
BY InitIInv, NextIInv, PTL DEF Spec

(***************************************************************************)
(* The trigger always has channels that run, or remembers channels to      *)
(* restart: it cannot wait for ever for samples that nobody takes.         *)
(***************************************************************************)
THEOREM NeverStranded == Spec => []TriggerNeverStranded
<1>1. IInv => TriggerNeverStranded
  BY DEF IInv
<1> QED
  BY <1>1, InvariantHolds, PTL

(***************************************************************************)
(* A scope that is not ready to run is quiet: the thread that samples may  *)
(* skip it.                                                                *)
(***************************************************************************)
THEOREM StoppedQuiet == Spec => []StoppedScopeIsQuiet
<1>1. IInv => StoppedScopeIsQuiet
  BY DEF IInv
<1> QED
  BY <1>1, InvariantHolds, PTL

=============================================================================
