-------------------------- MODULE ScopeCaptureProofs --------------------------
(***************************************************************************)
(* The windows that wait to be sent.  They are not overwritten, and the    *)
(* sampling engine implements CaptureProtocol: both rest on the inductive  *)
(* invariant of ScopeCoreProofs, the refinement above all on               *)
(* FullWindowHasTimes: when the stream of SWAP timestamps is empty, so is  *)
(* the box.  Samples and timestamps of a window belong together, because   *)
(* each channel that the host wants has in its buffer the samples of the   *)
(* latest timestamps, the refused ones included (AlignInv).  And a triggered window holds the sample  *)
(* that triggered: its place in the buffer, counted from the end, is the   *)
(* fill-up counter (TriggerInv).                                           *)
(***************************************************************************)
EXTENDS ScopeCoreProofs

\* What the hand-over of a window does to the SWAP buffers.
LEMMA HandOverFacts ==
    ASSUME IInv, NEW v \in Inputs, PollCleanUp(v), SwapIsPending(Sampled(v), SampledTimes)
    PROVE  /\ ChannelsToPack = {}
           /\ activeChannel \in ChannelsToPack'
           /\ tsStream'[tsSwap'] \in Seq(Time) /\ Len(tsStream'[tsSwap']) = Capacity
<1> USE DEF IInv
<1>1. tsSwap' = tsPoll /\ tsPoll # tsSwap /\ tsPoll \in Streams /\ tsSwap \in Streams
  BY DEF PollCleanUp, TypeOK, TimestamperTypeOK, Streams, tsSwap, SwapBuffers
<1>2. tsStream[tsSwap] = <<>>
  BY SampledType DEF SwapIsPending, TimestampSwapIsPending
<1>3. ChannelsToPack = {}
  BY <1>2, BoundFacts DEF FullWindowHasTimes, ChannelsToPack, Full
<1>4. activeChannel \in ChannelsToPack'
  BY DEF PollCleanUp, SwapIsPending, ChannelsToPack, Full, TypeOK, TriggerTypeOK,
         SwapBuffers, SwapChannels, ChannelSwapIsPending
<1>5. tsStream'[tsSwap'] = SampledTimes[tsPoll]
  BY <1>1, SampledType DEF PollCleanUp, SwapBuffers
<1>6. Full(SampledTimes[tsPoll])
  BY DEF SwapIsPending, TimestampSwapIsPending
<1> QED
  BY <1>1, <1>3, <1>4, <1>5, <1>6, SampledType DEF Full

\* Every other poll leaves the SWAP buffers and the SWAP timestamps alone.
LEMMA PollKeepsSwap ==
    ASSUME TypeOK, NEW v \in Inputs, Poll(v),
           ~(PollCleanUp(v) /\ SwapIsPending(Sampled(v), SampledTimes))
    PROVE  swapBuf' = swapBuf /\ tsPoll' = tsPoll /\ tsStream'[tsSwap] = tsStream[tsSwap]
<1>1. KeepSamples(v)
  BY DEF Poll, PollIdle, PollPaused, PollDetectNever, PollDetectNormal, PollFillUp, PollCleanUp
<1> QED
  BY <1>1, SampledType DEF KeepSamples

-----------------------------------------------------------------------------
(***************************************************************************)
(* A complete window stays in its SWAP buffer until it is packed or the    *)
(* host resets the buffers: polling never overwrites it.                   *)
(***************************************************************************)
THEOREM WindowsKept == Spec => UnsentWindowKept
<1> DEFINE A == \A c \in Channels :
                  Full(swapBuf[c]) /\ swapBuf'[c] # swapBuf[c] => Pack \/ Clear \/ SetChannelRunning
<1>1. IInv /\ [Next]_vars => [A]_vars
  <2> SUFFICES ASSUME IInv, Next PROVE A
    OBVIOUS
  <2>1. ASSUME NEW v \in Inputs, Poll(v) PROVE A
    <3>1. CASE PollCleanUp(v) /\ SwapIsPending(Sampled(v), SampledTimes)
      BY <3>1, HandOverFacts DEF ChannelsToPack
    <3>2. CASE ~(PollCleanUp(v) /\ SwapIsPending(Sampled(v), SampledTimes))
      BY <2>1, <3>2, PollKeepsSwap DEF IInv
    <3> QED
      BY <3>1, <3>2
  <2>2. CASE Pack \/ Clear \/ SetChannelRunning
    BY <2>2
  <2>3. ASSUME UNCHANGED swapBuf PROVE A
    BY <2>3
  <2> QED
    BY <2>1, <2>2, <2>3
       DEF Next, HostCommand, PollTooEarly, ConfigureChannel, CommandRunning, ConfigureTrigger,
           ConfigureTimeIncrement, Transmit, SetChannelStopped, Tick, chVars
<1> QED
  BY <1>1, InvariantHolds, PTL DEF Spec, UnsentWindowKept

-----------------------------------------------------------------------------
(***************************************************************************)
(* The refinement, one lemma per group of actions.                         *)
(***************************************************************************)
Captured == [Capture!CPNext]_(Capture!cpVars)

\* The box as the channels and the timestamper leave it.
LEMMA BoxKept ==
    ASSUME swapBuf' = swapBuf, tsPoll' = tsPoll, tsStream'[tsSwap] = tsStream[tsSwap]
    PROVE  Box' = Box
BY DEF Box, ChannelsToPack, Full, tsSwap

\* Cleared SWAP buffers are an empty box.
LEMMA BoxCleared ==
    ASSUME swapBuf' = Cleared
    PROVE  Box' = <<>>
BY ClearedType DEF Box, ChannelsToPack

\* A box that is emptied was taken out.
LEMMA BoxTaken ==
    ASSUME IInv, Box # <<>>, Box' = <<>>, trState' = trState
    PROVE  Capture!TakeOut
BY DEF Capture!TakeOut, Capture!Empty, Engine

\* A poll fills the box, changes the phase of the trigger, or is not seen.
LEMMA PollCaptures ==
    ASSUME IInv, NEW v \in Inputs, Poll(v)
    PROVE  Captured
<1> USE DEF Captured, Capture!CPNext, Capture!cpVars
<1>1. CASE PollCleanUp(v) /\ SwapIsPending(Sampled(v), SampledTimes)
  <2>1. Box = <<>> /\ Box' = tsStream'[tsSwap']
    BY <1>1, HandOverFacts DEF Box
  <2>2. Box' \in Capture!Windows
    BY <1>1, <2>1, HandOverFacts DEF Capture!Windows
  <2>3. Engine = "waiting" /\ Engine' \in {"handed", "off"}
    BY <1>1 DEF PollCleanUp, Engine, EngineOf
  <2> QED
    BY <2>1, <2>2, <2>3 DEF Capture!HandOver, Capture!Empty
<1>2. CASE ~(PollCleanUp(v) /\ SwapIsPending(Sampled(v), SampledTimes))
  <2>1. Box' = Box
    BY <1>2, PollKeepsSwap, BoxKept DEF IInv
  <2>2. \/ Engine' = Engine
        \/ Engine = "handed" /\ Engine' = "acquiring"
        \/ Engine = "acquiring" /\ Engine' = "waiting"
    BY <1>2 DEF Poll, PollIdle, PollPaused, PollDetectNever, PollDetectNormal, PollFillUp,
                PollCleanUp, trVars, Engine, EngineOf
  <2> QED
    BY <2>1, <2>2 DEF Capture!Resume, Capture!Complete
<1> QED
  BY <1>1, <1>2

\* A channel that is started empties the box.
LEMMA StartCaptures ==
    ASSUME IInv, SetChannelRunning
    PROVE  Captured
<1>1. CASE trState' = "DETECTING" /\ swapBuf' = Cleared
  BY <1>1, BoxCleared DEF Captured, Capture!CPNext, Capture!Start, Capture!Empty, Engine, EngineOf
<1>2. CASE UNCHANGED <<trState, swapBuf, tsStream, tsPoll>>
  BY <1>2, BoxKept DEF Captured, Capture!cpVars, Engine
<1> QED
  BY <1>1, <1>2 DEF SetChannelRunning, Activate, ResetBuffers

\* A channel that is stopped is not seen.
LEMMA StopCaptures ==
    ASSUME IInv, SetChannelStopped
    PROVE  Captured
<1>1. Box' = Box
  BY BoxKept DEF SetChannelStopped
<1>2. trState' = trState \/ trState' = "IDLE"
  BY DEF SetChannelStopped, TriggerDeactivate
<1> QED
  BY <1>1, <1>2 DEF Captured, Capture!CPNext, Capture!cpVars, Capture!Stop, Engine, EngineOf

\* The packer takes out what is in the box.
LEMMA PackCaptures ==
    ASSUME IInv, Pack
    PROVE  Captured
<1>1. ChannelsToPack' = {}
  BY BoundFacts DEF Pack, ChannelsToPack, Full, IInv, TypeOK, ChannelsTypeOK
<1>2. Box' = <<>> /\ trState' = trState
  BY <1>1 DEF Box, Pack, trVars
<1>3. CASE Box # <<>>
  BY <1>2, <1>3, BoxTaken DEF Captured, Capture!CPNext
<1>4. CASE Box = <<>>
  BY <1>2, <1>4 DEF Captured, Capture!cpVars, Engine
<1> QED
  BY <1>3, <1>4

\* So does CF_CLEAR.
LEMMA ClearCaptures ==
    ASSUME IInv, Clear
    PROVE  Captured
<1>1. Box' = <<>> /\ trState' = trState
  BY BoxCleared DEF Clear, ResetBuffers
<1>2. CASE Box # <<>>
  BY <1>1, <1>2, BoxTaken DEF Captured, Capture!CPNext
<1>3. CASE Box = <<>>
  BY <1>1, <1>3 DEF Captured, Capture!cpVars, Engine
<1> QED
  BY <1>2, <1>3

\* Every step is a step of the capture protocol.
LEMMA NextCaptures == IInv /\ [Next]_vars => Captured
<1> SUFFICES ASSUME IInv, [Next]_vars PROVE Captured
  OBVIOUS
<1>1. ASSUME NEW v \in Inputs, Poll(v) PROVE Captured
  BY <1>1, PollCaptures
<1>2. CASE SetChannelRunning \/ SetChannelStopped \/ Pack \/ Clear
  BY <1>2, StartCaptures, StopCaptures, PackCaptures, ClearCaptures
<1>3. ASSUME UNCHANGED <<trState, swapBuf, tsStream, tsPoll>> PROVE Captured
  BY <1>3, BoxKept DEF Captured, Capture!cpVars, Engine
<1> QED
  BY <1>1, <1>2, <1>3
     DEF Next, vars, HostCommand, PollTooEarly, ConfigureChannel, CommandRunning,
         ConfigureTrigger, ConfigureTimeIncrement, Transmit, Tick, chVars, tsVars, trVars

(***************************************************************************)
(* The sampling engine implements the capture protocol.                    *)
(***************************************************************************)
THEOREM Refines == Spec => ImplementsCapture
<1>1. Init => Capture!CPInit
  BY ClearedType DEF Init, ChannelsInit, TimestamperInit, TriggerInit, PackerInit,
        Capture!CPInit, Capture!Empty, Engine, EngineOf, Box, ChannelsToPack
<1>2. IInv /\ [Next]_vars => [Capture!CPNext]_(Capture!cpVars)
  BY NextCaptures DEF Captured
<1> QED
  BY <1>1, <1>2, InvariantHolds, PTL DEF Spec, ImplementsCapture, Capture!CPSpec

-----------------------------------------------------------------------------
(***************************************************************************)
(* The samples of a window and its timestamps.  The two POLL buffers need  *)
(* not be of the same length: a message that is packed with the stream the *)
(* packer remembers may have emptied the timestamps of the window that is  *)
(* being acquired.  But the timestamps that are there, with the r refused  *)
(* ones after them, belong to the latest samples, and polling writes both  *)
(* or none, so that a window is shifted by the refused timestamps alone.   *)
(***************************************************************************)
Aligned(times, buf, r) ==
    /\ Len(times) <= Len(buf)
    /\ r # 0 => Full(times) /\ ~StreamDropsOldest
    /\ \A i \in 1 .. Len(times) :
         Len(buf) - Len(times) - r + i >= 1 =>
             times[i] = buf[Len(buf) - Len(times) - r + i].t

IsAligned(c) == Aligned(tsStream[tsPoll], pollBuf[c], refused[tsPoll])

RunningIsAligned == \A c \in Channels : Running(c) => tsRunning /\ IsAligned(c)

\* A channel that the host wants to run but that is halted or has no address
RequestedIsAligned ==
    \A c \in Channels :
        requested[c] => pollBuf[c] = <<>> \/ (IsAligned(c) /\ (tsRunning => Running(c)))

PausedIsEmpty ==
    trState = "PAUSED" =>
        /\ ~SomeRunning /\ ~tsRunning /\ pollBuf = Cleared
        /\ tsStream[tsPoll] = <<>> /\ refused[tsPoll] = 0

UnsetIsEmpty ==
    \A c \in Channels : chState[c] = "INIT" => pollBuf[c] = <<>> /\ swapBuf[c] = <<>>

AlignInv ==
    /\ RunningIsAligned /\ RequestedIsAligned /\ PausedIsEmpty /\ UnsetIsEmpty
    /\ WindowsShiftByRefused

\* A sample and its timestamp are written together; a full stream drops its oldest
\* timestamp, as the channels do, or refuses the new one and counts it.
LEMMA WritesKeepAlignment ==
    ASSUME NEW times \in Seq(Time), NEW buf \in Seq(Sample), NEW r \in 0 .. Capacity,
           Len(times) <= Capacity, Len(buf) <= Capacity, Aligned(times, buf, r),
           NEW t \in Time, NEW x \in Int
    PROVE  Aligned(WriteTimestamp(times, t), WriteSample(buf, [t |-> t, v |-> x]),
                   RefusedByWrite(times, r))
<1> DEFINE s == [t |-> t, v |-> x]
           m == Len(times)
           n == Len(buf)
<1>1. s \in Sample /\ s.t = t
  BY DEF Sample
<1>2. /\ m \in Nat /\ n \in Nat /\ r \in Nat /\ r <= Capacity
      /\ m <= n /\ n <= Capacity /\ Capacity \in Nat /\ Capacity > 0
      /\ r # 0 => m = Capacity /\ ~StreamDropsOldest
      /\ \A i \in 1 .. m : n - m - r + i >= 1 => times[i] = buf[n - m - r + i].t
  BY BoundFacts DEF Aligned, Full
<1> HIDE DEF s
<1>3. CASE m = Capacity
  <2> DEFINE p == Append(Tail(times), t)
             q == Append(Tail(buf), s)
             k == RefusedByWrite(times, r)
  <2>1. n = Capacity
    BY <1>2, <1>3
  <2>2. WriteSample(buf, s) = q
    BY <1>3, <2>1 DEF WriteSample, Full
  <2>4. Len(q) = n /\ \A i \in 1 .. n : q[i] = IF i = n THEN s ELSE buf[i + 1]
    BY <1>1, <1>2, <2>1
  <2>5. CASE StreamDropsOldest
    <3>1. WriteTimestamp(times, t) = p /\ k = 0 /\ r = 0
      BY <1>2, <1>3, <2>5 DEF WriteTimestamp, RefusedByWrite, Full
    <3>2. Len(p) = m /\ \A i \in 1 .. m : p[i] = IF i = m THEN t ELSE times[i + 1]
      BY <1>2, <1>3
    <3> HIDE DEF p, q, k, m, n
    <3>3. ASSUME NEW i \in 1 .. m PROVE p[i] = q[n - m - k + i].t
      <4>1. n - m - k + i = i /\ i \in 1 .. n /\ m = n
        BY <1>2, <1>3, <2>1, <3>1
      <4>2. CASE i = m
        BY <1>1, <2>4, <3>2, <4>1, <4>2
      <4>3. CASE i # m
        <5>1. i + 1 \in 1 .. m /\ n - m - r + (i + 1) = i + 1 /\ i + 1 >= 1
          BY <1>2, <3>1, <4>1, <4>3
        <5>2. times[i + 1] = buf[i + 1].t
          BY <1>2, <5>1
        <5> QED
          BY <2>4, <3>2, <4>1, <4>3, <5>2
      <4> QED
        BY <4>2, <4>3
    <3>4. Len(p) <= Len(q) /\ \A i \in 1 .. Len(p) : p[i] = q[Len(q) - Len(p) - k + i].t
      BY <1>2, <2>4, <3>2, <3>3
    <3>5. Aligned(p, q, k)
      BY <3>1, <3>4 DEF Aligned
    <3> QED
      BY <2>2, <3>1, <3>5 DEF s, k
  <2>6. CASE ~StreamDropsOldest
    <3>1. WriteTimestamp(times, t) = times /\ k = (IF r < Capacity THEN r + 1 ELSE r)
      BY <1>3, <2>6 DEF WriteTimestamp, RefusedByWrite, Full
    <3>2. Full(times)
      BY <1>3 DEF Full
    <3> HIDE DEF q, k
    <3>3. ASSUME NEW i \in 1 .. m, n - m - k + i >= 1
          PROVE  times[i] = q[n - m - k + i].t
      <4> DEFINE j == n - m - r + i
      <4>1. r < Capacity /\ k = r + 1
        BY <1>2, <1>3, <2>1, <3>1, <3>3
      <4>2. j - 1 = n - m - k + i /\ j - 1 \in 1 .. n /\ j - 1 # n /\ j >= 1
        BY <1>2, <1>3, <2>1, <3>3, <4>1
      <4>3. times[i] = buf[j].t
        BY <1>2, <4>2
      <4>5. (j - 1) + 1 = j
        BY <1>2
      <4> HIDE DEF j, m, n
      <4>4. q[j - 1] = buf[(j - 1) + 1]
        BY <2>4, <4>2
      <4> QED
        BY <4>2, <4>3, <4>4, <4>5
    <3>4. Len(times) <= Len(q)
      BY <1>2, <2>4
    <3>5. \A i \in 1 .. Len(times) : Len(q) - Len(times) - k + i >= 1 =>
            times[i] = q[Len(q) - Len(times) - k + i].t
      BY <2>4, <3>3
    <3>6. Aligned(times, q, k)
      BY <2>6, <3>2, <3>4, <3>5 DEF Aligned
    <3> QED
      BY <2>2, <3>1, <3>6 DEF s, k
  <2> QED
    BY <2>5, <2>6
<1>4. CASE m < Capacity
  <2> DEFINE p == Append(times, t)
  <2>1. WriteTimestamp(times, t) = p /\ RefusedByWrite(times, r) = 0 /\ r = 0
    BY <1>2, <1>4 DEF WriteTimestamp, RefusedByWrite, Full
  <2>2. Len(p) = m + 1 /\ \A i \in 1 .. m + 1 : p[i] = IF i = m + 1 THEN t ELSE times[i]
    BY <1>2
  <2>3. \A i \in 1 .. m : times[i] = buf[n - m + i].t
    BY <1>2, <2>1
  <2>4. CASE n = Capacity
    <3> DEFINE q == Append(Tail(buf), s)
    <3>1. WriteSample(buf, s) = q
      BY <2>4 DEF WriteSample, Full
    <3>2. Len(q) = n /\ \A i \in 1 .. n : q[i] = IF i = n THEN s ELSE buf[i + 1]
      BY <1>1, <1>2, <2>4
    <3> HIDE DEF p, q, m, n
    <3>3. m + 1 <= n
      BY <1>2, <1>4, <2>4
    <3>4. \A i \in 1 .. m + 1 : p[i] = q[n - (m + 1) + i].t
      <4> SUFFICES ASSUME NEW i \in 1 .. m + 1 PROVE p[i] = q[n - (m + 1) + i].t
        OBVIOUS
      <4> DEFINE j == n - (m + 1) + i
      <4>1. j \in 1 .. n /\ (j = n <=> i = m + 1) /\ (i # m + 1 => i \in 1 .. m /\ j + 1 = n - m + i)
        BY <1>2, <3>3
      <4> HIDE DEF j
      <4>2. p[i] = q[j].t
        <5>1. CASE i = m + 1
          BY <1>1, <2>2, <3>2, <4>1, <5>1
        <5>2. CASE i # m + 1
          <6>1. q[j] = buf[n - m + i] /\ p[i] = times[i] /\ i \in 1 .. m
            BY <2>2, <3>2, <4>1, <5>2
          <6> QED
            BY <2>3, <6>1
        <5> QED
          BY <5>1, <5>2
      <4> QED
        BY <4>2 DEF j
    <3>5. Len(p) <= Len(q) /\ \A i \in 1 .. Len(p) : p[i] = q[Len(q) - Len(p) - 0 + i].t
      BY <1>2, <2>2, <3>2, <3>3, <3>4
    <3> QED
      BY <2>1, <3>1, <3>5 DEF Aligned, s
  <2>5. CASE n < Capacity
    <3> DEFINE q == Append(buf, s)
    <3>1. WriteSample(buf, s) = q
      BY <2>5 DEF WriteSample, Full
    <3>2. Len(q) = n + 1 /\ \A i \in 1 .. n + 1 : q[i] = IF i = n + 1 THEN s ELSE buf[i]
      BY <1>1, <1>2
    <3> HIDE DEF p, q, m, n
    <3>3. \A i \in 1 .. m + 1 : p[i] = q[(n + 1) - (m + 1) + i].t
      BY SMTT(30), <1>1, <1>2, <2>2, <2>3, <3>2
    <3>4. Len(p) <= Len(q) /\ \A i \in 1 .. Len(p) : p[i] = q[Len(q) - Len(p) - 0 + i].t
      BY <1>2, <2>2, <3>2, <3>3
    <3> QED
      BY <2>1, <3>1, <3>4 DEF Aligned, s
  <2> QED
    BY <1>2, <2>4, <2>5
<1> QED
  BY <1>2, <1>3, <1>4

\* A buffer without a timestamp, none of them refused, is aligned with anything.
LEMMA EmptyIsAligned ==
    ASSUME NEW buf \in Seq(Sample)
    PROVE  Aligned(<<>>, buf, 0)
BY DEF Aligned

\* A full window is shifted against its timestamps by the refused ones.
LEMMA FullIsAligned ==
    ASSUME NEW times \in Seq(Time), NEW buf \in Seq(Sample), NEW r \in 0 .. Capacity,
           Full(times), Full(buf), Aligned(times, buf, r)
    PROVE  ShiftedBy(r, times, buf) /\ (StreamDropsOldest => r = 0)
<1>1. Len(times) = Capacity /\ Len(buf) = Capacity /\ Capacity \in Nat /\ r \in Nat
  BY BoundFacts DEF Full
<1>2. \A i \in 1 .. Capacity : Capacity - Capacity - r + i >= 1 =>
         times[i] = buf[Capacity - Capacity - r + i].t
  BY <1>1 DEF Aligned
<1>3. ASSUME NEW i \in 1 .. Capacity, i > r PROVE times[i] = buf[i - r].t
  <2>1. Capacity - Capacity - r + i = i - r /\ i - r >= 1
    BY <1>1, <1>3
  <2> QED
    BY <1>2, <2>1
<1> QED
  BY <1>3 DEF ShiftedBy, Aligned

\* The first state has empty buffers.
LEMMA InitAligned == Init => AlignInv
BY ClearedType DEF Init, ChannelsInit, TimestamperInit, TriggerInit, AlignInv, RunningIsAligned,
      RequestedIsAligned, PausedIsEmpty, UnsetIsEmpty, WindowsShiftByRefused, Running

\* What a poll leaves in the POLL buffers is aligned again.
LEMMA SampledIsAligned ==
    ASSUME TypeOK, AlignInv, NEW v \in Inputs
    PROVE  /\ \A c \in Channels : Running(c) =>
                tsRunning /\ Aligned(SampledTimes[tsPoll], Sampled(v)[c], SampledRefused[tsPoll])
           /\ \A c \in Channels : requested[c] =>
                \/ Sampled(v)[c] = <<>>
                \/ Aligned(SampledTimes[tsPoll], Sampled(v)[c], SampledRefused[tsPoll]) /\ (tsRunning => Running(c))
           /\ \A c \in Channels : chState[c] = "INIT" => Sampled(v)[c] = <<>>
<1>1. ASSUME NEW c \in Channels, Running(c)
      PROVE  tsRunning /\ Aligned(SampledTimes[tsPoll], Sampled(v)[c], SampledRefused[tsPoll])
  <2>1. v[c] \in Int /\ refTime \in Time
    BY ScopeCoreAssumption DEF TypeOK, TimestamperTypeOK
  <2>2. /\ tsStream[tsPoll] \in Seq(Time) /\ Len(tsStream[tsPoll]) <= Capacity
        /\ pollBuf[c] \in Seq(Sample) /\ Len(pollBuf[c]) <= Capacity
        /\ refused[tsPoll] \in 0 .. Capacity
    BY DEF TypeOK, ChannelsTypeOK, TimestamperTypeOK
  <2>3. tsRunning /\ Aligned(tsStream[tsPoll], pollBuf[c], refused[tsPoll])
    BY <1>1 DEF AlignInv, RunningIsAligned, IsAligned
  <2>4. Aligned(WriteTimestamp(tsStream[tsPoll], refTime),
                WriteSample(pollBuf[c], [t |-> refTime, v |-> v[c]]),
                RefusedByWrite(tsStream[tsPoll], refused[tsPoll]))
    BY <2>1, <2>2, <2>3, WritesKeepAlignment
  <2>5. Sampled(v)[c] = WriteSample(pollBuf[c], [t |-> refTime, v |-> v[c]])
    BY <1>1 DEF Sampled
  <2>6. SampledTimes[tsPoll] = WriteTimestamp(tsStream[tsPoll], refTime)
    BY <2>3 DEF SampledTimes, TypeOK, TimestamperTypeOK
  <2>7. SampledRefused[tsPoll] = RefusedByWrite(tsStream[tsPoll], refused[tsPoll])
    BY <2>3 DEF SampledRefused, TypeOK, TimestamperTypeOK
  <2> QED
    BY <2>3, <2>4, <2>5, <2>6, <2>7
<1>2. ASSUME NEW c \in Channels, ~Running(c)
      PROVE  /\ Sampled(v)[c] = pollBuf[c]
             /\ requested[c] => \/ Sampled(v)[c] = <<>>
                                \/ Aligned(SampledTimes[tsPoll], Sampled(v)[c], SampledRefused[tsPoll]) /\ ~tsRunning
  <2>1. Sampled(v)[c] = pollBuf[c]
    BY <1>2 DEF Sampled
  <2>2. requested[c] => pollBuf[c] = <<>> \/ (Aligned(tsStream[tsPoll], pollBuf[c], refused[tsPoll]) /\ ~tsRunning)
    BY <1>2 DEF AlignInv, RequestedIsAligned, IsAligned
  <2>3. ~tsRunning => SampledTimes = tsStream /\ SampledRefused = refused
    BY DEF SampledTimes, SampledRefused
  <2> QED
    BY <2>1, <2>2, <2>3
<1>3. ASSUME NEW c \in Channels, chState[c] = "INIT" PROVE Sampled(v)[c] = <<>>
  BY <1>3 DEF Sampled, Running, AlignInv, UnsetIsEmpty
<1> QED
  BY <1>1, <1>2, <1>3

\* A poll that keeps the samples where they are, and starts or stops channels only
\* together with the timestamper
LEMMA KeepsAligned ==
    ASSUME TypeOK, AlignInv, NEW v \in Inputs, KeepSamples(v),
           UNCHANGED requested,
           \/ chState' = chState /\ (tsRunning' <=> tsRunning)
           \/ chState' = chState /\ tsRunning' /\ SomeRunning
           \/ chState' = AllStopped(chState) /\ ~tsRunning',
           trState' = "PAUSED" => trState = "PAUSED"
    PROVE  AlignInv'
<1>1. /\ pollBuf' = Sampled(v) /\ tsStream' = SampledTimes /\ swapBuf' = swapBuf
      /\ tsPoll' = tsPoll /\ refused' = SampledRefused
  BY DEF KeepSamples
<1>2. \A c \in Channels : /\ Running(c)' => Running(c) /\ (tsRunning' <=> tsRunning)
                          /\ Running(c) => Running(c)' \/ ~tsRunning'
                          /\ chState'[c] = "INIT" => chState[c] = "INIT"
  BY DEF Running, AllStopped, SomeRunning, AlignInv, RunningIsAligned, TypeOK, ChannelsTypeOK, FlagsTypeOK
<1>3. tsRunning' => tsRunning
  BY DEF SomeRunning, AlignInv, RunningIsAligned, TypeOK, FlagsTypeOK
<1>4. RunningIsAligned'
  BY <1>1, <1>2, SampledIsAligned DEF RunningIsAligned, IsAligned
<1>5. RequestedIsAligned'
  BY <1>1, <1>2, <1>3, SampledIsAligned DEF RequestedIsAligned, IsAligned
<1>6. PausedIsEmpty'
  <2> SUFFICES ASSUME trState' = "PAUSED"
               PROVE  /\ ~SomeRunning' /\ ~tsRunning' /\ pollBuf' = Cleared
                      /\ tsStream'[tsPoll'] = <<>> /\ refused'[tsPoll'] = 0
    BY DEF PausedIsEmpty
  <2>1. /\ ~SomeRunning /\ ~tsRunning /\ pollBuf = Cleared
        /\ tsStream[tsPoll] = <<>> /\ refused[tsPoll] = 0
    BY DEF AlignInv, PausedIsEmpty
  <2>2. SampledTimes = tsStream /\ SampledRefused = refused
    BY <2>1 DEF SampledTimes, SampledRefused
  <2>3. Sampled(v) = Cleared
    BY <2>1 DEF Sampled, SomeRunning, Cleared
  <2>4. ~SomeRunning'
    BY <1>2, <2>1 DEF SomeRunning
  <2> QED
    BY <1>1, <1>3, <2>1, <2>2, <2>3, <2>4
<1>7. UnsetIsEmpty'
  BY <1>1, <1>2, SampledIsAligned DEF UnsetIsEmpty, AlignInv
<1>8. WindowsShiftByRefused'
  <2>1. /\ tsSwap' = tsSwap /\ tsStream'[tsSwap'] = tsStream[tsSwap]
        /\ refused'[tsSwap'] = refused[tsSwap] /\ requested' = requested
    BY <1>1, SampledType, RefusedType DEF tsSwap
  <2>2. WindowsShiftByRefused
    BY DEF AlignInv
  <2> QED
    BY <1>1, <2>1, <2>2 DEF WindowsShiftByRefused, Full, ShiftedBy
<1> QED
  BY <1>4, <1>5, <1>6, <1>7, <1>8 DEF AlignInv

\* With empty POLL buffers everything is aligned, whatever runs.
LEMMA EmptyAligned ==
    ASSUME TypeOK', pollBuf' = Cleared, tsStream'[tsPoll'] = <<>>, refused'[tsPoll'] = 0,
           trState' # "PAUSED",
           \A c \in Channels : Running(c)' => tsRunning',
           \/ swapBuf' = Cleared
           \/ AlignInv /\ UNCHANGED <<swapBuf, requested>> /\ tsStream'[tsSwap'] = tsStream[tsSwap]
              /\ refused'[tsSwap'] = refused[tsSwap]
              /\ \A c \in Channels : chState'[c] = "INIT" => chState[c] = "INIT"
    PROVE  AlignInv'
<1>1. \A c \in Channels : pollBuf'[c] = <<>> /\ IsAligned(c)'
  BY ClearedType, EmptyIsAligned DEF IsAligned
<1>2. RunningIsAligned' /\ RequestedIsAligned' /\ PausedIsEmpty'
  BY <1>1 DEF RunningIsAligned, RequestedIsAligned, PausedIsEmpty
<1>3. UnsetIsEmpty' /\ WindowsShiftByRefused'
  BY <1>1, ClearedType DEF UnsetIsEmpty, WindowsShiftByRefused, AlignInv, Full, ShiftedBy
<1> QED
  BY <1>2, <1>3 DEF AlignInv

\* A poll writes a sample and its timestamp, or neither; and hands both over.
LEMMA PollAligned ==
    ASSUME IInv, TypeOK', AlignInv, NEW v \in Inputs, Poll(v)
    PROVE  AlignInv'
<1>1. TypeOK /\ TriggerNeverStranded /\ UNCHANGED requested
  BY DEF IInv, Poll, PollIdle, PollPaused, PollDetectNever, PollDetectNormal, PollFillUp,
         PollCleanUp, PollScope
<1>2. CASE PollIdle(v) \/ PollDetectNever(v) \/ PollDetectNormal(v)
  <2>1. KeepSamples(v) /\ chState' = chState /\ (tsRunning' <=> tsRunning)
    BY <1>2 DEF PollIdle, PollDetectNever, PollDetectNormal
  <2>2. trState' = "PAUSED" => trState = "PAUSED"
    BY <1>2 DEF PollIdle, PollDetectNever, PollDetectNormal, trVars
  <2> QED
    BY <1>1, <2>1, <2>2, KeepsAligned
<1>3. CASE PollFillUp(v)
  <2>1. KeepSamples(v) /\ chState' = chState /\ trState = "FILLUP" /\ trState' # "PAUSED"
        /\ ((tsRunning' <=> tsRunning) \/ tsRunning')
    BY <1>3 DEF PollFillUp
  <2> QED
    BY <1>1, <2>1, KeepsAligned DEF TriggerNeverStranded
<1>4. CASE PollPaused(v)
  <2>1. CASE strategy = "ONESHOT"
    BY <1>1, <1>4, <2>1, KeepsAligned DEF PollPaused
  <2>2. CASE strategy # "ONESHOT"
    <3>1. KeepSamples(v) /\ trState = "PAUSED" /\ trState' = "DETECTING" /\ tsRunning'
          /\ chState' = Restored(chState)
      BY <1>4, <2>2 DEF PollPaused
    <3>2. /\ ~SomeRunning /\ ~tsRunning /\ pollBuf = Cleared
          /\ tsStream[tsPoll] = <<>> /\ refused[tsPoll] = 0
      BY <3>1 DEF AlignInv, PausedIsEmpty
    <3>3. Sampled(v) = Cleared /\ SampledTimes = tsStream /\ SampledRefused = refused
      BY <3>2 DEF Sampled, SampledTimes, SampledRefused, SomeRunning, Cleared
    <3>4. /\ pollBuf' = Cleared /\ tsStream'[tsPoll'] = <<>> /\ swapBuf' = swapBuf
          /\ tsStream'[tsSwap'] = tsStream[tsSwap]
          /\ refused'[tsPoll'] = 0 /\ refused'[tsSwap'] = refused[tsSwap]
      BY <3>1, <3>2, <3>3 DEF KeepSamples, tsSwap
    <3>5. \A c \in Channels : chState'[c] = "INIT" => chState[c] = "INIT"
      BY <1>1, <3>1 DEF Restored, TypeOK, ChannelsTypeOK
    <3> QED
      BY <1>1, <3>1, <3>4, <3>5, EmptyAligned
  <2> QED
    BY <2>1, <2>2
<1>5. CASE PollCleanUp(v) /\ ~SwapIsPending(Sampled(v), SampledTimes)
  BY <1>1, <1>5, KeepsAligned DEF PollCleanUp
<1>6. CASE PollCleanUp(v) /\ SwapIsPending(Sampled(v), SampledTimes)
  <2>1. /\ swapBuf' = Sampled(v) /\ pollBuf' = Cleared /\ ~tsRunning' /\ chState' = AllStopped(chState)
        /\ tsStream' = [SampledTimes EXCEPT ![tsSwap] = <<>>] /\ tsPoll' = tsSwap
        /\ refused' = [SampledRefused EXCEPT ![tsSwap] = 0]
    BY <1>6 DEF PollCleanUp, SwapBuffers, SwapChannels
  <2>2. tsSwap' = tsPoll /\ tsPoll # tsSwap /\ tsPoll \in Streams /\ tsSwap \in Streams
    BY <1>1, <2>1 DEF TypeOK, TimestamperTypeOK, Streams, tsSwap
  <2>3. /\ tsStream'[tsPoll'] = <<>> /\ tsStream'[tsSwap'] = SampledTimes[tsPoll]
        /\ refused'[tsPoll'] = 0 /\ refused'[tsSwap'] = SampledRefused[tsPoll]
    BY <1>1, <2>1, <2>2, SampledType, RefusedType
  <2>4. \A c \in Channels : ~Running(c)' /\ (chState'[c] = "INIT" => chState[c] = "INIT")
    BY <1>1, <2>1 DEF Running, AllStopped, TypeOK, ChannelsTypeOK
  <2>5. RunningIsAligned'
    BY <2>4 DEF RunningIsAligned
  <2>6. RequestedIsAligned' /\ PausedIsEmpty'
    BY <2>1, <2>3, <2>4, ClearedType DEF RequestedIsAligned, PausedIsEmpty, SomeRunning
  <2>7. UnsetIsEmpty'
    BY <1>1, <2>1, <2>4, ClearedType, SampledIsAligned DEF UnsetIsEmpty
  <2>8. WindowsShiftByRefused'
    <3> SUFFICES ASSUME NEW c \in Channels, requested[c], Full(Sampled(v)[c])
                 PROVE  /\ Full(SampledTimes[tsPoll])
                        /\ ShiftedBy(SampledRefused[tsPoll], SampledTimes[tsPoll], Sampled(v)[c])
                        /\ StreamDropsOldest => SampledRefused[tsPoll] = 0
      BY <1>1, <2>1, <2>3 DEF WindowsShiftByRefused, Full, ShiftedBy
    <3>1. Full(SampledTimes[tsPoll])
      BY <1>6 DEF SwapIsPending, TimestampSwapIsPending
    <3>2. Sampled(v)[c] # <<>>
      BY BoundFacts DEF Full
    <3>3. Aligned(SampledTimes[tsPoll], Sampled(v)[c], SampledRefused[tsPoll])
      BY <1>1, <3>2, SampledIsAligned
    <3>4. /\ SampledTimes[tsPoll] \in Seq(Time) /\ Sampled(v)[c] \in Seq(Sample)
          /\ SampledRefused[tsPoll] \in 0 .. Capacity
      BY <1>1, <2>2, SampledType, RefusedType
    <3> QED
      BY <3>1, <3>3, <3>4, FullIsAligned
  <2> QED
    BY <2>5, <2>6, <2>7, <2>8 DEF AlignInv
<1> QED
  BY <1>2, <1>3, <1>4, <1>5, <1>6 DEF Poll

\* Starting a channel that has an address resets every buffer; one without an address has
\* empty ones.
LEMMA StartAligned ==
    ASSUME IInv, TypeOK', AlignInv, SetChannelRunning
    PROVE  AlignInv'
<1> DEFINE id == Head(changes).id
           started == SetState(id, "STOPPED", "RUNNING")
<1>1. TypeOK /\ id \in Channels /\ requested' = [requested EXCEPT ![id] = TRUE]
  BY ChangesType DEF IInv, SetChannelRunning
<1>2. CASE \E c \in Channels : started[c] = "RUNNING"
  <2>1. tsRunning' /\ trState' = "DETECTING" /\ pollBuf' = Cleared /\ swapBuf' = Cleared
        /\ tsStream' = NoTimestamps /\ refused' = NoneRefused
    BY <1>2 DEF SetChannelRunning, Activate, ResetBuffers
  <2>2. tsStream'[tsPoll'] = <<>> /\ refused'[tsPoll'] = 0
    BY <2>1 DEF NoTimestamps, NoneRefused, TypeOK, TimestamperTypeOK
  <2> QED
    BY <2>1, <2>2, EmptyAligned
<1>3. CASE ~\E c \in Channels : started[c] = "RUNNING"
  <2>1. chState' = started
        /\ UNCHANGED <<tsRunning, trState, pollBuf, swapBuf, tsStream, tsPoll, refused>>
    BY <1>3 DEF SetChannelRunning
  <2>2. chState[id] # "STOPPED" /\ chState[id] # "RUNNING" /\ started = chState
    BY <1>1, <1>3 DEF SetState, TypeOK, ChannelsTypeOK
  <2>3. chState[id] = "INIT"
    BY <1>1, <2>2 DEF TypeOK, ChannelsTypeOK, ChannelStates
  <2>4. pollBuf[id] = <<>> /\ swapBuf[id] = <<>> /\ ~Full(swapBuf[id])
    BY <1>1, <2>3, BoundFacts DEF AlignInv, UnsetIsEmpty, Full
  <2>5. \A c \in Channels : requested'[c] => requested[c] \/ c = id
    BY <1>1 DEF TypeOK, FlagsTypeOK
  <2> HIDE DEF id, started
  <2>6. RunningIsAligned' /\ PausedIsEmpty' /\ UnsetIsEmpty'
    BY <2>1, <2>2 DEF AlignInv, RunningIsAligned, PausedIsEmpty, UnsetIsEmpty, Running, SomeRunning,
                      IsAligned
  <2>7. RequestedIsAligned'
    BY <2>1, <2>2, <2>4, <2>5 DEF AlignInv, RequestedIsAligned, Running, IsAligned
  <2>8. WindowsShiftByRefused'
    BY <2>1, <2>4, <2>5 DEF AlignInv, WindowsShiftByRefused, tsSwap, ShiftedBy, Full
  <2> QED
    BY <2>6, <2>7, <2>8 DEF AlignInv
<1> QED
  BY <1>2, <1>3

\* The channel that stops is not one that the host wants to run any more.
LEMMA StopAligned ==
    ASSUME IInv, TypeOK', AlignInv, SetChannelStopped
    PROVE  AlignInv'
<1> DEFINE id == Head(changes).id
<1>1. TypeOK /\ id \in Channels /\ requested' = [requested EXCEPT ![id] = FALSE]
      /\ chState' = SetState(id, "RUNNING", "STOPPED")
      /\ UNCHANGED <<pollBuf, swapBuf, tsStream, tsPoll, refused>>
  BY ChangesType DEF IInv, SetChannelStopped
<1>2. \/ \E c \in Channels : chState'[c] = "RUNNING" /\ UNCHANGED <<tsRunning, trState>>
      \/ (\A c \in Channels : chState'[c] # "RUNNING") /\ ~tsRunning' /\ trState' = "IDLE"
  BY DEF SetChannelStopped, TriggerDeactivate
<1>3. \A c \in Channels : /\ requested'[c] => requested[c] /\ c # id
                          /\ Running(c)' => Running(c)
                          /\ c # id => chState'[c] = chState[c]
                          /\ chState'[c] = "INIT" => chState[c] = "INIT"
  BY <1>1 DEF TypeOK, ChannelsTypeOK, FlagsTypeOK, SetState, Running
<1> HIDE DEF id
<1>4. RunningIsAligned'
  BY <1>1, <1>2, <1>3 DEF AlignInv, RunningIsAligned, Running, IsAligned
<1>5. RequestedIsAligned'
  BY <1>1, <1>2, <1>3 DEF AlignInv, RequestedIsAligned, Running, IsAligned
<1>6. PausedIsEmpty' /\ UnsetIsEmpty'
  BY <1>1, <1>2, <1>3 DEF AlignInv, PausedIsEmpty, UnsetIsEmpty, Running, SomeRunning
<1>7. WindowsShiftByRefused'
  BY <1>1, <1>3 DEF AlignInv, WindowsShiftByRefused, tsSwap, ShiftedBy, Full
<1> QED
  BY <1>4, <1>5, <1>6, <1>7 DEF AlignInv

\* Packing takes full windows and timestamps, possibly those of the POLL stream.
LEMMA PackAligned ==
    ASSUME IInv, TypeOK', AlignInv, Pack
    PROVE  AlignInv'
<1>1. TypeOK /\ UNCHANGED <<chState, pollBuf, tsRunning, tsPoll, trState, requested>>
  BY DEF IInv, Pack, trVars
<1>2. \/ tsStream'[tsPoll] = tsStream[tsPoll] /\ refused'[tsPoll] = refused[tsPoll]
      \/ tsStream'[tsPoll] = <<>> /\ refused'[tsPoll] = 0
  BY <1>1 DEF Pack, TypeOK, TimestamperTypeOK
<1>3. \A c \in Channels : IsAligned(c) => IsAligned(c)'
  <2> SUFFICES ASSUME NEW c \in Channels, IsAligned(c) PROVE IsAligned(c)'
    OBVIOUS
  <2>1. pollBuf[c] \in Seq(Sample)
    BY <1>1 DEF TypeOK, ChannelsTypeOK
  <2> QED
    BY <1>1, <1>2, <2>1, EmptyIsAligned DEF IsAligned
<1>4. \A c \in Channels : (swapBuf'[c] = swapBuf[c] \/ swapBuf'[c] = <<>>) /\ ~Full(swapBuf'[c])
  BY <1>1, BoundFacts DEF Pack, ChannelsToPack, Full, TypeOK, ChannelsTypeOK
<1>5. RunningIsAligned' /\ RequestedIsAligned'
  BY <1>1, <1>3 DEF AlignInv, RunningIsAligned, RequestedIsAligned, Running
<1>6. PausedIsEmpty'
  BY <1>1, <1>2 DEF AlignInv, PausedIsEmpty, Running, SomeRunning
<1>7. UnsetIsEmpty' /\ WindowsShiftByRefused'
  BY <1>1, <1>4 DEF AlignInv, UnsetIsEmpty, WindowsShiftByRefused
<1> QED
  BY <1>5, <1>6, <1>7 DEF AlignInv

\* Clearing empties the samples and the timestamps.
LEMMA ClearAligned ==
    ASSUME IInv, TypeOK', AlignInv, Clear
    PROVE  AlignInv'
<1>1. /\ pollBuf' = Cleared /\ swapBuf' = Cleared
      /\ tsStream' = NoTimestamps /\ refused' = NoneRefused
      /\ UNCHANGED <<chState, tsRunning, tsPoll, trState, requested>>
  BY DEF Clear, ResetBuffers, ctlVars
<1>2. tsStream'[tsPoll'] = <<>> /\ refused'[tsPoll'] = 0
  BY <1>1 DEF NoTimestamps, NoneRefused, TypeOK, TimestamperTypeOK
<1>3. \A c \in Channels : pollBuf'[c] = <<>> /\ swapBuf'[c] = <<>> /\ ~Full(swapBuf'[c]) /\ IsAligned(c)'
  BY <1>1, <1>2, ClearedType, EmptyIsAligned DEF IsAligned
<1>4. RunningIsAligned' /\ RequestedIsAligned' /\ UnsetIsEmpty' /\ WindowsShiftByRefused'
  BY <1>1, <1>3 DEF AlignInv, RunningIsAligned, RequestedIsAligned, UnsetIsEmpty, WindowsShiftByRefused,
                    Running
<1>5. PausedIsEmpty'
  BY <1>1, <1>2 DEF AlignInv, PausedIsEmpty, SomeRunning, Running
<1> QED
  BY <1>4, <1>5 DEF AlignInv

\* Configuration does not touch the buffers.
LEMMA OthersAligned ==
    ASSUME TypeOK, AlignInv,
           UNCHANGED <<pollBuf, swapBuf, tsRunning, tsStream, tsPoll, refused, trState, requested>>,
           \/ UNCHANGED chState
           \/ \E c \in Channels : ConfigureChannel(c)
    PROVE  AlignInv'
<1>1. \A c \in Channels : /\ Running(c)' <=> Running(c)
                          /\ chState'[c] = "INIT" => chState[c] = "INIT"
  BY DEF ConfigureChannel, Running, TypeOK, ChannelsTypeOK
<1>2. RunningIsAligned' /\ RequestedIsAligned' /\ UnsetIsEmpty'
  BY <1>1 DEF AlignInv, RunningIsAligned, RequestedIsAligned, UnsetIsEmpty, IsAligned
<1>3. PausedIsEmpty' /\ WindowsShiftByRefused'
  BY <1>1 DEF AlignInv, PausedIsEmpty, WindowsShiftByRefused, SomeRunning, tsSwap, ShiftedBy, Full
<1> QED
  BY <1>2, <1>3 DEF AlignInv

\* Every step keeps samples and timestamps together.
LEMMA NextAligned ==
    ASSUME IInv, IInv', AlignInv, [Next]_vars
    PROVE  AlignInv'
<1>1. TypeOK /\ TypeOK'
  BY DEF IInv
<1>2. ASSUME NEW v \in Inputs, Poll(v) PROVE AlignInv'
  BY <1>1, <1>2, PollAligned
<1>3. CASE SetChannelRunning \/ SetChannelStopped \/ Pack \/ Clear
  BY <1>1, <1>3, StartAligned, StopAligned, PackAligned, ClearAligned
<1>4. ASSUME NEW c \in Channels, ConfigureChannel(c) PROVE AlignInv'
  BY <1>1, <1>4, OthersAligned DEF ConfigureChannel, tsVars, trVars, ctlVars
<1>5. ASSUME UNCHANGED <<chState, pollBuf, swapBuf, tsRunning, tsStream, tsPoll, refused, trState,
                         requested>>
      PROVE  AlignInv'
  BY <1>1, <1>5, OthersAligned
<1> QED
  BY <1>2, <1>3, <1>4, <1>5
     DEF Next, vars, HostCommand, PollTooEarly, CommandRunning, ConfigureTrigger,
         ConfigureTimeIncrement, Transmit, Tick, chVars, tsVars, trVars, ctlVars

\* The invariant of aligned windows.
LEMMA AlignInvariant == Spec => []AlignInv
<1>1. IInv /\ IInv' /\ AlignInv /\ [Next]_vars => AlignInv'
  BY NextAligned
<1> QED
  BY <1>1, InitAligned, InvariantHolds, PTL DEF Spec

(***************************************************************************)
(* The samples and the timestamps that are packed together are shifted     *)
(* against one another by the refused timestamps and by nothing else, for  *)
(* every number of channels, every window size, every sequence of host     *)
(* commands and both kinds of streams, also when the packer has emptied    *)
(* the wrong one: swapBuffers of Trigger.c waits until it is full again.   *)
(***************************************************************************)
THEOREM ShiftIsRefused == Spec => []WindowsShiftByRefused
<1>1. AlignInv => WindowsShiftByRefused
  BY DEF AlignInv
<1> QED
  BY <1>1, AlignInvariant, PTL

(***************************************************************************)
(* If a full timestamp stream dropped its oldest entry, as the channels    *)
(* do, every window would be packed with its own timestamps.  The          *)
(* hypothesis is needed: with a stream that refuses, AlignedWindows is     *)
(* violated.                                                               *)
(***************************************************************************)
THEOREM WindowsAligned ==
    ASSUME StreamDropsOldest
    PROVE  Spec => []AlignedWindows
<1>1. TypeOK /\ WindowsShiftByRefused => AlignedWindows
  <2> SUFFICES ASSUME TypeOK, WindowsShiftByRefused,
                      NEW c \in Channels, requested[c], Full(swapBuf[c])
               PROVE  SampleTimes(swapBuf[c]) = tsStream[tsSwap]
    BY DEF AlignedWindows
  <2> DEFINE times == tsStream[tsSwap]
             buf   == swapBuf[c]
  <2>1. times \in Seq(Time) /\ buf \in Seq(Sample)
    BY DEF TypeOK, TimestamperTypeOK, ChannelsTypeOK, tsSwap, Streams
  <2>2. Len(times) = Capacity /\ Len(buf) = Capacity /\ Capacity \in Nat
    BY BoundFacts DEF WindowsShiftByRefused, Full
  <2>3. ShiftedBy(0, times, buf)
    BY DEF WindowsShiftByRefused
  <2>4. \A i \in 1 .. Capacity : times[i] = buf[i].t
    BY <2>2, <2>3 DEF ShiftedBy
  <2>5. times = [i \in 1 .. Capacity |-> times[i]]
    BY <2>1, <2>2
  <2> QED
    BY <2>2, <2>4, <2>5 DEF SampleTimes
<1>2. Spec => []WindowsShiftByRefused
  BY ShiftIsRefused
<1>3. Spec => []TypeOK
  BY TypeCorrect
<1> QED
  BY <1>1, <1>2, <1>3, PTL

-----------------------------------------------------------------------------
(***************************************************************************)
(* The sample that triggered.  While the window fills up,                  *)
(* fillUpPollCount counts the samples that were taken after it.  It is     *)
(* pushed out of a full buffer only after half a window, and then the      *)
(* window is complete; the poll of CLEANUP takes one sample more.          *)
(***************************************************************************)
Half     == Capacity \div 2
Observed == pollBuf[activeChannel]

\* It is the sample before the last k ones, and crosses the level.
TriggerAt(buf, k) ==
    /\ k < Len(buf)
    /\ buf[Len(buf) - k].t = trigIndex.poll
    /\ Len(buf) - k > 1 => Crosses(buf[Len(buf) - (k + 1)].v, buf[Len(buf) - k].v)

\* The old value of the trigger stream is that of the latest sample.
LatestIsOld ==
    \A c \in Channels : pollBuf[c] # <<>> => pollBuf[c][Len(pollBuf[c])].v = oldValue[c]

DetectingCountsNone == trState = "DETECTING" => fillUpPollCount = 0

TriggeredIsSet ==
    trState \in {"FILLUP", "CLEANUP"} /\ isTriggered.poll =>
        strategy # "CONTINUOUS" /\ chState[activeChannel] # "INIT"

FillUpHolds ==
    trState = "FILLUP" /\ isTriggered.poll /\ requested[activeChannel] =>
        /\ TriggerAt(Observed, fillUpPollCount)
        /\ Len(Observed) - fillUpPollCount >= Half
        /\ Full(Observed) => fillUpPollCount < Half

CleanUpHolds ==
    trState = "CLEANUP" /\ isTriggered.poll /\ requested[activeChannel] =>
        /\ Full(Observed) /\ Capacity - fillUpPollCount >= Half
        /\ \/ TriggerAt(Observed, fillUpPollCount)
           \/ TriggerAt(Observed, fillUpPollCount + 1) /\ ~Running(activeChannel)

TriggerInv ==
    LatestIsOld /\ DetectingCountsNone /\ TriggeredIsSet /\ FillUpHolds /\ CleanUpHolds

\* Counted from its end a buffer moves on by one sample, whether it is full or not.
MovesOn(buf, r) ==
    /\ Len(r) = IF Full(buf) THEN Capacity ELSE Len(buf) + 1
    /\ Len(r) \in Nat /\ Len(r) >= 1
    /\ \A k \in Nat : k + 1 < Len(r) => r[Len(r) - (k + 1)] = buf[Len(buf) - k]

\* Writing a sample moves the others one place to the front.
LEMMA WriteMovesOn ==
    ASSUME NEW buf \in Seq(Sample), Len(buf) <= Capacity, NEW s \in Sample,
           NEW r, r = WriteSample(buf, s)
    PROVE  MovesOn(buf, r) /\ r[Len(r)] = s
<1> USE DEF MovesOn
<1>1. Len(buf) \in Nat /\ Capacity \in Nat /\ Capacity > 0
  BY BoundFacts
<1>2. CASE Full(buf)
  <2>1. r = Append(Tail(buf), s) /\ Len(buf) = Capacity
    BY <1>2 DEF WriteSample, Full
  <2>2. Len(r) = Capacity /\ \A i \in 1 .. Capacity : r[i] = IF i = Capacity THEN s ELSE buf[i + 1]
    BY <1>1, <2>1
  <2>3. ASSUME NEW k \in Nat, k + 1 < Len(r) PROVE r[Len(r) - (k + 1)] = buf[Len(buf) - k]
    <3> DEFINE i == Capacity - (k + 1)
    <3>1. i \in 1 .. Capacity /\ i # Capacity /\ i + 1 = Capacity - k
      BY <1>1, <2>2, <2>3
    <3> HIDE DEF i
    <3>2. r[i] = buf[i + 1]
      BY <2>2, <3>1
    <3> QED
      BY <2>1, <2>2, <3>1, <3>2 DEF i
  <2> QED
    BY <1>1, <1>2, <2>2, <2>3
<1>3. CASE ~Full(buf)
  <2>1. r = Append(buf, s)
    BY <1>3 DEF WriteSample
  <2>2. Len(r) = Len(buf) + 1 /\ \A i \in 1 .. Len(buf) + 1 : r[i] = IF i = Len(buf) + 1 THEN s ELSE buf[i]
    BY <1>1, <2>1
  <2>3. ASSUME NEW k \in Nat, k + 1 < Len(r) PROVE r[Len(r) - (k + 1)] = buf[Len(buf) - k]
    <3> DEFINE i == Len(buf) - k
    <3>1. i \in 1 .. Len(buf) + 1 /\ i # Len(buf) + 1 /\ Len(r) - (k + 1) = i
      BY <1>1, <2>2, <2>3
    <3> HIDE DEF i
    <3>2. r[i] = buf[i]
      BY <2>2, <3>1
    <3> QED
      BY <3>1, <3>2 DEF i
  <2> QED
    BY <1>1, <1>3, <2>2, <2>3
<1> QED
  BY <1>2, <1>3

\* What a poll writes into the buffer of a running channel, and into that of another
LEMMA SampledMovesOn ==
    ASSUME TypeOK, NEW v \in Inputs, NEW c \in Channels, NEW r, r = Sampled(v)[c]
    PROVE  /\ pollBuf[c] \in Seq(Sample) /\ Len(pollBuf[c]) \in Nat /\ Len(pollBuf[c]) <= Capacity
           /\ ~Running(c) => r = pollBuf[c]
           /\ Running(c) =>
                MovesOn(pollBuf[c], r) /\ r[Len(r)] = [t |-> refTime, v |-> v[c]]
<1>1. v[c] \in Int /\ refTime \in Time
  BY ScopeCoreAssumption DEF TypeOK, TimestamperTypeOK
<1>2. pollBuf[c] \in Seq(Sample) /\ Len(pollBuf[c]) <= Capacity
  BY DEF TypeOK, ChannelsTypeOK
<1>3. Len(pollBuf[c]) \in Nat
  BY <1>2
<1>4. ~Running(c) => r = pollBuf[c]
  BY DEF Sampled
<1>5. ASSUME Running(c)
      PROVE  MovesOn(pollBuf[c], r) /\ r[Len(r)] = [t |-> refTime, v |-> v[c]]
  <2> DEFINE s   == [t |-> refTime, v |-> v[c]]
             buf == pollBuf[c]
  <2>1. s \in Sample
    BY <1>1 DEF Sample
  <2>2. r = WriteSample(buf, s)
    BY <1>5 DEF Sampled
  <2>3. buf \in Seq(Sample) /\ Len(buf) <= Capacity
    BY <1>2
  <2> HIDE DEF s, buf
  <2>4. MovesOn(buf, r) /\ r[Len(r)] = s
    BY <2>1, <2>2, <2>3, WriteMovesOn
  <2> QED
    BY <2>4 DEF s, buf
<1> QED
  BY <1>2, <1>3, <1>4, <1>5

\* At the beginning nothing has triggered.
LEMMA InitTrigger == Init => TriggerInv
BY ClearedType DEF Init, ChannelsInit, TriggerInit, TriggerInv, LatestIsOld, DetectingCountsNone,
      TriggeredIsSet, FillUpHolds, CleanUpHolds

\* The old value the trigger compares with stays that of the latest sample.
LEMMA LatestStep ==
    ASSUME TypeOK, LatestIsOld, [Next]_vars
    PROVE  LatestIsOld'
<1>1. ASSUME NEW v \in Inputs, Poll(v) PROVE LatestIsOld'
  <2>1. oldValue' = [c \in Channels |-> IF Running(c) THEN v[c] ELSE oldValue[c]]
    BY <1>1 DEF Poll, PollIdle, PollPaused, PollDetectNever, PollDetectNormal, PollFillUp,
                PollCleanUp, PollScope
  <2>2. pollBuf' = Cleared \/ pollBuf' = Sampled(v)
    BY <1>1 DEF Poll, PollIdle, PollPaused, PollDetectNever, PollDetectNormal, PollFillUp,
                PollCleanUp, KeepSamples, SwapBuffers, SwapChannels
  <2>3. CASE pollBuf' = Cleared
    BY <2>3, ClearedType DEF LatestIsOld
  <2>4. ASSUME NEW c \in Channels, pollBuf' = Sampled(v), pollBuf'[c] # <<>>
        PROVE  pollBuf'[c][Len(pollBuf'[c])].v = oldValue'[c]
    <3> DEFINE r == Sampled(v)[c]
    <3>1. /\ ~Running(c) => r = pollBuf[c]
          /\ Running(c) => r[Len(r)] = [t |-> refTime, v |-> v[c]]
      BY SampledMovesOn
    <3> HIDE DEF r
    <3>2. pollBuf'[c] = r
      BY <2>4 DEF r
    <3>3. CASE Running(c)
      BY <2>1, <3>1, <3>2, <3>3
    <3>4. CASE ~Running(c)
      BY <2>1, <2>4, <3>1, <3>2, <3>4 DEF LatestIsOld
    <3> QED
      BY <3>3, <3>4
  <2> QED
    BY <2>2, <2>3, <2>4 DEF LatestIsOld
<1>2. ASSUME pollBuf' = Cleared PROVE LatestIsOld'
  BY <1>2, ClearedType DEF LatestIsOld
<1>3. ASSUME UNCHANGED <<pollBuf, oldValue>> PROVE LatestIsOld'
  BY <1>3 DEF LatestIsOld
<1> QED
  BY <1>1, <1>2, <1>3
     DEF Next, vars, HostCommand, PollTooEarly, ConfigureChannel, CommandRunning, ConfigureTrigger,
         ConfigureTimeIncrement, Clear, Transmit, SetChannelRunning, Activate, ResetBuffers,
         SetChannelStopped, Pack, Tick, chVars

\* A trigger that still looks for an edge has counted no samples.
LEMMA DetectingStep ==
    ASSUME DetectingCountsNone, [Next]_vars
    PROVE  DetectingCountsNone'
<1> USE DEF DetectingCountsNone
<1>1. ASSUME NEW v \in Inputs, Poll(v) PROVE DetectingCountsNone'
  BY <1>1 DEF Poll, PollIdle, PollPaused, PollDetectNever, PollDetectNormal, PollFillUp,
              PollCleanUp, TriggerClear, trVars
<1>2. CASE SetChannelRunning
  BY <1>2 DEF SetChannelRunning, Activate, TriggerClear
<1>3. CASE SetChannelStopped
  BY <1>3 DEF SetChannelStopped, TriggerDeactivate
<1>4. CASE Clear
  BY <1>4 DEF Clear, TriggerClear
<1>5. ASSUME UNCHANGED <<trState, fillUpPollCount>> PROVE DetectingCountsNone'
  BY <1>5
<1> QED
  BY <1>1, <1>2, <1>3, <1>4, <1>5
     DEF Next, vars, HostCommand, PollTooEarly, ConfigureChannel, CommandRunning,
         ConfigureTrigger, ConfigureTimeIncrement, Transmit, Pack, Tick, trVars

\* A poll moves the trigger one sample back in the buffer of a running channel.
LEMMA TriggerMovesOn ==
    ASSUME TypeOK, NEW v \in Inputs, NEW r, r = Sampled(v)[activeChannel],
           NEW k \in Nat, TriggerAt(Observed, k)
    PROVE  /\ ~Running(activeChannel) => TriggerAt(r, k)
           /\ Running(activeChannel) /\ k + 1 < Len(r) => TriggerAt(r, k + 1)
<1> DEFINE c == activeChannel
           b == Observed
           m == Len(b)
           n == Len(r)
<1>1. c \in Channels
  BY DEF TypeOK, TriggerTypeOK
<1>2. m \in Nat /\ b = pollBuf[c] /\ (~Running(c) => r = b)
  BY <1>1, SampledMovesOn DEF Observed
<1> HIDE DEF c, b, m, n
<1>a. r = Sampled(v)[c]
  BY DEF c
<1>3. ASSUME Running(activeChannel), k + 1 < Len(r) PROVE TriggerAt(r, k + 1)
  <2>a. Running(c)
    BY <1>3 DEF c
  <2>1. /\ n \in Nat /\ n <= m + 1
        /\ \A i \in Nat : i + 1 < n => r[n - (i + 1)] = b[m - i]
    <3>1. MovesOn(b, r)
      BY <1>1, <1>2, <1>a, <2>a, SampledMovesOn
    <3>2. Len(r) <= m + 1
      BY <1>2, <3>1 DEF MovesOn, Full, m
    <3> QED
      BY <1>2, <3>1, <3>2 DEF MovesOn, m, n
  <2>2. k < m /\ b[m - k].t = trigIndex.poll
        /\ (m - k > 1 => Crosses(b[m - (k + 1)].v, b[m - k].v))
    BY DEF TriggerAt, b, m
  <2>3. r[n - (k + 1)] = b[m - k]
    BY <1>3, <2>1 DEF n
  <2>4. ASSUME n - (k + 1) > 1 PROVE Crosses(r[n - ((k + 1) + 1)].v, r[n - (k + 1)].v)
    <3>1. k + 1 \in Nat /\ (k + 1) + 1 < n /\ m - k > 1
      BY <1>2, <2>1, <2>4
    <3>2. r[n - ((k + 1) + 1)] = b[m - (k + 1)]
      BY <2>1, <3>1
    <3> QED
      BY <2>2, <2>3, <3>1, <3>2
  <2>5. k + 1 < n /\ r[n - (k + 1)].t = trigIndex.poll
    BY <1>3, <2>2, <2>3 DEF n
  <2> QED
    BY <2>4, <2>5 DEF TriggerAt, n
<1> QED
  BY <1>2, <1>3 DEF b, c

\* A channel that the host wants to run runs whenever the timestamper does, unless its
\* buffer is empty.
LEMMA ObservedRuns ==
    ASSUME TypeOK, AlignInv, NEW v \in Inputs, requested[activeChannel], tsRunning
    PROVE  /\ Observed # <<>> => Running(activeChannel)
           /\ Sampled(v)[activeChannel] # <<>> => Running(activeChannel)
<1>1. activeChannel \in Channels
  BY DEF TypeOK, TriggerTypeOK
<1>2. Observed # <<>> => Running(activeChannel)
  BY <1>1 DEF Observed, AlignInv, RequestedIsAligned
<1> QED
  BY <1>1, <1>2, SampledIsAligned

\* With four samples or more the half of a window is two or more.
LEMMA HalfFacts ==
    ASSUME Capacity >= 4
    PROVE  Half \in Nat /\ Half >= 2 /\ 2 * Half <= Capacity /\ Capacity \in Nat
BY BoundFacts DEF Half

\* The sample that the trigger detects is the latest one.
LEMMA DetectedIsLatest ==
    ASSUME TypeOK, AlignInv, LatestIsOld, Capacity >= 4, requested[activeChannel], tsRunning,
           NEW v \in Inputs, Detects(v), NEW r, r = Sampled(v)[activeChannel]
    PROVE  /\ Len(r) \in Nat /\ Len(r) >= Half
           /\ r[Len(r)].t = refTime
           /\ Len(r) > 1 => Crosses(r[Len(r) - 1].v, r[Len(r)].v)
<1> DEFINE c == activeChannel
           b == pollBuf[c]
           n == Len(r)
<1>1. c \in Channels /\ Half >= 2 /\ r = Sampled(v)[c]
  BY HalfFacts DEF TypeOK, TriggerTypeOK
<1>2. b \in Seq(Sample) /\ Len(b) \in Nat
  BY <1>1, SampledMovesOn
<1>3. n >= Half
  BY <1>1 DEF Detects, Looks, Half
<1>4. Running(c)
  <2>1. Len(Sampled(v)[c]) >= Half
    BY <1>1, <1>3
  <2>2. Sampled(v)[c] # <<>>
    BY <1>1, <2>1, HalfFacts
  <2> QED
    BY <2>2, ObservedRuns
<1>5. Crosses(oldValue[c], v[c])
  <2>1. SampledTrigger(v)[c] = <<oldValue[c], v[c]>>
    BY <1>1, <1>4 DEF SampledTrigger
  <2> QED
    BY <2>1 DEF Detects
<1> HIDE DEF c
<1>6. MovesOn(b, r) /\ r[n] = [t |-> refTime, v |-> v[c]]
  BY <1>1, <1>4, SampledMovesOn
<1>7. ASSUME n > 1 PROVE r[n - 1].v = oldValue[c]
  <2>1. Len(b) >= 1
    BY <1>2, <1>6, <1>7, BoundFacts DEF MovesOn, Full
  <2>2. b # <<>>
    BY <1>2, <2>1
  <2>3. b[Len(b)].v = oldValue[c]
    BY <1>1, <2>2 DEF LatestIsOld
  <2> HIDE DEF b
  <2>4. 0 \in Nat /\ 0 + 1 < n /\ n - (0 + 1) = n - 1 /\ Len(b) - 0 = Len(b) /\ n \in Nat
    BY <1>2, <1>6, <1>7 DEF MovesOn
  <2>5. r[n - (0 + 1)] = b[Len(b) - 0]
    BY <1>6, <2>4 DEF MovesOn
  <2> QED
    BY <2>3, <2>4, <2>5
<1>8. r[n].v = v[c] /\ r[n].t = refTime /\ n \in Nat
  BY <1>6 DEF MovesOn
<1> QED
  BY <1>3, <1>5, <1>7, <1>8

\* What CLEANUP finds after its last sample
LEMMA CleanUpKeepsTrigger ==
    ASSUME IInv, TriggerInv, Capacity >= 4, trState = "CLEANUP", isTriggered.poll,
           requested[activeChannel], NEW v \in Inputs, NEW r, r = Sampled(v)[activeChannel]
    PROVE  /\ Full(r) /\ Capacity - fillUpPollCount >= Half
           /\ TriggerAt(r, fillUpPollCount) \/ TriggerAt(r, fillUpPollCount + 1)
<1> DEFINE c == activeChannel
           k == fillUpPollCount
<1>1. TypeOK /\ c \in Channels /\ k \in Nat /\ k + 1 \in Nat
  BY DEF IInv, TypeOK, TriggerTypeOK
<1>2. /\ Full(Observed) /\ Capacity - k >= Half
      /\ TriggerAt(Observed, k) \/ (TriggerAt(Observed, k + 1) /\ ~Running(c))
  BY DEF TriggerInv, CleanUpHolds
<1> HIDE DEF k
<1>3. CASE Running(c)
  <2>1. MovesOn(pollBuf[c], r)
    BY <1>1, <1>3, SampledMovesOn
  <2>2. Len(r) = Capacity
    BY <1>2, <2>1 DEF MovesOn, Observed
  <2>3. k + 1 < Len(r)
    BY <1>1, <1>2, <2>2, HalfFacts
  <2>4. TriggerAt(r, k + 1)
    BY <1>1, <1>2, <1>3, <2>3, TriggerMovesOn
  <2> QED
    BY <1>2, <2>2, <2>4 DEF Full, k
<1>4. CASE ~Running(c)
  <2>1. r = Observed
    BY <1>1, <1>4, SampledMovesOn DEF Observed
  <2> QED
    BY <1>2, <2>1 DEF k
<1> QED
  BY <1>3, <1>4

\* The part of the invariant that the capture of a triggered window is about
CaptureHolds == TriggeredIsSet /\ FillUpHolds /\ CleanUpHolds

\* The poll that finds the edge writes the sample that triggered.
LEMMA DetectKeepsTrigger ==
    ASSUME IInv, AlignInv, TriggerInv, Capacity >= 4, NEW v \in Inputs, PollDetectNormal(v)
    PROVE  CaptureHolds'
<1>1. TypeOK /\ trState = "DETECTING" /\ tsRunning /\ fillUpPollCount = 0 /\ LatestIsOld
  BY DEF IInv, TriggerNeverStranded, TriggerInv, DetectingCountsNone, PollDetectNormal
<1>2. /\ strategy # "CONTINUOUS" /\ pollBuf' = Sampled(v)
      /\ UNCHANGED <<strategy, activeChannel, level, edge, requested, chState, fillUpPollCount>>
  BY DEF PollDetectNormal, PollScope, KeepSamples, confVars
<1>3. CASE Detects(v)
  <2>1. trigIndex'.poll = refTime /\ trState' = "FILLUP"
    BY <1>1, <1>3 DEF PollDetectNormal, TypeOK, TriggerTypeOK
  <2>2. chState[activeChannel] # "INIT"
    <3>1. activeChannel \in Channels /\ Len(Sampled(v)[activeChannel]) >= Half
      BY <1>1, <1>3 DEF Detects, Looks, Half, TypeOK, TriggerTypeOK
    <3>2. Sampled(v)[activeChannel] # <<>>
      BY <3>1, HalfFacts
    <3> QED
      BY <1>1, <3>1, <3>2, SampledIsAligned
  <2>3. TriggeredIsSet' /\ CleanUpHolds'
    BY <1>2, <2>1, <2>2 DEF TriggeredIsSet, CleanUpHolds
  <2>4. FillUpHolds'
    <3> SUFFICES ASSUME requested[activeChannel]
                 PROVE  /\ TriggerAt(Observed, fillUpPollCount)'
                        /\ Len(Observed') - fillUpPollCount' >= Half
                        /\ Full(Observed') => fillUpPollCount' < Half
      BY <1>2 DEF FillUpHolds
    <3> DEFINE r == Sampled(v)[activeChannel]
    <3>1. /\ Len(r) \in Nat /\ Len(r) >= Half
          /\ r[Len(r)].t = refTime
          /\ Len(r) > 1 => Crosses(r[Len(r) - 1].v, r[Len(r)].v)
      BY <1>1, <1>3, DetectedIsLatest
    <3> HIDE DEF r
    <3>2. Observed' = r /\ fillUpPollCount' = 0
      BY <1>1, <1>2 DEF Observed, r
    <3>3. 0 < Len(r) /\ Len(r) - 0 = Len(r) /\ Len(r) - (0 + 1) = Len(r) - 1 /\ 0 < Half
      BY <3>1, HalfFacts
    <3>4. TriggerAt(Observed, fillUpPollCount)'
      BY <1>2, <2>1, <3>1, <3>2, <3>3 DEF TriggerAt, Crosses
    <3> QED
      BY <3>1, <3>2, <3>3, <3>4
  <2> QED
    BY <2>3, <2>4 DEF CaptureHolds
<1>4. CASE ~Detects(v)
  <2>1. trState' = "DETECTING"
    BY <1>1, <1>4 DEF PollDetectNormal
  <2> QED
    BY <2>1 DEF CaptureHolds, TriggeredIsSet, FillUpHolds, CleanUpHolds
<1> QED
  BY <1>3, <1>4

\* Half a window after the trigger the observed channel is full, with the trigger in the
\* middle; until then the samples before the trigger stay.
LEMMA FillUpKeepsTrigger ==
    ASSUME IInv, AlignInv, TriggerInv, Capacity >= 4, NEW v \in Inputs, PollFillUp(v)
    PROVE  CaptureHolds'
<1>1. /\ TypeOK /\ trState = "FILLUP" /\ tsRunning /\ pollBuf' = Sampled(v)
      /\ UNCHANGED <<strategy, activeChannel, level, edge, requested, chState, isTriggered, trigIndex>>
  BY DEF IInv, TriggerNeverStranded, PollFillUp, PollScope, KeepSamples, confVars
<1>2. trState' = IF WindowComplete(v) THEN "CLEANUP" ELSE "FILLUP"
  BY <1>1 DEF PollFillUp
<1>3. TriggeredIsSet'
  BY <1>1 DEF TriggerInv, TriggeredIsSet
<1>4. ASSUME isTriggered.poll, requested[activeChannel] PROVE FillUpHolds' /\ CleanUpHolds'
  <2> DEFINE r == Sampled(v)[activeChannel]
             k == fillUpPollCount
             b == pollBuf[activeChannel]
  <2>1. activeChannel \in Channels /\ k \in Nat /\ k + 1 \in Nat
    BY <1>1 DEF TypeOK, TriggerTypeOK
  <2>2. strategy # "CONTINUOUS" /\ TriggerAt(Observed, k) /\ Len(b) - k >= Half /\ (Full(b) => k < Half)
    BY <1>1, <1>4 DEF TriggerInv, TriggeredIsSet, FillUpHolds, Observed
  <2>3. Len(b) \in Nat /\ Len(b) <= Capacity /\ k < Len(b)
    BY <1>1, <2>1, <2>2, SampledMovesOn DEF TriggerAt, Observed
  <2>4. Running(activeChannel)
    <3>1. Observed # <<>>
      BY <2>1, <2>3 DEF Observed
    <3> QED
      BY <1>1, <1>4, <3>1, ObservedRuns
  <2>5. MovesOn(b, r)
    BY <1>1, <2>1, <2>4, SampledMovesOn
  <2>6. fillUpPollCount' = k + 1
    BY <2>1, <2>2, <2>3, HalfFacts DEF PollFillUp
  <2>7. Observed' = r
    BY <1>1 DEF Observed
  <2>8. WindowComplete(v) <=> Full(r) /\ k + 1 >= Half
    BY <2>2 DEF WindowComplete, Half
  <2> HIDE DEF r, k, b
  <2>9. Len(r) \in Nat /\ k + 1 < Len(r) /\ Len(r) - (k + 1) >= Half
    BY <2>1, <2>2, <2>3, <2>5, HalfFacts DEF MovesOn, Full
  <2>10. TriggerAt(r, k + 1)
    BY <1>1, <2>1, <2>2, <2>4, <2>9, TriggerMovesOn DEF r
  <2>11. TriggerAt(Observed, fillUpPollCount)'
    BY <1>1, <2>6, <2>7, <2>10 DEF TriggerAt, Crosses
  <2>12. Full(Observed') <=> Full(r)
    BY <2>7
  <2>13. FillUpHolds'
    BY <1>2, <2>1, <2>6, <2>7, <2>8, <2>9, <2>11, <2>12, HalfFacts DEF FillUpHolds
  <2>14. CleanUpHolds'
    BY <1>2, <2>1, <2>6, <2>7, <2>8, <2>9, <2>11, <2>12, HalfFacts DEF CleanUpHolds, Full
  <2> QED
    BY <2>13, <2>14
<1>5. ASSUME ~(isTriggered.poll /\ requested[activeChannel]) PROVE FillUpHolds' /\ CleanUpHolds'
  BY <1>1, <1>5 DEF FillUpHolds, CleanUpHolds
<1> QED
  BY <1>3, <1>4, <1>5 DEF CaptureHolds

\* The poll after a capture hands the window over, with the sample.
LEMMA CleanUpStep ==
    ASSUME IInv, TriggerInv, Capacity >= 4, NEW v \in Inputs, PollCleanUp(v)
    PROVE  CaptureHolds'
<1>1. CASE SwapIsPending(Sampled(v), SampledTimes)
  <2>1. trState' \notin {"FILLUP", "CLEANUP"}
    BY <1>1 DEF PollCleanUp
  <2> QED
    BY <2>1 DEF CaptureHolds, TriggeredIsSet, FillUpHolds, CleanUpHolds
<1>2. CASE ~SwapIsPending(Sampled(v), SampledTimes)
  <2>1. /\ TypeOK /\ trState = "CLEANUP" /\ trState' = "CLEANUP" /\ pollBuf' = Sampled(v)
        /\ chState' = AllStopped(chState)
        /\ UNCHANGED <<strategy, activeChannel, level, edge, requested, isTriggered, trigIndex,
                       fillUpPollCount>>
    BY <1>2 DEF IInv, PollCleanUp, PollScope, KeepSamples, confVars
  <2>2. activeChannel \in Channels /\ chState'[activeChannel] # "RUNNING"
        /\ (chState'[activeChannel] = "INIT" => chState[activeChannel] = "INIT")
    BY <2>1 DEF TypeOK, ChannelsTypeOK, TriggerTypeOK, AllStopped
  <2>3. TriggeredIsSet' /\ FillUpHolds'
    BY <2>1, <2>2 DEF TriggerInv, TriggeredIsSet, FillUpHolds
  <2>4. CleanUpHolds'
    <3> SUFFICES ASSUME isTriggered.poll, requested[activeChannel]
                 PROVE  /\ Full(Observed') /\ Capacity - fillUpPollCount' >= Half
                        /\ \/ TriggerAt(Observed, fillUpPollCount)'
                           \/ TriggerAt(Observed, fillUpPollCount + 1)' /\ ~Running(activeChannel)'
      BY <2>1 DEF CleanUpHolds
    <3> DEFINE r == Sampled(v)[activeChannel]
    <3>1. /\ Full(r) /\ Capacity - fillUpPollCount >= Half
          /\ TriggerAt(r, fillUpPollCount) \/ TriggerAt(r, fillUpPollCount + 1)
      BY <2>1, CleanUpKeepsTrigger
    <3> HIDE DEF r
    <3>2. Observed' = r
      BY <2>1 DEF Observed, r
    <3>3. /\ TriggerAt(r, fillUpPollCount) => TriggerAt(Observed, fillUpPollCount)'
          /\ TriggerAt(r, fillUpPollCount + 1) => TriggerAt(Observed, fillUpPollCount + 1)'
      BY <2>1, <3>2 DEF TriggerAt, Crosses
    <3>4. ~Running(activeChannel)'
      BY <2>1, <2>2 DEF Running
    <3> QED
      BY <2>1, <3>1, <3>2, <3>3, <3>4
  <2> QED
    BY <2>3, <2>4 DEF CaptureHolds
<1> QED
  BY <1>1, <1>2

\* A poll keeps the place of the triggering sample in the buffer.
LEMMA PollTrigger ==
    ASSUME IInv, AlignInv, TriggerInv, Capacity >= 4, NEW v \in Inputs, Poll(v)
    PROVE  CaptureHolds'
<1>1. CASE PollDetectNormal(v) \/ PollFillUp(v) \/ PollCleanUp(v)
  BY <1>1, DetectKeepsTrigger, FillUpKeepsTrigger, CleanUpStep
<1>2. CASE PollIdle(v) \/ PollPaused(v)
  <2>1. trState' \notin {"FILLUP", "CLEANUP"}
    BY <1>2 DEF PollIdle, PollPaused, trVars
  <2> QED
    BY <2>1 DEF CaptureHolds, TriggeredIsSet, FillUpHolds, CleanUpHolds
<1>3. CASE PollDetectNever(v)
  <2>1. ~isTriggered'.poll
    BY <1>3 DEF PollDetectNever, IInv, TypeOK, FlagsTypeOK
  <2> QED
    BY <2>1 DEF CaptureHolds, TriggeredIsSet, FillUpHolds, CleanUpHolds
<1> QED
  BY <1>1, <1>2, <1>3 DEF Poll

\* What does not touch the capture keeps it: also the observed channel may be configured,
\* and another channel may be started in vain or stopped.
LEMMA CaptureUntouched ==
    ASSUME TriggerInv,
           UNCHANGED <<pollBuf, trState, fillUpPollCount, isTriggered, trigIndex, confVars>>,
           requested'[activeChannel] => requested[activeChannel]
                                        \/ chState[activeChannel] = "INIT",
           requested'[activeChannel] =>
               /\ Running(activeChannel)' => Running(activeChannel),
           chState'[activeChannel] = "INIT" => chState[activeChannel] = "INIT"
    PROVE  CaptureHolds'
<1>1. UNCHANGED <<strategy, activeChannel, level, edge>> /\ Observed' = Observed
  BY DEF confVars, Observed
<1>2. TriggeredIsSet'
  BY <1>1 DEF TriggerInv, TriggeredIsSet
<1>3. /\ TriggerAt(Observed, fillUpPollCount)' <=> TriggerAt(Observed, fillUpPollCount)
      /\ TriggerAt(Observed, fillUpPollCount + 1)' <=> TriggerAt(Observed, fillUpPollCount + 1)
  BY <1>1 DEF TriggerAt, Crosses
<1>4. FillUpHolds'
  BY <1>1, <1>3 DEF TriggerInv, TriggeredIsSet, FillUpHolds
<1>5. CleanUpHolds'
  BY <1>1, <1>3 DEF TriggerInv, TriggeredIsSet, CleanUpHolds
<1> QED
  BY <1>2, <1>4, <1>5 DEF CaptureHolds

\* A channel that is started begins a new capture.
LEMMA StartTrigger ==
    ASSUME IInv, TriggerInv, SetChannelRunning
    PROVE  CaptureHolds'
<1> DEFINE id == Head(changes).id
           started == SetState(id, "STOPPED", "RUNNING")
<1>1. TypeOK /\ id \in Channels /\ requested' = [requested EXCEPT ![id] = TRUE]
      /\ UNCHANGED confVars
  BY ChangesType DEF IInv, SetChannelRunning
<1>2. CASE \E c \in Channels : started[c] = "RUNNING"
  <2>1. trState' = "DETECTING"
    BY <1>2 DEF SetChannelRunning, Activate
  <2> QED
    BY <2>1 DEF CaptureHolds, TriggeredIsSet, FillUpHolds, CleanUpHolds
<1>3. CASE ~\E c \in Channels : started[c] = "RUNNING"
  <2>1. chState' = started /\ UNCHANGED <<trState, pollBuf, fillUpPollCount, isTriggered, trigIndex>>
    BY <1>3 DEF SetChannelRunning
  <2>2. chState[id] # "STOPPED" /\ chState[id] # "RUNNING" /\ started = chState
    BY <1>1, <1>3 DEF SetState, TypeOK, ChannelsTypeOK
  <2>3. chState[id] = "INIT"
    BY <1>1, <2>2 DEF TypeOK, ChannelsTypeOK, ChannelStates
  <2>4. activeChannel \in Channels
    BY <1>1 DEF TypeOK, TriggerTypeOK
  <2> HIDE DEF id, started
  <2>5. requested'[activeChannel] => requested[activeChannel] \/ chState[activeChannel] = "INIT"
    BY <1>1, <2>3, <2>4 DEF TypeOK, FlagsTypeOK
  <2>6. Running(activeChannel)' => Running(activeChannel)
    BY <1>1, <2>1, <2>2 DEF Running, confVars
  <2> QED
    BY <1>1, <2>1, <2>2, <2>5, <2>6, CaptureUntouched
<1> QED
  BY <1>2, <1>3

\* A channel that is stopped does not move the sample.
LEMMA StopTrigger ==
    ASSUME IInv, TriggerInv, SetChannelStopped
    PROVE  CaptureHolds'
<1> DEFINE id == Head(changes).id
<1>1. TypeOK /\ id \in Channels /\ requested' = [requested EXCEPT ![id] = FALSE]
      /\ chState' = SetState(id, "RUNNING", "STOPPED")
      /\ UNCHANGED <<pollBuf, isTriggered, trigIndex, confVars>>
  BY ChangesType DEF IInv, SetChannelStopped
<1>2. \/ UNCHANGED <<trState, fillUpPollCount>>
      \/ trState' = "IDLE"
  BY DEF SetChannelStopped, TriggerDeactivate
<1>3. activeChannel \in Channels
  BY <1>1 DEF TypeOK, TriggerTypeOK
<1>4. requested'[activeChannel] => requested[activeChannel]
  BY <1>1, <1>3 DEF TypeOK, FlagsTypeOK
<1>5. /\ chState'[activeChannel] = "RUNNING" => chState[activeChannel] = "RUNNING"
      /\ chState'[activeChannel] = "INIT" => chState[activeChannel] = "INIT"
  BY <1>1, <1>3 DEF TypeOK, ChannelsTypeOK, SetState
<1>6. Running(activeChannel)' => Running(activeChannel)
  BY <1>1, <1>5 DEF Running, confVars
<1>7. CASE UNCHANGED <<trState, fillUpPollCount>>
  BY <1>1, <1>4, <1>5, <1>6, <1>7, CaptureUntouched
<1>8. CASE trState' = "IDLE"
  BY <1>8 DEF CaptureHolds, TriggeredIsSet, FillUpHolds, CleanUpHolds
<1> QED
  BY <1>2, <1>7, <1>8

\* Every step keeps the sample that triggered within the window.
LEMMA CaptureStep ==
    ASSUME IInv, AlignInv, TriggerInv, Capacity >= 4, "cf_trigger" \notin LiveCommands, [Next]_vars
    PROVE  CaptureHolds'
<1>1. ASSUME NEW v \in Inputs, Poll(v) PROVE CaptureHolds'
  BY <1>1, PollTrigger
<1>2. CASE SetChannelRunning \/ SetChannelStopped
  BY <1>2, StartTrigger, StopTrigger
<1>3. CASE Clear
  <2>1. ~isTriggered'.poll
    BY <1>3 DEF Clear, TriggerClear, IInv, TypeOK, FlagsTypeOK
  <2> QED
    BY <2>1 DEF CaptureHolds, TriggeredIsSet, FillUpHolds, CleanUpHolds
<1>4. ASSUME NEW conf \in TriggerConfs, ConfigureTrigger(conf) PROVE CaptureHolds'
  <2>1. ~isReady
    BY <1>4 DEF ConfigureTrigger, MayCommand
  <2>2. trState' = "IDLE"
    BY <1>4, <2>1 DEF ConfigureTrigger, trVars, IInv, StoppedScopeIsQuiet
  <2> QED
    BY <2>2 DEF CaptureHolds, TriggeredIsSet, FillUpHolds, CleanUpHolds
<1>5. ASSUME NEW c \in Channels, ConfigureChannel(c) PROVE CaptureHolds'
  <2>1. /\ activeChannel \in Channels /\ chState' = [chState EXCEPT ![c] = "STOPPED"]
        /\ chState \in [Channels -> ChannelStates]
        /\ UNCHANGED <<pollBuf, trState, fillUpPollCount, isTriggered, trigIndex, confVars, requested>>
    BY <1>5 DEF ConfigureChannel, trVars, ctlVars, IInv, TypeOK, TriggerTypeOK, ChannelsTypeOK
  <2>2. /\ chState'[activeChannel] = "INIT" => chState[activeChannel] = "INIT"
        /\ Running(activeChannel)' => Running(activeChannel)
        /\ requested'[activeChannel] => requested[activeChannel]
    BY <2>1 DEF Running, confVars
  <2> QED
    BY <2>1, <2>2, CaptureUntouched
<1>6. ASSUME UNCHANGED <<chState, pollBuf, trState, fillUpPollCount, isTriggered, trigIndex, confVars,
                         requested>>
      PROVE  CaptureHolds'
  <2>1. activeChannel' = activeChannel
    BY <1>6 DEF confVars
  <2> QED
    BY <1>6, <2>1, CaptureUntouched DEF Running
<1> QED
  BY <1>1, <1>2, <1>3, <1>4, <1>5, <1>6
     DEF Next, vars, HostCommand, PollTooEarly, CommandRunning, ConfigureTimeIncrement,
         Transmit, Pack, Tick, chVars, trVars, ctlVars

\* Every step keeps the invariant of the triggering sample.
LEMMA NextTrigger ==
    ASSUME IInv, AlignInv, TriggerInv, Capacity >= 4, "cf_trigger" \notin LiveCommands, [Next]_vars
    PROVE  TriggerInv'
<1>1. LatestIsOld' /\ DetectingCountsNone'
  BY LatestStep, DetectingStep DEF IInv, TriggerInv
<1> QED
  BY <1>1, CaptureStep DEF TriggerInv, CaptureHolds

\* The hand-over gives the trigger of the POLL window to the SWAP window.
LEMMA HandOverHolds ==
    ASSUME IInv, TriggerInv, Capacity >= 4, NEW v \in Inputs, PollCleanUp(v),
           SwapIsPending(Sampled(v), SampledTimes), TriggerData'.isTriggered,
           requested[activeChannel]
    PROVE  HoldsTrigger(swapBuf'[TriggerData'.channelId], TriggerData'.triggerTimestamp)
<1> DEFINE r == Sampled(v)[activeChannel]
<1>1. /\ trState = "CLEANUP" /\ swapBuf' = Sampled(v)
      /\ activeChannel' = activeChannel
      /\ isTriggered'.swap = isTriggered.poll /\ trigIndex'.swap = trigIndex.poll
  BY DEF PollCleanUp, PollScope, SwapBuffers, SwapChannels, confVars, IInv, TypeOK, FlagsTypeOK,
         TriggerTypeOK
<1>2. isTriggered.poll /\ TriggerData'.triggerTimestamp = trigIndex.poll
      /\ swapBuf'[TriggerData'.channelId] = r
  BY <1>1 DEF TriggerData
<1>3. /\ Full(r)
      /\ TriggerAt(r, fillUpPollCount) \/ TriggerAt(r, fillUpPollCount + 1)
  BY <1>1, <1>2, CleanUpKeepsTrigger
<1> HIDE DEF r
<1>4. PICK k \in Nat : TriggerAt(r, k)
  BY <1>3 DEF IInv, TypeOK, TriggerTypeOK
<1> DEFINE i == Len(r) - k
<1>5. i \in 1 .. Len(r) /\ i - 1 = Len(r) - (k + 1)
  BY <1>3, <1>4, BoundFacts DEF TriggerAt, Full
<1>6. r[i].t = trigIndex.poll /\ (i > 1 => Crosses(r[i - 1].v, r[i].v))
  BY <1>4, <1>5 DEF TriggerAt
<1> HIDE DEF i
<1> QED
  BY <1>2, <1>5, <1>6 DEF HoldsTrigger

-----------------------------------------------------------------------------
(***************************************************************************)
(* A triggered window that is handed over holds the sample that triggered, *)
(* whatever the size of the window, the number of the channels and the     *)
(* trigger configurations are.  Windows of fewer than four samples are too *)
(* short (detectNormal looks at a buffer that is half full, and CLEANUP    *)
(* takes one sample too many), and a trigger configuration that arrives    *)
(* during a capture changes what is observed, hence the two hypotheses.    *)
(***************************************************************************)
THEOREM TriggeredWindows ==
    ASSUME Capacity >= 4, "cf_trigger" \notin LiveCommands
    PROVE  Spec => TriggerInWindow
<1> DEFINE A == tsPoll' # tsPoll /\ TriggerData'.isTriggered /\ requested[activeChannel]
                  => HoldsTrigger(swapBuf'[TriggerData'.channelId], TriggerData'.triggerTimestamp)
<1>1. IInv /\ TriggerInv /\ [Next]_vars => [A]_vars
  <2> SUFFICES ASSUME IInv, TriggerInv, Next, tsPoll' # tsPoll, TriggerData'.isTriggered,
                      requested[activeChannel]
               PROVE  HoldsTrigger(swapBuf'[TriggerData'.channelId], TriggerData'.triggerTimestamp)
    OBVIOUS
  <2>1. PICK v \in Inputs : Poll(v)
    BY DEF Next, HostCommand, PollTooEarly, ConfigureChannel, CommandRunning, ConfigureTrigger,
           ConfigureTimeIncrement, Transmit, SetChannelRunning, SetChannelStopped, Clear, Pack, Tick,
           tsVars
  <2>2. PollCleanUp(v) /\ SwapIsPending(Sampled(v), SampledTimes)
    BY <2>1, PollKeepsSwap DEF IInv
  <2> QED
    BY <2>2, HandOverHolds
<1>2. Init => TriggerInv
  BY InitTrigger
<1>3. IInv /\ AlignInv /\ TriggerInv /\ [Next]_vars => TriggerInv'
  BY NextTrigger
<1> QED
  BY <1>1, <1>2, <1>3, InvariantHolds, AlignInvariant, PTL DEF Spec, TriggerInWindow
=============================================================================
