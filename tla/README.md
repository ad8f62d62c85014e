# A TLA+ model of se-scope-target

`se-scope-target` is an embedded oscilloscope library. An application lets it poll variables by address;
it collects the samples in windows, finds a trigger in them and sends each window to a host. The host
configures it over a framed, protobuf encoded protocol. This directory holds TLA+ modules of its core, the
TLC configurations that check them, and proofs that TLAPS checks. Paths below are relative to the
repository.

## The system

| part | state | operations |
|---|---|---|
| **Channel** (`src/Core/Channel.c`) | INIT/STOPPED/RUNNING, POLL and SWAP buffer, trigger stream, last value | set address, start, stop, poll, clear, swap |
| **Timestamper** (`src/Core/Timestamper.c`) | running flag, two timestamp streams, last timestamp, increment | update elapsed time, stamp, start, stop, swap, clear |
| **Trigger** (`src/Core/Trigger.c`) | IDLE/DETECTING/FILLUP/CLEANUP/PAUSED, strategy (continuous, normal, one-shot), trigger flag and index for both buffers, saved channel states | run, activate, deactivate, clear, configure |
| **Scope** (`src/Core/Scope.c`) | isRunning, isReadyToRun | poll, start or stop a channel, clear, configure, transmit |
| **Controller** (`src/Control/Controller.c`) | pending command, event queue, waitForAck | rx: execute the command; tx: pop an event and have it packed |
| **Commands, parsers** (`src/Control/Commands`) | the last accepted configuration of each command | run |
| **Pack commands** (`src/Control/PackCommands`) | none | hand data, announcement or log to the packer |
| **Serializer** (`src/Serialisation/Serializer.c`) | one slot to unpack, one to pack | rx, tx, isReady |
| **NanopbPacker/Unpacker** (`src/Serialisation/Protobuf`) | the message being composed or the last one decoded | pack (drains the SWAP buffers), unpack |
| **FramedIO** (`src/Communication/Interfaces/FramedIO.c`) | receive machine, one complete frame; output stream, frame in transmission | put, rx, tx, get |
| **ScopeRunner / ScopeThreadRunner** (`src/Builders`) | none / config and data mutex | one turn of the loop / of the scope thread and the stack thread |
| **AnnounceStorage** (`src/Control/AnnounceStorage.c`) | addresses to announce | add, clear |
| **ScopeBuilder, ScopeFramedStack** (`src/Builders`) | handles | construct and connect everything |

A message of the host travels transport → FramedIO → Serializer → Controller → command → Scope; each hands it
over in a single pending slot that its `run` empties. A window travels back: Scope pushes SC_DATA into the
controller's queue through an observer, the controller pops it when the packer is ready and no
acknowledgement is outstanding, CommandPackData passes references to the SWAP buffers to the packer, which
drains them into the output stream, and FramedIO wraps the stream into a frame that the transport reads.
`ScopeRunner_run` calls all parts in one loop. `ScopeThreadRunner` uses two threads: one that only polls the
scope, and one for everything else; both *try* for the mutexes and skip work they do not get.

What is hard: the trigger stops and revives channels that host commands start and stop too; two buffers per
channel and two timestamp streams have to change places together, governed by the observed channel alone;
commands arrive in any state of the trigger; single pending slots are overwritten when their consumer is
late; the queue drops events; the acknowledgement lock has no timeout; the transport empties a frame while
the next message is prepared, in pieces of any size; decoded entries wait in storages that the next message
overwrites; buffers are sized once, by formulas far from the code that fills them; unsigned time wraps. `PROJECT.json` lists these hazards at their lines.

What makes each part correct: the window of a channel is complete, belongs to its timestamps and is not
overwritten before it is sent (Channel, Timestamper, Trigger); the announced trigger lies in the window
(Trigger); the trigger finishes each capture and never waits for channels nobody starts (Trigger, Scope);
a stopped scope is quiet (Scope); polls, commands and packing exclude each other (ScopeThreadRunner); no
command and no window is lost, an acknowledgement is waited for only while one can come (Controller,
Serializer); a frame carries the body of its own message and is sent to its end (FramedIO);
a command runs with the entries of its own message, and an acknowledged one has been carried out (Commands,
unpacker; not all of this holds of the code, see the findings); no channel without an address is polled, and one with an address has the value of the announced variable (Channel); every message fits into the buffers the stack
was created with, and announced lengths and names are right (packer, AnnounceStorage, ScopeFramedStack).

## The modules

* **`ScopeCore`** – Channel, Timestamper, Trigger and Scope together with the push of SC_DATA and the packing
  of a data message. `Poll` is `Scope_poll` with the whole of `Trigger_run`, one disjunct for each trigger
  state and strategy. `ev_poll` of the host runs the same `Scope_poll` and is covered by it. `CommandRunning`
  puts the changes of a `cf_running` message into `changes`, which `SetChannelRunning` and `SetChannelStopped`
  make one after the other, as `CommandRunning.c` does. `Pack` is CommandPackData followed by the packer's
  drain. A sample is the pair of value and reference time; the time is only there for the properties. The
  channel buffers are sequences, oldest first; `trigIndex`, `isTriggered` have a POLL and a SWAP side as in the
  code. `requested` is a history variable: what the host last asked of each channel; `refused` is another: how many
  timestamps each stream has refused since it was emptied. `PackerMemory` is what the memory of the packer may hold before it is
  first given a stream: nothing initialises the pointer.
* **`CaptureProtocol`** – what the engine promises to the sending side: complete windows one after the other
  through a box for one window, put in only when it is empty and taken out as a whole.
* **`ScopeCoreRefinement`** – `ScopeCore` implements `CaptureProtocol`: the trigger state maps to the state of
  the engine, the SWAP buffers to the box.
* **`ThreadRunner`** – the two threads of `ScopeThreadRunner.c`, split at every lock and unlock, with the scope
  reduced to "active or not" and the queue to its length. It justifies the atomic actions of `ScopeCore`.
* **`HostCommands`** – how a message of the host becomes a change of the scope: NanopbUnpacker's storages
  (`Unpack...`, also for messages that fail to decode after some entries), the parsers and the safety checks of the
  command objects (`ParseRunning`, `ParseAddress`), and the commands entry by entry (`RunEntry`, `AddressEntry`).
  Of the trigger it keeps what reaches the channels: a poll may save, stop or restore them; `ScopeCore` says when.
* **`PolledValues`** – what a channel makes of the variable it polls: the type on its way from the announcement to the host
  and back, the word that is read (`CastDataToFloat`) and the float it becomes. Operators only.
* **`AnnounceStorage`** – the table of announced addresses with their types; of a name only its length and whether its last byte, which
  nothing writes, happens to be zero.
* **`MessageSizes`** – the lengths of all messages in both directions as the encoder writes them, the lengths
  the packer announces, and the formulas for the two buffers. Operators only.
* **`ScopeSetup`** – `ScopeFramedStack_create...` and what `ScopeBuilder_build` refuses; uses the two modules above.
* **`ThreadedScope`** – composes `ThreadRunner`, `HostCommands` and `ScopeSetup`: the two threads run the commands of the
  host on a stack that has been wired. Its specification implements that of `ThreadRunner` (proved).
* **`MessageStack`** – FramedIO, Serializer and Controller with their pending slots, run in the order of
  `ScopeRunner_run` or `ScopeThreadRunner_runStack`; the scope is reduced to the box of `CaptureProtocol`.
  `pc` is the runnable that is next; `SkipCommand` and `SkipData` are the turns in which a mutex is busy; the
  transport reads head, body and foot of a frame in steps of its own. With `LinkLosesFrames` frames of both
  directions may be lost; `ResetStates` says in which parts of a frame the application resets the output. `unread` says that a
  message which did not decode has left a rest in the input buffer; the next frame put behind it is dropped with the rest, if
  it has a payload, or put hangs (`hung`). A paced host sees only what reaches it: it sends the next message when the answer to the
  one before has arrived (`awaited`), or when it gives up waiting (`HostGivesUp`). Its acknowledgements of SC_DATA and SC_LOG
  (`HostAcknowledges`) wait for nothing.
* **`Frames`** – a frame on the wire, as bytes.
* **`FramedRx`** – the receive machine of FramedIO byte by byte, with the real flags, length and checksum: `chunk`
  holds what the current call of `FramedIO_putRxData` has still to look at, each `Check...` action takes one byte
  of it as the function of that name does, and `StateNow` is the step from the payload to the checksum, which
  needs no byte. `RunCommunicationRx` and `RunUnpacker` hand the frame over and read the input buffer. `Unread` is what the
  unpacker leaves in it: any rest of a payload that does not decode (`Malformed`), all of one that no unpacker reads. With more in
  the buffer than a frame has announced, put loops without taking a byte (`PutLoops`). `spoilt` is a history variable: something has
  been left unread since the last reset. The host, the line and its noise are external. It is the detailed version of receiving in `MessageStack`.
* **`FramedTx`** – the send side byte by byte: head, payload and foot live in three buffers, one call of
  `FramedIO_getTxData` (`Get`) takes any number of bytes out of all three, `OutputSize` is what the transport is told is left,
  `ResetOutput` gives a frame up, with `EarlyResets` also one whose head has not been read. It is the detailed version of sending in `MessageStack`.
* **`FramedExchange`** – both sides together: a frame is received, unpacked and answered. `FramedRx` and `FramedTx` have no
  next-state relation of their own.
* **`ScopeCoreProofs`, `ScopeCaptureProofs`, `ThreadedScopeProofs`, `ScopeSetupProofs`, `MessageStackProofs`,
  `FrameProofs`, `FramedExchangeProofs`** – theorems and proofs: of the sampling engine, of the windows it hands over,
  of the threads and their commands, of the setup and the polled values, of the message stack, and of frames as bytes.
  **`NumberProofs`** has the arithmetic and the induction they share.
* **`MCScopeCore`, `MCThreadRunner`, `MCMessageStack`, `MCFramedRx`** – the instances TLC checks: of `ScopeCoreRefinement`,
  `ThreadedScope`, `MessageStack` and `FramedExchange`.

Definitions marked as mutations are variants of their neighbour with a plausible bug. Nothing uses them;
`PROJECT.json` pairs each property with the one that violates it.

### Abstractions
* Polled addresses and types are an arbitrary value at every poll. Values are integers; the trigger needs only
  their order.
* `AgingPriorityQueue`, ring buffers, streams and mutexes belong to se-lib-c, which is not part of the
  repository. The queue may pop the oldest event of any priority (an event may have aged) and drops a push when
  it is full. Whether a full timestamp stream drops its oldest entry or refuses the new one is the constant
  `StreamDropsOldest`. The repository's own use and tests speak of buffers that refuse (`Channel.c:213-218`,
  `FloatRingBuffer-test.cpp:63-71`), so FALSE is the likely value: windows are then shifted against their times, by as many
  samples as timestamps were refused (`WindowsShiftByRefused`, checked and proved for both values). `AlignedWindows` is checked
  in `trigger`, and proved, for TRUE only. The byte buffers of FramedIO refuse.
* The fill-up counter saturates at the capacity, above the value with which it is compared.
* The trigger's level and edge are uninitialised memory before the first configuration, in a mode that does
  not read them; the model picks values.
* In `HostCommands` a message with more entries than channels is excluded (`HostCommandsAssumption`): the unpacker writes
  it past its storage. The time increment and the trigger's levels change nothing there; `ScopeCore` has them.
* In `MessageSizes` a value that is not known counts with all of its bits, so that "fits" is about the longest message.
* A frame is one message: bytes, lengths and checksums are left out of `MessageStack`. Messages are their
  types, `cf_bad` is any message that does not decode (whether it leaves a rest is open each time) and `cf_unanswered` a `cf_running` or `cf_addr` that
  returns without an answer. Of what is dropped behind an unread rest, a byte that looks like a start flag is not
  followed further; `FramedRx` has it byte by byte.

## What the runs check

| run | instance | result |
|---|---|---|
| `windows` | 2 channels, capacity 2, continuous mode, time modulo 4, increments 1 and 2, streams that refuse; start, stop, re-target, new increment, clear, transmit at any time | `TypeOK`, `TriggerNeverStranded`, `StoppedScopeIsQuiet`, `WindowsShiftByRefused`, `UnsentWindowKept`, `ImplementsCapture` hold |
| `trigger` | 1 channel, capacity 4, two values, normal and one-shot mode, both edges, two changes per command, streams that drop their oldest | `TriggerInWindow`, `AlignedWindows` hold |
| `live` | 2 channels, start, stop, transmit at any time, increments 1 and 2, fairness | `CaptureCompletes` holds |
| `stop` | 2 channels, start and stop | `StopIsRespected` is violated |
| `packer` | 1 channel, SC_DATA events left over from before a start | `PackTakesSwapOnly` is violated |
| `clear` | 1 channel, clear at any time, fairness | `ClearKeepsCapturing` is violated |
| `threads` | both threads, queue of 2, two channels, whole and damaged messages, any of 89 configurations of the stack | `TypeOK`, `CommandsTypeOK`, `ScopeAccessIsExclusive`, `PollsOnlyActiveScope`, `RunningChannelHasAddress`, `PendingIsWhole`, `RunningScopeIsPolled`, `CheckedStartRuns`, `PolledValueIsVariable`, `MessagesFit`, `LengthsAgree`, `MutexesAreGivenBack` hold, no deadlock |
| `loop` | single loop, host sends whenever it likes and insists, messages that do not decode, link that loses frames, output reset by the application, queue of 2 that overflows, logging | `TypeOK`, `FramesAreWhole`, `EventsAreSent` hold |
| `paced` | two threads, host awaits the answer to its message, queue of 4, logging, fairness | `AckLockIsJustified`, `WindowIsAnnounced`, `OnlyAcksOverwrite`, `EventsAreSent` hold |
| `async` | single loop, transport reads while the stack goes on | `FramesAreWhole` is violated |
| `frames` | paced host with four kinds of frames, one of which does not decode, every frame cut into calls of put; two kinds of answers, read in calls of get of every size; up to two damaged frames, resets or frames behind an unread rest, fairness | `TypeOK`, `DeliveredWasSent`, `CleanPutReturns`, `SentIsFrame`, `OutputSizeIsRight`, `FrameArrives`, `FrameIsSent` hold |
| `burst` | two frames on the line at once | `DeliveredWasSent` is violated |

The properties that are violated are statements of the repository's headers and comments; the findings in
`PROJECT.json` quote them.
1. **A stopped channel comes back** (`stop`). The trigger saves which channels run when a window is complete.
   Stopping a channel afterwards does not correct the list; `restoreChannelStates`, also on the next start,
   revives the channel.
2. **A data message drains the wrong timestamps** (`packer`). `resetSelf` of the packer keeps the timestamp
   stream. An SC_DATA event that finds no complete window packs the remembered stream, which may be the one
   that is being filled.
3. **A clear can end the acquisition** (`clear`). `Trigger_clear` keeps the state. In CLEANUP the buffers are
   then empty, the channels halted, and the swap never becomes possible.
4. **A frame with another message's body** (`async`). While an acknowledgement without a body is in
   transmission, `isReady` is true; the next message is packed into the output stream and read as the body.
5. **A frame with another frame's type** (`burst`). A call of put that completes a frame goes on into the next
   one, overwriting the type and adding to the input buffer of the frame that waits. The comment in put promises
   this case, `[protocol][pro`.


The code goes wrong in more places. Each of the following has a property that says what should hold, which is not in a run, and one
that says exactly what does hold, which is checked and proved. TLC shows the first kind violated when it takes the place of
the properties in the configuration named.
* **A window with earlier timestamps.** The poll in CLEANUP takes one more sample of full buffers. The channels drop
  their oldest sample for it; `Timestamper_stamp` writes into the full stream and ignores what becomes of it. If the
  stream refuses, as the other buffers of se-lib-c do, the samples are one ahead of their timestamps: `AlignedWindows` in
  `MCScopeCore_windows.cfg`. Nothing else shifts them: `WindowsShiftByRefused`.
* **Acknowledged without being done.** A `cf_running` that fails the safety checks (`CommandRunning.c:107-120`) is not copied, but the
  command runs, with an earlier configuration or none, and answers SE_ACK: `AcknowledgedStartRuns` in
  `MCThreadRunner_threads.cfg`. One that passes them is carried out when it is acknowledged: `CheckedStartRuns`.
* **A command is lost.** While a command waits for the config mutex, the stack thread goes on receiving (`ScopeThreadRunner.c:71-77`). The host's
  acknowledgement of a window takes the one slot the controller has, even if the host awaits the answer to its
  command before it sends another: `NoCommandLost` in `MCMessageStack_paced.cfg`. Such a host loses it to nothing else:
  `OnlyAcksOverwrite`. With EV_TRANS it may go on too early, when it takes another SC_DATA for the answer.
* **put does not come back.** A message that fails to decode leaves bytes in the input buffer (`NanopbUnpacker.c:126-176`); a next frame
  whose payload is shorter finds more there than it has announced, and the loop of put (`FramedIO.c:512`) takes no byte
  any more: `PutReturns` in `MCFramedRx_frames.cfg`. Nothing but such a rest makes it hang, and a reset before it does
  clears the way: `CleanPutReturns`.
* **A frame with another frame's head.** `resetTx` does not empty the buffer of the head. After a `resetOutput` before the
  head has been read, the next frame is sent with the type and length of the one that was given up, if a full buffer
  refuses: `SentIsFrame` in `MCFramedRx_frames.cfg` with `EarlyResets = TRUE`, or `FramesAreWhole` in
  `MCMessageStack_loop.cfg` with `"HEAD"` in `ResetStates`.
* **A wrong length is announced.** `getWidthOfVarint` counts four bits to a byte where the encoding has seven, and is asked
  for the number of samples where the number of bytes is written: wrong for 16 to 31 and for 256 or more samples, and for ids
  from 16 on. `EveryLengthAgrees` in `MCThreadRunner_threads.cfg`, and the theorem `OtherLengthsDisagree`.
* **A name without an end.** Names of 29 and 30 characters are accepted, 30 is the documented maximum
  (`AnnounceStorage.h:42`), but the last byte of the entry is never written: the theorem `LongNamesRunOn`, and `AnnouncedNamesEnd` in
  `MCThreadRunner_threads.cfg` with 29 and 30 in `NameLengths`. `NamesEnd` shows that all other lengths are safe.
* The comment above `messageNeedsToBeAcked` wants all messages acknowledged, the function only SC_DATA, SC_LOG and
  SC_STREAM.
* In the smallest of all configurations, one channel with one sample and no address, a log line of 46 or more
  characters does not fit into the output buffer (`LogLineFits`).
* A message that does not decode, or an SE_NAK, may replace a pending SE_ACK and does not release the acknowledgement lock itself:
  the lock then waits for a message that is not on its way. `AckLockIsJustified` is therefore checked and proved without them.

### Bounds
* Two channels suffice for the interactions between the observed channel and another one; the capacity of 2
  allows empty, partly filled and full buffers. The trigger needs windows of four samples: the half-capacity
  rules leave no room for a trigger in fewer.
* Reference times count modulo 3 to 5, at least one more than a window covers, so that the times in a window differ and
  the wrap of the unsigned sum in `Timestamper_updateElapsedTime` happens in every run. `MaxLag` bounds how late
  a due poll is; with 0, as in `windows`, a poll is late only when the host shortens the increment. Time rests
  while the scope is stopped (`TickWhileStopped`): no property depends on it then.
* `MaxEvents = 1` SC_DATA event in `ScopeCore`: the engine asks for one at a time, and `ev_trans` makes a second
  one that a longer queue would keep; the proofs hold for every length.
* `LiveCommands` and `StoppedCommands` say which commands a run sends while the scope is ready to run and while it
  is not. `cf_trigger` during a capture is in `windows`; `trigger` configures before the start, because under a live
  change the trigger index and the window belong to different configurations. `CleanStart` (only in `live` and
  `clear`) keeps finding 2 out of the liveness runs. `ev_clear` is kept out of `live` because of finding 3.
* `threads`: two channels, of which the requests name both, the one past the last (accepted by the safety checks, refused by
  the loop) and one beyond; start, stop, a stop followed by a bad id, a rejected message, a NULL address and a trigger on
  a channel that does not exist are the cases the command objects tell apart. A queue of 2 fills up by one poll
  command. The configurations of stacks *without* threads take the sizes around every boundary of the two ways to count a
  varint (15/16, 31/32, 255/256, 4096), 0 to 17 channels and none or one address, and one has two; addresses are announced on
  stacks that do not run threads, so that the two parts of the instance do not multiply. Name lengths 1, 28 and 31 are a common one, the
  longest that is stored with its end, and the shortest that is refused. What the packer's strcpy makes of the two in between is undefined behaviour, so
  that no length of a message could be stated. Bytes have two bits and floats six, in the
  proportion of 8 and 24: `MCWords` holds the ends of every integer range and values between two floats.
* `MessageStack` runs with queues of 2 to 4 events instead of ten, so that they fill up. `MaxOwed` bounds the acknowledgements
  on their way: one in `loop`, where a host that insists makes them overlap anyway, two in `paced`. In `paced` the host awaits the
  answer to each message, and everything it sends decodes. It gives up only when no answer can come any more, because the
  command has been overwritten or ends without one: its time to wait is longer than an answer takes. (A host that is less
  patient is one that floods the target.) Then three places suffice (`WindowAnnounced`). A host that floods
  the target with messages, or clears it in every turn, can fill a queue of any length and make it drop SC_DATA,
  after which the window stays in the SWAP buffers until the next SC_DATA event, start or clear.
* `FramedExchange` uses real bytes and four frames: with four bytes of payload, with a payload that contains a start flag,
  without a payload, and with a payload cut short so that it does not decode. `MaxDamages` bounds the damaged frames, the resets of a
  receiver that is clean, and the frames sent while something is left unread; the reset that cleans up is always
  possible. Noise replaces one byte behind the length of a frame. Damage to start flag, type and length,
  and lost bytes are left out: the code does not recover from all of them (a length beyond the buffer, a
  payload byte taken for a start flag), and `FrameArrives` would not hold. A paced host repeats a frame only
  when nothing is on its way, that is, its timeout is longer than a round trip. The two answers are one without
  a payload and one whose sum takes both bytes of the checksum; `Get` is called with every length from 1 to `OutputSize`, so a
  frame is read in every way there is.

### Fairness
* `ScopeCore`: every turn of the loop polls the scope and packs, with commands in between; so a poll that is due
  again and again and a queued event are not passed over for ever (SF), a command that has begun is finished
  and the reference timestamp counts (WF). That queued events are packed again and again needs the host to
  acknowledge and the transport to send; `MessageStack` checks `EventsAreSent`, that the events do not stay in the queue, under these assumptions.
* `ThreadedScope`: both threads are called again and again (WF), nothing more; `MutexesAreGivenBack` needs no luck
  with the mutexes.
* `MessageStack`: the stack and the transport run (WF); a thread that tries for a mutex again and again gets it and the host
  acknowledges what it received (SF). The first of these is an assumption about the scheduling of the two
  threads that the code cannot give: the mutexes are tried with timeout 0.
* `MessageStack` over a link that loses frames (`InsistentSpec`): nobody is sure to acknowledge anything. Besides the stack and
  the transport, a host that repeats some message without a payload, other than a NAK, until it is received (SF) suffices for
  `EventsAreSent`: any such message releases the acknowledgement lock, which has no timeout of its own. `EventsAreSent` excepts
  a put that hangs behind an unread rest, after which nothing is received any more.
* `FramedExchange`: the transport in both directions, the stack and a host that repeats its frame run (WF).

## What is proved

For every set of channels, capacity, set of inputs and configurations, clock width, queue length and command
set allowed by `ScopeCoreAssumption`:
* `TypeCorrect`, `NeverStranded`, `StoppedQuiet` (`ScopeCoreProofs`). The inductive invariant `IInv` adds two
  facts to the three invariants. `SavedWereConfigured`: a channel whose running state is saved has been configured, so
  that restoring it does start it; without it a PAUSED trigger might restore nobody and detect without a
  running channel. `FullWindowHasTimes`: a full SWAP buffer comes with a full SWAP timestamp stream, which the mapping to a
  window needs. Each action has a lemma per part of the invariant. Boolean variables are kept apart
  from arithmetic in the leaves, which the provers need.
* `WindowsKept` (`ScopeCaptureProofs`): `UnsentWindowKept`. The swap happens only when the observed channel's
  SWAP buffer and the SWAP timestamp stream are empty; `FullWindowHasTimes` then says that no other channel holds a
  complete window.
* `Refines` (`ScopeCaptureProofs`): `ImplementsCapture`, every step of `ScopeCore` is a step of
  `CaptureProtocol` or leaves its variables unchanged.

* `ShiftIsRefused` (`ScopeCaptureProofs`): `WindowsShiftByRefused`, for both values of `StreamDropsOldest`, from `AlignInv`. The POLL
  buffer of a channel that runs holds the samples of the latest timestamps, the refused ones among them. A channel the host
  wants but that is halted or has no address has an empty buffer, or one that is still in step because the timestamps rest as
  well; a PAUSED trigger has nothing in either. The packer may empty the POLL stream while the buffers are full (finding 2): then the
  swap waits until the stream is full again. `WindowsAligned`: `AlignedWindows`, if a full stream drops its oldest
  entry (`StreamDropsOldest`), since then nothing is refused. The hypothesis is needed, see above.
* `TriggeredWindows` (`ScopeCaptureProofs`): `TriggerInWindow`, from `TriggerInv`. The sample that triggered is at the place
  `fillUpPollCount` of the observed POLL buffer, counted from its end, and at least half a window is before it;
  in CLEANUP the count may be one behind. Hypotheses: `Capacity >= 4`, which is sharp (with three samples TLC finds a
  window without its trigger), and no `cf_trigger` during a capture, as in the run.

For every queue length, in `ThreadedScopeProofs`: `ThreadsTyped`, `ScopeAccess` and `PollsActive`, from the invariant that a
thread past its lock is the owner of the mutex and that the scope stays active while the scope thread is past its check.

For every number of channels, set of messages, queue length and set of configurations, in `ThreadedScopeProofs`:
* `ThreadsImplemented`: the threads with their commands implement `ThreadRunner`, so that the three theorems above
  hold of them.
* `CommandsTyped`, `PendingWhole`, `RunningIsPolled`, `RunningHasAddress` and `CheckedStarts` (of `CheckedStartRuns`: a `cf_running` that passes the safety
  checks; others are acknowledged without being carried out), from the invariant `CInv`. It
  adds to the properties: the storages hold entries of their shape and what CommandAddr keeps has no NULL in it
  (otherwise a rejected message could bring one in); every channel that has left INIT, or that the trigger has saved as
  running, has an address (otherwise restoring could start one without); a running channel means a scope that is ready, and
  `active` agrees with that outside of commands; and while CF_RUNNING is being run, what its entries so far have started
  still runs, which holds because nobody polls meanwhile (`ScopeAccess`).

In `ScopeSetupProofs`, from the invariant `SetupInv` that the storage has the entries the configuration asked for, each with at most
29 characters, and that a wired stack was accepted by the builder:
* `AllMessagesFit`: no message is cut off, for all sets of configurations with ids of up to two bytes and lengths of up to four
  (`SizesAreUsual`). The lengths of all messages are bounded linearly and multiplied by the number of channels or addresses.
* `SupportedLengths` and `OtherLengthsDisagree`: the announced lengths are right exactly for 1 to 15 or 32 to 255 samples and at
  most 16 channels.
* `NamesEnd`: announced names end within their entry, unless a name has 29 or 30 characters; `LongNamesRunOn`: these two
  are accepted and have no end.

* `PolledValues`: `PolledValueIsVariable` for every size of a byte, every precision of a float and every word in memory. What is
  cut out of the word is the only value of the type with this low end (`CutOutIsValue`), and rounding loses at most half
  of the unit that the exponent names (`ToFloatIsNear`). Powers are the recursive function `TwoTo`, because the provers
  know nothing of `^`.

In `MessageStackProofs`, for every queue length and every set of messages:
* `StackTyped`: `TypeOK`.
* `FramesWhole`: `FramesAreWhole`, if the transport takes a frame at once (`SynchronousTransport`; `async` shows what happens
  otherwise) and nobody resets the output before the head is read (`"HEAD" \notin ResetStates`; see above). The
  invariant `FrameInv`: a message is packed only into an empty output buffer, and from the moment a frame is ready its
  body is the one of its type.
* `AckLockJustified`: `AckLockIsJustified`, if the link loses nothing, nobody resets the output, and every message of the host decodes
  and is no NAK, so that each one releases the lock. `AckInv`: while the lock is held, the message that asked for it is on its
  way out, or its answer or another message is on its way in. The host need not be paced: an acknowledgement that put
  discards because a complete frame waits is made up for by that frame.
* `WindowAnnounced`: `WindowIsAnnounced`, for a paced host with any set of messages, a queue of three places or more (the code has ten,
  `Controller_create`) and no reset before the head is read. `WindowInv` counts: of the answers in the queue, the messages on
  their way in and the answers on their way out there is one at most, and none when nothing is awaited; besides it and one
  piece of log, a push of SC_DATA that finds the queue full finds an SC_DATA in it. With two places it does not.
* `CommandsYieldToAcks`: `OnlyAcksOverwrite`, under the same hypotheses. `NothingBehind`: until it has been answered, nothing but an
  acknowledgement comes in behind a message.

In `FrameProofs` and `FramedExchangeProofs`, for every set of frames and answers, every size of the input buffer, every noise
and every cut of both streams into calls:
* `SumOfConcat`, `SumOfChanged`: the checksum may be added up piece by piece, and a single changed byte changes it. `SumOf` is
  a recursive function; these are inductions over the length of a payload, made with sets of numbers (`InductionOnSet`)
  instead of predicates, and that from the well-foundedness of finite sets in the library.
* `FramesAreSentWhole`: `SentIsFrame`, and `OutputSizeIsExact`: `OutputSizeIsRight`, for a paced host, if no frame is reset before
  its head has been read (`~EarlyResets`, see above). `TxInv`: what
  the transport has, joined with what is left in the three buffers, is the encoded frame, with the sum so far in
  `txChecksum`; a call of get that spans several parts goes through states with the same property. For a host that is not
  paced the stack composes an answer while the one before is still read.
* `ReceiverTyped`: `TypeOK` of the receive machine, for all that may arrive. `RxTyped` adds what the checksum holds outside of the
  checksum state and how far the counter gets in each field.
* `OnlySentIsDelivered`: `DeliveredWasSent`, and `CleanPutAlwaysReturns`: `CleanPutReturns`, for a paced host and a
  buffer whose size a length of four bytes can name. Any frame may fail to decode or have no unpacker; both properties speak of
  the time until a payload has been left unread, and again from the next `resetInput` on. What can happen in between is
  that put hangs, see above. `RxInv`: what the machine has taken and what is on the line or in the call of put
  together are one frame, damaged in one byte behind the length or not at all; the fields say how much of it has been
  taken. A damaged frame ends in START_FLAG with an empty buffer, wherever the damage was: in the payload or the sum by
  `SumOfChanged`, in the end flag by the check of that.

The hypotheses are met by the instances of the runs named with them (`windows`, `trigger`, `threads`, `loop`, `paced`, `frames`), where TLC
finds the interesting states of each.

Only model-checked are the liveness properties, which are out of the prover's reach (as is ENABLED): `CaptureCompletes`,
`EventsAreSent`, `MutexesAreGivenBack`, `FrameArrives` and `FrameIsSent`.

## Not modelled
* `ParserDefinitions`: constants without state.
* The bytes of protobuf messages: their lengths, what a failed decode leaves behind and what the packer drains are
  modelled, the encoding itself belongs to nanopb.
* The contents of announcements and log lines beyond lengths and types.
* Targets that are big-endian or have words of eight bytes: `castDataToFloat` cuts the low end out of a word of four.
* Destruction: the destructors are not called on a stack that runs, and keep no state.
* What is undefined behaviour in C: a message with more entries than channels, which the unpacker writes past its
  storage, and running a stack the builder has refused. Both are hazards in `PROJECT.json` and excluded by an assumption or a guard.
* Application threads that call `Scope_transmit`, write the log or change the announce storage beside the two threads of the stack:
  the repository gives them no lock, and no rule to check.
* se-lib-c, nanopb and the protocol definition: not in the repository; the first is modelled as far as the code uses it.

## Plan
Done, in this order: `ScopeCore` with its runs; `CaptureProtocol` and the refinement; `ThreadRunner`;
`MessageStack`; their proofs; `FramedRx`; `HostCommands`, `ThreadedScope` and their proofs; `AnnounceStorage`, `PolledValues`, `MessageSizes`, `ScopeSetup` and
their proofs; `MessageStack` with lost frames and resets; `FramedTx` and `FramedExchange`; the proofs of `MessageStack` and
`FramedExchange`; `AlignedWindows`, `TriggerInWindow` and `PolledValueIsVariable`. Next, proofs:
1. That `FramedExchange` implements an abstract link: frames of a paced host arrive one after the other, each at most once.
2. `TriggerInWindow` with a `cf_trigger` during a capture, for what is left of it then.
