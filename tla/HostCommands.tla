----------------------------- MODULE HostCommands -----------------------------
(***************************************************************************)
(* How a message of the host becomes a change of the scope.  The unpacker  *)
(* (NanopbUnpacker.c) decodes it into its own storage, the controller      *)
(* keeps its type as the pending command, the parser of the command hands  *)
(* the decoded entries to the command object, which keeps them, and the    *)
(* command is run on the scope, entry by entry.  The three storages        *)
(* outlive the message, and each step trusts what the one before has left: *)
(* a message that fails to decode leaves the entries read so far, and a    *)
(* message that the command object rejects leaves those of an earlier one, *)
(* which are run in its place.                                             *)
(*                                                                         *)
(* What the trigger does to the channels during a poll, it may do here at  *)
(* any poll of a scope that runs; ScopeCore says when.                     *)
(***************************************************************************)
EXTENDS Naturals, Sequences

CONSTANTS
    AmountOfChannels,
    Address,              \* what the host may name as the address of a channel
    Null,                 \* the NULL pointer
    RunningRequests,      \* entries of the CF_RUNNING messages: [id, newState]
    AddressRequests,      \* entries of the CF_ADDR messages: [id, address]
    TriggerRequests,      \* the CF_TRIGGER messages: [modeIsValid, channelId]
    OtherRequests         \* types of the messages that configure nothing here

ChannelIds == 0 .. AmountOfChannels - 1
None       == "none"
Answered   == {"cf_t_inc", "ev_clear", "ev_trans", "ev_announce", "ev_detect"}

(***************************************************************************)
(* The unpacker and the parsers have room for AmountOfChannels entries and *)
(* do not look: a longer message would be written past the end.            *)
(***************************************************************************)
ASSUME HostCommandsAssumption ==
    /\ AmountOfChannels \in Nat \ {0}
    /\ \A r \in RunningRequests :
         r \in Seq([id : Nat, newState : BOOLEAN]) /\ Len(r) <= AmountOfChannels
    /\ \A r \in AddressRequests :
         r \in Seq([id : Nat, address : Address \cup {Null}]) /\ Len(r) <= AmountOfChannels
    /\ TriggerRequests \subseteq [modeIsValid : BOOLEAN, channelId : Nat]
    /\ OtherRequests \subseteq Answered \cup {"ev_poll", "se_ack"}
    /\ Null \notin Address

VARIABLES
    unpackedRunning,   \* NanopbUnpacker: the entries read last
    unpackedAddress,
    unpackedTrigger,
    storedRunning,     \* the entries the command objects keep
    storedAddress,
    commandPending,
    entry,             \* the entry CommandRunning or CommandAddr is at; 0: not parsed yet
    channelState,
    pollAddress,
    channelIsRunning,  \* the states the trigger has saved
    activeChannelId,   \* the channel the trigger observes
    scopeIsReadyToRun

unpackVars   == <<unpackedRunning, unpackedAddress, unpackedTrigger>>
storedVars   == <<storedRunning, storedAddress>>
channelVars  == <<channelState, pollAddress>>
stateVars    == <<channelState, channelIsRunning, scopeIsReadyToRun>>
scopeConf    == <<pollAddress, activeChannelId>>
commandVars  == <<unpackVars, storedVars, commandPending, entry, stateVars, scopeConf>>

UnpackerInit ==
    /\ unpackedRunning = <<>> /\ unpackedAddress = <<>>
    /\ unpackedTrigger = [modeIsValid |-> FALSE, channelId |-> 0]

CommandObjectsInit ==
    /\ storedRunning = <<>> /\ storedAddress = <<>>
    /\ commandPending = None /\ entry = 0

ScopeInit ==
    /\ channelState = [c \in ChannelIds |-> "INIT"]
    /\ pollAddress = [c \in ChannelIds |-> Null]
    /\ channelIsRunning = [c \in ChannelIds |-> FALSE]
    /\ activeChannelId = 0
    /\ scopeIsReadyToRun = FALSE

CommandsInit == UnpackerInit /\ CommandObjectsInit /\ ScopeInit

-----------------------------------------------------------------------------
(***************************************************************************)
(* A message arrives while no command is being run: Serializer runRx, with *)
(* NanopbUnpacker unpack and Controller commandUpdate.                     *)
(***************************************************************************)
\* what is pending after a message of this type
Pending(type, whole) == IF whole THEN type ELSE "se_nak"

\* amount = 0, before the callbacks append the entries
EntriesAreKept(entries) == entries  \* mutation: the amount is not reset

EmptiedEntries(entries) == <<>>

\* runningConfigCallback, once for each entry; a message may fail to decode after any of them
UnpackRunning ==
    \E r \in RunningRequests : \E n \in 0 .. Len(r), whole \in BOOLEAN :
      /\ whole => n = Len(r)
      /\ unpackedRunning' = EmptiedEntries(unpackedRunning) \o SubSeq(r, 1, n)
      /\ commandPending' = Pending("cf_running", whole)
      /\ UNCHANGED <<unpackedAddress, unpackedTrigger>>

\* addressConfigCallback
UnpackAddress ==
    \E r \in AddressRequests : \E n \in 0 .. Len(r), whole \in BOOLEAN :
      /\ whole => n = Len(r)
      /\ unpackedAddress' = EmptiedEntries(unpackedAddress) \o SubSeq(r, 1, n)
      /\ commandPending' = Pending("cf_addr", whole)
      /\ UNCHANGED <<unpackedRunning, unpackedTrigger>>

\* the configuration is taken over only when all of it has been decoded
UnpackTrigger ==
    \E r \in TriggerRequests, whole \in BOOLEAN :
      /\ unpackedTrigger' = IF whole THEN r ELSE unpackedTrigger
      /\ commandPending' = Pending("cf_trigger", whole)
      /\ UNCHANGED <<unpackedRunning, unpackedAddress>>

\* a message without a payload, or whose payload ScopeCore keeps and may fail to decode
UnpackOther ==
    \E type \in OtherRequests, whole \in BOOLEAN :
      /\ ~whole => type \in {"ev_poll", "cf_t_inc"}
      /\ commandPending' = Pending(type, whole)
      /\ UNCHANGED unpackVars

Unpack ==
    /\ entry = 0
    /\ UnpackRunning \/ UnpackAddress \/ UnpackTrigger \/ UnpackOther
    /\ UNCHANGED <<storedVars, entry, stateVars, scopeConf>>

-----------------------------------------------------------------------------
(***************************************************************************)
(* The parsers and the safety checks of the command objects.               *)
(***************************************************************************)
\* CommandRunning_setAttributes: the number of channels itself passes as an id
RunningIsSafe(entries) ==
    /\ Len(entries) <= AmountOfChannels
    /\ \A i \in 1 .. Len(entries) : entries[i].id <= AmountOfChannels

AddressIsSafeUnchecked(entries) ==  \* mutation: NULL is not looked for
    /\ Len(entries) <= AmountOfChannels
    /\ \A i \in 1 .. Len(entries) : entries[i].id <= AmountOfChannels

\* CommandAddr_setAttributes
AddressIsSafe(entries) ==
    /\ Len(entries) <= AmountOfChannels
    /\ \A i \in 1 .. Len(entries) :
         entries[i].id <= AmountOfChannels /\ entries[i].address # Null

\* CommandRunningParser_getCommand
ParseRunning ==
    /\ commandPending = "cf_running" /\ entry = 0
    /\ storedRunning' = IF RunningIsSafe(unpackedRunning) THEN unpackedRunning ELSE storedRunning
    /\ entry' = 1
    /\ UNCHANGED <<unpackVars, storedAddress, commandPending, stateVars, scopeConf>>

\* CommandAddrParser_getCommand
ParseAddress ==
    /\ commandPending = "cf_addr" /\ entry = 0
    /\ storedAddress' = IF AddressIsSafe(unpackedAddress) THEN unpackedAddress ELSE storedAddress
    /\ entry' = 1
    /\ UNCHANGED <<unpackVars, storedRunning, commandPending, stateVars, scopeConf>>

-----------------------------------------------------------------------------
(***************************************************************************)
(* What a command changes in the scope.                                    *)
(***************************************************************************)
SomeChannelRuns == \E c \in ChannelIds : channelState'[c] = "RUNNING"

SetState(c, from, to) ==
    IF channelState[c] = from THEN [channelState EXCEPT ![c] = to] ELSE channelState

\* restoreChannelStates
Restored(states) ==
    [c \in ChannelIds |-> IF channelIsRunning[c] /\ states[c] = "STOPPED" THEN "RUNNING"
                                                                         ELSE states[c]]

SetChannelRunningOnly(c) ==  \* mutation: the scope is not made ready
    /\ channelState' = SetState(c, "STOPPED", "RUNNING")
    /\ UNCHANGED <<channelIsRunning, scopeIsReadyToRun>>

\* Scope_setChannelRunning, with Trigger_activate when a channel runs
SetChannelRunning(c) ==
    /\ LET started == SetState(c, "STOPPED", "RUNNING") IN
       IF \E d \in ChannelIds : started[d] = "RUNNING"
       THEN channelState' = Restored(started) /\ scopeIsReadyToRun' = TRUE
       ELSE channelState' = started /\ UNCHANGED scopeIsReadyToRun
    /\ UNCHANGED channelIsRunning

\* Scope_setChannelStopped, with Trigger_deactivate when no channel runs
SetChannelStopped(c) ==
    /\ channelState' = SetState(c, "RUNNING", "STOPPED")
    /\ IF SomeChannelRuns
       THEN UNCHANGED <<channelIsRunning, scopeIsReadyToRun>>
       ELSE /\ channelIsRunning' = [d \in ChannelIds |-> FALSE]
            /\ scopeIsReadyToRun' = FALSE

\* Scope_configureChannel, with Channel_setPollAddress
SetPollAddress(c, address) ==
    /\ pollAddress' = [pollAddress EXCEPT ![c] = address]
    /\ channelState' = SetState(c, "INIT", "STOPPED")

ConfigureTriggerUnchecked(conf) ==  \* mutation: the channel is not looked at
    activeChannelId' = IF conf.modeIsValid THEN conf.channelId ELSE activeChannelId

\* Trigger_configure: nothing but a known mode and an existing channel is taken over
ConfigureTrigger(conf) ==
    activeChannelId' = IF conf.modeIsValid /\ conf.channelId < AmountOfChannels
                       THEN conf.channelId ELSE activeChannelId

(***************************************************************************)
(* Scope_poll: the trigger saves the states of the channels, stops them    *)
(* or starts those it has saved again.                                     *)
(***************************************************************************)
SafeChannelStates ==
    /\ channelIsRunning' = [c \in ChannelIds |-> channelState[c] = "RUNNING"]
    /\ UNCHANGED channelState

StopChannels ==
    /\ channelState' = [c \in ChannelIds |-> IF channelState[c] = "RUNNING" THEN "STOPPED"
                                                                           ELSE channelState[c]]
    /\ UNCHANGED channelIsRunning

RestoreChannelStates ==
    /\ channelState' = Restored(channelState)
    /\ UNCHANGED channelIsRunning

PollScope ==
    /\ \/ UNCHANGED <<channelState, channelIsRunning>>
       \/ scopeIsReadyToRun /\ (SafeChannelStates \/ StopChannels \/ RestoreChannelStates)
    /\ UNCHANGED scopeIsReadyToRun

-----------------------------------------------------------------------------
(***************************************************************************)
(* Running the pending command.                                            *)
(***************************************************************************)
EntryIsInRange(entries) == entry \in 1 .. Len(entries) /\ entries[entry].id < AmountOfChannels

\* CommandRunning run, one entry
RunEntry ==
    /\ commandPending = "cf_running" /\ EntryIsInRange(storedRunning)
    /\ IF storedRunning[entry].newState THEN SetChannelRunning(storedRunning[entry].id)
                                        ELSE SetChannelStopped(storedRunning[entry].id)
    /\ entry' = entry + 1
    /\ UNCHANGED <<unpackVars, storedVars, commandPending, scopeConf>>

\* CommandAddr run, one entry
AddressEntry ==
    /\ commandPending = "cf_addr" /\ EntryIsInRange(storedAddress)
    /\ SetPollAddress(storedAddress[entry].id, storedAddress[entry].address)
    /\ entry' = entry + 1
    /\ UNCHANGED <<unpackVars, storedVars, commandPending, channelIsRunning, scopeIsReadyToRun,
                   activeChannelId>>

Done == commandPending' = None /\ entry' = 0 /\ UNCHANGED <<unpackVars, storedVars>>

EndsBeforeLast(entries) ==  \* mutation: the loop ends one entry early
    entry # 0 /\ entry >= Len(entries)

\* every entry has been run
EndsAfter(entries) == entry = Len(entries) + 1

RunningIsAnswered ==
    /\ commandPending = "cf_running" /\ EndsAfter(storedRunning)
    /\ Done
    /\ UNCHANGED <<stateVars, scopeConf>>

AddressIsAnswered ==
    /\ commandPending = "cf_addr" /\ EndsAfter(storedAddress)
    /\ Done
    /\ UNCHANGED <<stateVars, scopeConf>>

\* an id that is out of range ends the command, without an answer
RunningIsAbandoned ==
    /\ commandPending = "cf_running" /\ entry \in 1 .. Len(storedRunning)
    /\ ~EntryIsInRange(storedRunning)
    /\ Done
    /\ UNCHANGED <<stateVars, scopeConf>>

AddressIsAbandoned ==
    /\ commandPending = "cf_addr" /\ entry \in 1 .. Len(storedAddress)
    /\ ~EntryIsInRange(storedAddress)
    /\ Done
    /\ UNCHANGED <<stateVars, scopeConf>>

\* CommandTrigger run
RunTrigger ==
    /\ commandPending = "cf_trigger"
    /\ ConfigureTrigger(unpackedTrigger)
    /\ Done
    /\ UNCHANGED <<stateVars, pollAddress>>

\* the commands that change no channel, and SE_NAK, which is sent back
RunAnswered ==
    /\ commandPending \in Answered \cup {"se_nak"}
    /\ Done
    /\ UNCHANGED <<stateVars, scopeConf>>

\* CommandPoll run: the scope may push SC_DATA before the answer
RunPoll ==
    /\ commandPending = "ev_poll"
    /\ PollScope
    /\ Done
    /\ UNCHANGED scopeConf

\* no parser for the type
RunNothing ==
    /\ commandPending = "se_ack"
    /\ Done
    /\ UNCHANGED <<stateVars, scopeConf>>

RunOne  == RunningIsAnswered \/ AddressIsAnswered \/ RunTrigger \/ RunAnswered
RunNone == RunningIsAbandoned \/ AddressIsAbandoned \/ RunNothing
RunPart == ParseRunning \/ ParseAddress \/ RunEntry \/ AddressEntry
=============================================================================
