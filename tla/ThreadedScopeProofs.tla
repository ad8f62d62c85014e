------------------------- MODULE ThreadedScopeProofs -------------------------
(***************************************************************************)
(* Proofs about the two threads.  Mutual exclusion follows from who holds  *)
(* which mutex at which place of a turn; that a poll finds the scope       *)
(* active also needs the config mutex to be kept until the poll is over.   *)
(* The threads with their commands are the threads of ThreadRunner, so     *)
(* that this holds for them too; and as nothing polls while a command      *)
(* runs, what a command has done so far lasts until it answers.            *)
(***************************************************************************)
EXTENDS ThreadedScope, SequenceTheorems, TLAPS

-----------------------------------------------------------------------------
(***************************************************************************)
(* The threads and their mutexes.                                          *)
(***************************************************************************)
\* At every place of a turn the thread holds exactly the mutexes the code holds there.
MutexOwners ==
    /\ configMutex = "scope" <=> scopePc \in {"locked", "run", "unlock"}
    /\ configMutex = "stack" <=> stackPc = "command"
    /\ dataMutex = "scope" <=> scopePc = "run"
    /\ dataMutex = "stack" <=> Packing

IInv == TypeOK /\ MutexOwners /\ PollsOnlyActiveScope

\* At the beginning nobody holds a mutex.
LEMMA InitIInv == Init => IInv
<1> SUFFICES ASSUME Init PROVE IInv
  OBVIOUS
<1>1. FlagsTypeOK
  BY DEF Init, FlagsTypeOK
<1>2. TypeOK
  BY <1>1, ThreadRunnerAssumption DEF Init, TypeOK, ScopePcs, StackPcs, Owners
<1>3. MutexOwners /\ PollsOnlyActiveScope
  BY DEF Init, MutexOwners, PollsOnlyActiveScope, Packing
<1> QED
  BY <1>2, <1>3 DEF IInv

\* The flags: a poll and the locks leave them alone, a command may set them.
LEMMA FlagsStep ==
    ASSUME TypeOK, [Next]_vars
    PROVE  FlagsTypeOK'
BY DEF TypeOK, FlagsTypeOK, vars, scopeVars, Next, ScopeThread, StackThread, ScopeLocksConfig,
       ScopeIsStopped, ScopeLocksData, ScopeFindsDataBusy, ScopeRuns, ScopeUnlocksConfig,
       StackReceives, StackUnpacks, StackLocksConfig, StackSkipsCommand, StackRunsCommand,
       StackLocksData, StackFindsDataBusy, StackAggregates, StackPacks, StackSends

\* The places of the scope thread.
LEMMA ScopeStep ==
    ASSUME IInv, ScopeThread
    PROVE  IInv'
<1>0. FlagsTypeOK'
  BY FlagsStep DEF IInv, Next
<1> USE <1>0, ThreadRunnerAssumption
    DEF IInv, TypeOK, MutexOwners, PollsOnlyActiveScope, Packing, ScopePcs, StackPcs, Owners
<1>1. CASE ScopeLocksConfig
  BY <1>1 DEF ScopeLocksConfig
<1>2. CASE ScopeIsStopped
  BY <1>2 DEF ScopeIsStopped
<1>3. CASE ScopeLocksData
  BY <1>3 DEF ScopeLocksData
<1>4. CASE ScopeFindsDataBusy
  BY <1>4 DEF ScopeFindsDataBusy
<1>5. CASE ScopeRuns
  BY <1>5 DEF ScopeRuns, Pushed
<1>6. CASE ScopeUnlocksConfig
  BY <1>6 DEF ScopeUnlocksConfig
<1> QED
  BY <1>1, <1>2, <1>3, <1>4, <1>5, <1>6 DEF ScopeThread

\* The places of the stack thread.
LEMMA StackStep ==
    ASSUME IInv, StackThread
    PROVE  IInv'
<1>0. FlagsTypeOK'
  BY FlagsStep DEF IInv, Next
<1> USE <1>0, ThreadRunnerAssumption
    DEF IInv, TypeOK, MutexOwners, PollsOnlyActiveScope, Packing, ScopePcs, StackPcs, Owners, scopeVars
<1>1. CASE StackReceives
  BY <1>1 DEF StackReceives
<1>2. CASE StackUnpacks
  BY <1>2 DEF StackUnpacks
<1>3. CASE StackLocksConfig
  BY <1>3 DEF StackLocksConfig
<1>4. CASE StackSkipsCommand
  BY <1>4 DEF StackSkipsCommand
<1>5. CASE StackRunsCommand
  BY <1>5 DEF StackRunsCommand, Pushed
<1>6. CASE StackLocksData
  BY <1>6 DEF StackLocksData
<1>7. CASE StackFindsDataBusy
  BY <1>7 DEF StackFindsDataBusy
<1>8. CASE StackAggregates
  BY <1>8 DEF StackAggregates
<1>9. CASE StackPacks
  BY <1>9 DEF StackPacks
<1>10. CASE StackSends
  BY <1>10 DEF StackSends
<1> QED
  BY <1>1, <1>2, <1>3, <1>4, <1>5, <1>6, <1>7, <1>8, <1>9, <1>10 DEF StackThread

\* Steps of others.
LEMMA StutterStep ==
    ASSUME IInv, UNCHANGED vars
    PROVE  IInv'
BY DEF vars, IInv, TypeOK, FlagsTypeOK, MutexOwners, PollsOnlyActiveScope, Packing

\* The invariant of the two threads.
LEMMA InvariantHolds == Spec => []IInv
<1>1. IInv /\ [Next]_vars => IInv'
  BY ScopeStep, StackStep, StutterStep DEF Next
<1> QED
  BY <1>1, InitIInv, PTL DEF Spec

-----------------------------------------------------------------------------
(***************************************************************************)
(* The queue stays within its limit and the places of the turns and the    *)
(* owners of the mutexes within theirs.                                    *)
(***************************************************************************)
THEOREM ThreadsTyped == Spec => []TypeOK
<1>1. IInv => TypeOK
  BY DEF IInv
<1> QED
  BY <1>1, InvariantHolds, PTL

(***************************************************************************)
(* A poll never overlaps a command or the packing of a message.            *)
(***************************************************************************)
THEOREM ScopeAccess == Spec => []ScopeAccessIsExclusive
<1>1. IInv => ScopeAccessIsExclusive
  BY DEF IInv, MutexOwners, ScopeAccessIsExclusive
<1> QED
  BY <1>1, InvariantHolds, PTL

(***************************************************************************)
(* The scope that is polled is active: the flags the scope thread has read *)
(* before it got the data mutex are not stale.                             *)
(***************************************************************************)
THEOREM PollsActive == Spec => []PollsOnlyActiveScope
<1>1. IInv => PollsOnlyActiveScope
  BY DEF IInv
<1> QED
  BY <1>1, InvariantHolds, PTL

-----------------------------------------------------------------------------
(***************************************************************************)
(* Every step is a step of ThreadRunner or leaves its variables alone.     *)
(***************************************************************************)
LEMMA StepImplemented ==
    ASSUME [ThreadedNext]_allVars
    PROVE  [Next]_vars
<1>1. CASE Create
  BY <1>1 DEF Create
<1>10. CASE Announce
  BY <1>10 DEF Announce
<1>2. CASE ThreadsReturn
  BY <1>2 DEF ThreadsReturn, allVars
<1>3. CASE ScopeMoves
  BY <1>3 DEF ScopeMoves, Next, ScopeThread
<1>4. CASE ScopePolls
  BY <1>4 DEF ScopePolls, Next, ScopeThread
<1>5. CASE StackMoves
  BY <1>5 DEF StackMoves, Next, StackThread
<1>6. CASE StackTakesMessage
  BY <1>6 DEF StackTakesMessage, Next, StackThread
<1>7. CASE StackWorksOnCommand
  BY <1>7 DEF StackWorksOnCommand
<1>8. CASE StackEndsCommand
  BY <1>8 DEF StackEndsCommand, Next, StackThread
<1>9. CASE UNCHANGED allVars
  BY <1>9 DEF allVars
<1> QED
  BY <1>1, <1>2, <1>3, <1>4, <1>5, <1>6, <1>7, <1>8, <1>9, <1>10
     DEF ThreadedNext, ScopeThreadMoves, StackThreadMoves

(***************************************************************************)
(* The threads that unpack and run the commands of the host are the        *)
(* threads of ThreadRunner: what is proved of those holds of these.        *)
(***************************************************************************)
THEOREM ThreadsImplemented == ThreadedSpec => Spec
<1>1. ThreadedInit => Init
  BY DEF ThreadedInit
<1> QED
  BY <1>1, StepImplemented, PTL DEF ThreadedSpec, Spec

-----------------------------------------------------------------------------
(***************************************************************************)
(* The storages hold entries of the right shape, those of CommandAddr no   *)
(* NULL; and a channel that has left INIT has an address.                  *)
(***************************************************************************)
RunningEntries == Seq([id : Nat, newState : BOOLEAN])
AddressEntries == Seq([id : Nat, address : Address \cup {Null}])

EntriesTypeOK ==
    /\ unpackedRunning \in RunningEntries
    /\ unpackedAddress \in AddressEntries
    /\ unpackedTrigger \in [modeIsValid : BOOLEAN, channelId : Nat]
    /\ storedRunning \in RunningEntries
    /\ storedAddress \in AddressEntries
    /\ Len(storedRunning) <= AmountOfChannels
    /\ Len(storedAddress) <= AmountOfChannels

StoredAddressesAreSet == \A i \in 1 .. Len(storedAddress) : storedAddress[i].address # Null

ConfiguredHasAddress ==
    \A c \in ChannelIds :
      /\ channelState[c] = "INIT" <=> pollAddress[c] = Null
      /\ channelIsRunning[c] => channelState[c] # "INIT"

\* a command is under way only while the stack thread holds the config mutex
EntryIsOwned == entry # 0 => stackPc = "command"

RunningMeansReady == \A c \in ChannelIds : channelState[c] = "RUNNING" => scopeIsReadyToRun

ActiveIsReady == stackPc # "command" => active = scopeIsReadyToRun

\* what the entries run so far have started still runs
StartsSoFar(i) ==
    /\ storedRunning[i].newState
    /\ \A j \in i + 1 .. entry - 1 : storedRunning[j].id # storedRunning[i].id

StartedSoFar ==
    commandPending = "cf_running" =>
      \A i \in 1 .. entry - 1 :
        LET c == storedRunning[i].id IN
        /\ c \in ChannelIds
        /\ StartsSoFar(i) => channelState[c] = "RUNNING" \/ pollAddress[c] = Null

CInv ==
    /\ CommandsTypeOK
    /\ EntriesTypeOK
    /\ StoredAddressesAreSet
    /\ ConfiguredHasAddress
    /\ EntryIsOwned
    /\ RunningMeansReady
    /\ ActiveIsReady
    /\ StartedSoFar
    /\ PendingIsWhole

\* At the beginning nothing is stored.
LEMMA InitCInv == ThreadedInit => CInv
<1> SUFFICES ASSUME ThreadedInit PROVE CInv
  OBVIOUS
<1> USE HostCommandsAssumption DEF ThreadedInit, CommandsInit, UnpackerInit, CommandObjectsInit,
                                ScopeInit, None, ChannelIds
<1>1. CommandsTypeOK
  BY DEF CommandsTypeOK
<1>2. EntriesTypeOK /\ StoredAddressesAreSet
  BY DEF EntriesTypeOK, StoredAddressesAreSet, RunningEntries, AddressEntries
<1>3. ConfiguredHasAddress /\ RunningMeansReady /\ ActiveIsReady
  BY DEF ConfiguredHasAddress, RunningMeansReady, ActiveIsReady, Init
<1>4. EntryIsOwned /\ StartedSoFar /\ PendingIsWhole
  BY DEF EntryIsOwned, StartedSoFar, PendingIsWhole
<1> QED
  BY <1>1, <1>2, <1>3, <1>4 DEF CInv

-----------------------------------------------------------------------------
(***************************************************************************)
(* A message.  Only one that has been decoded to its end is pending under  *)
(* its own type, and it replaces what an earlier one has left.             *)
(***************************************************************************)
LEMMA RunningPrefix ==
    ASSUME NEW r \in RunningRequests, NEW n \in 0 .. Len(r)
    PROVE  /\ <<>> \o SubSeq(r, 1, n) \in RunningEntries
           /\ n = Len(r) => <<>> \o SubSeq(r, 1, n) = r
<1> DEFINE S == [id : Nat, newState : BOOLEAN]
<1>1. r \in Seq(S)
  BY HostCommandsAssumption
<1>2. Len(r) \in Nat
  BY <1>1, LenProperties
<1>3. \A i \in 1 .. n : r[i] \in S
  <2> TAKE i \in 1 .. n
  <2>1. i \in 1 .. Len(r)
    BY <1>2
  <2> HIDE DEF S
  <2> QED
    BY <1>1, <2>1, ElementOfSeq
<1>4. SubSeq(r, 1, n) \in Seq(S)
  BY <1>2, <1>3, SubSeqProperties
<1>5. <<>> \o SubSeq(r, 1, n) = SubSeq(r, 1, n)
  BY <1>4, ConcatEmptySeq
<1>6. n = Len(r) => SubSeq(r, 1, n) = r
  BY <1>1, SubSeqFull
<1> QED
  BY <1>4, <1>5, <1>6 DEF RunningEntries

\* The entries that have been unpacked so far, and all of them in the end.
LEMMA AddressPrefix ==
    ASSUME NEW r \in AddressRequests, NEW n \in 0 .. Len(r)
    PROVE  /\ <<>> \o SubSeq(r, 1, n) \in AddressEntries
           /\ n = Len(r) => <<>> \o SubSeq(r, 1, n) = r
<1> DEFINE S == [id : Nat, address : Address \cup {Null}]
<1>1. r \in Seq(S)
  BY HostCommandsAssumption
<1>2. Len(r) \in Nat
  BY <1>1, LenProperties
<1>3. \A i \in 1 .. n : r[i] \in S
  <2> TAKE i \in 1 .. n
  <2>1. i \in 1 .. Len(r)
    BY <1>2
  <2> HIDE DEF S
  <2> QED
    BY <1>1, <2>1, ElementOfSeq
<1>4. SubSeq(r, 1, n) \in Seq(S)
  BY <1>2, <1>3, SubSeqProperties
<1>5. <<>> \o SubSeq(r, 1, n) = SubSeq(r, 1, n)
  BY <1>4, ConcatEmptySeq
<1>6. n = Len(r) => SubSeq(r, 1, n) = r
  BY <1>1, SubSeqFull
<1> QED
  BY <1>4, <1>5, <1>6 DEF AddressEntries

PendingTypes == Answered \cup {"cf_running", "cf_addr", "cf_trigger", "ev_poll",
                               "se_ack", "se_nak", None}

\* what a message changes
LEMMA UnpackStep ==
    ASSUME CInv, Unpack
    PROVE  /\ EntriesTypeOK'
           /\ commandPending' \in PendingTypes
           /\ PendingIsWhole'
<1> USE DEF CInv, EntriesTypeOK, PendingIsWhole, PendingTypes, Pending, Unpack, storedVars
<1>1. CASE UnpackRunning
  <2>1. PICK r \in RunningRequests : \E n \in 0 .. Len(r), whole \in BOOLEAN :
          /\ whole => n = Len(r)
          /\ unpackedRunning' = EmptiedEntries(unpackedRunning) \o SubSeq(r, 1, n)
          /\ commandPending' = Pending("cf_running", whole)
          /\ UNCHANGED <<unpackedAddress, unpackedTrigger>>
    BY <1>1 DEF UnpackRunning
  <2>2. PICK n \in 0 .. Len(r), whole \in BOOLEAN :
          /\ whole => n = Len(r)
          /\ unpackedRunning' = <<>> \o SubSeq(r, 1, n)
          /\ commandPending' = Pending("cf_running", whole)
          /\ UNCHANGED <<unpackedAddress, unpackedTrigger>>
    BY <2>1 DEF EmptiedEntries
  <2>3. /\ unpackedRunning' \in RunningEntries
        /\ whole => unpackedRunning' \in RunningRequests
    BY <2>2, RunningPrefix
  <2> QED
    BY <2>2, <2>3
<1>2. CASE UnpackAddress
  <2>1. PICK r \in AddressRequests : \E n \in 0 .. Len(r), whole \in BOOLEAN :
          /\ whole => n = Len(r)
          /\ unpackedAddress' = EmptiedEntries(unpackedAddress) \o SubSeq(r, 1, n)
          /\ commandPending' = Pending("cf_addr", whole)
          /\ UNCHANGED <<unpackedRunning, unpackedTrigger>>
    BY <1>2 DEF UnpackAddress
  <2>2. PICK n \in 0 .. Len(r), whole \in BOOLEAN :
          /\ whole => n = Len(r)
          /\ unpackedAddress' = <<>> \o SubSeq(r, 1, n)
          /\ commandPending' = Pending("cf_addr", whole)
          /\ UNCHANGED <<unpackedRunning, unpackedTrigger>>
    BY <2>1 DEF EmptiedEntries
  <2>3. /\ unpackedAddress' \in AddressEntries
        /\ whole => unpackedAddress' \in AddressRequests
    BY <2>2, AddressPrefix
  <2> QED
    BY <2>2, <2>3
<1>3. CASE UnpackTrigger
  BY <1>3, HostCommandsAssumption DEF UnpackTrigger
<1>4. CASE UnpackOther
  BY <1>4, HostCommandsAssumption DEF UnpackOther, unpackVars, Answered
<1> QED
  BY <1>1, <1>2, <1>3, <1>4

\* A message is unpacked into the storages of its command.
LEMMA TakesMessageStep ==
    ASSUME CInv, StackTakesMessage
    PROVE  CInv'
<1>1. stackPc = "unpack" /\ stackPc' = "check" /\ active' = active
  BY DEF StackTakesMessage, StackUnpacks, scopeVars
<1>2. CASE UNCHANGED commandVars
  BY <1>1, <1>2 DEF commandVars, unpackVars, storedVars, stateVars, scopeConf, CInv,
     CommandsTypeOK, EntriesTypeOK, StoredAddressesAreSet, ConfiguredHasAddress, EntryIsOwned,
     RunningMeansReady, ActiveIsReady, StartedSoFar, StartsSoFar, PendingIsWhole
<1>3. CASE Unpack
  <2>1. entry = 0 /\ UNCHANGED <<storedVars, entry, stateVars, scopeConf>>
    BY <1>3 DEF Unpack
  <2> QED
    BY <1>1, <1>3, <2>1, UnpackStep DEF storedVars, stateVars, scopeConf, CInv, PendingTypes,
       CommandsTypeOK, StoredAddressesAreSet, ConfiguredHasAddress, EntryIsOwned,
       RunningMeansReady, ActiveIsReady, StartedSoFar, StartsSoFar
<1> QED
  BY <1>2, <1>3 DEF StackTakesMessage

-----------------------------------------------------------------------------
(***************************************************************************)
(* What the commands do to the channels, whatever else goes on.            *)
(***************************************************************************)
ChannelInv ==
    /\ channelState \in [ChannelIds -> {"INIT", "STOPPED", "RUNNING"}]
    /\ pollAddress \in [ChannelIds -> Address \cup {Null}]
    /\ channelIsRunning \in [ChannelIds -> BOOLEAN]
    /\ scopeIsReadyToRun \in BOOLEAN
    /\ ConfiguredHasAddress
    /\ RunningMeansReady

\* What the commands need to know of the channels.
LEMMA ChannelInvOfCInv == CInv => ChannelInv
BY DEF CInv, ChannelInv, CommandsTypeOK

\* A channel with an address runs, and no other stops.
LEMMA SetRunningStep ==
    ASSUME ChannelInv, NEW c \in ChannelIds, SetChannelRunning(c), UNCHANGED pollAddress
    PROVE  /\ ChannelInv'
           /\ channelState'[c] = "RUNNING" \/ pollAddress[c] = Null
           /\ \A d \in ChannelIds : channelState[d] = "RUNNING" => channelState'[d] = "RUNNING"
<1> DEFINE started == SetState(c, "STOPPED", "RUNNING")
<1>1. /\ started \in [ChannelIds -> {"INIT", "STOPPED", "RUNNING"}]
      /\ \A d \in ChannelIds : started[d] = "INIT" <=> channelState[d] = "INIT"
      /\ \A d \in ChannelIds : channelState[d] = "RUNNING" => started[d] = "RUNNING"
      /\ started[c] # "STOPPED"
  BY DEF ChannelInv, SetState
<1> HIDE DEF started
<1>2. /\ Restored(started) \in [ChannelIds -> {"INIT", "STOPPED", "RUNNING"}]
      /\ \A d \in ChannelIds : Restored(started)[d] = "INIT" <=> started[d] = "INIT"
      /\ \A d \in ChannelIds : started[d] = "RUNNING" => Restored(started)[d] = "RUNNING"
  BY <1>1 DEF Restored
<1>3. CASE \E d \in ChannelIds : started[d] = "RUNNING"
  <2>1. channelState' = Restored(started) /\ scopeIsReadyToRun' = TRUE
        /\ channelIsRunning' = channelIsRunning
    BY <1>3 DEF SetChannelRunning, started
  <2> QED
    BY <1>1, <1>2, <2>1 DEF ChannelInv, ConfiguredHasAddress, RunningMeansReady
<1>4. CASE ~\E d \in ChannelIds : started[d] = "RUNNING"
  <2>1. channelState' = started /\ scopeIsReadyToRun' = scopeIsReadyToRun
        /\ channelIsRunning' = channelIsRunning
    BY <1>4 DEF SetChannelRunning, started
  <2> QED
    BY <1>1, <1>4, <2>1 DEF ChannelInv, ConfiguredHasAddress, RunningMeansReady
<1> QED
  BY <1>3, <1>4

\* No other channel stops.
LEMMA SetStoppedStep ==
    ASSUME ChannelInv, NEW c \in ChannelIds, SetChannelStopped(c), UNCHANGED pollAddress
    PROVE  /\ ChannelInv'
           /\ \A d \in ChannelIds \ {c} :
                channelState[d] = "RUNNING" => channelState'[d] = "RUNNING"
<1>1. /\ channelState' \in [ChannelIds -> {"INIT", "STOPPED", "RUNNING"}]
      /\ \A d \in ChannelIds : channelState'[d] = "INIT" <=> channelState[d] = "INIT"
      /\ \A d \in ChannelIds : channelState'[d] = "RUNNING" => channelState[d] = "RUNNING"
      /\ \A d \in ChannelIds \ {c} : channelState'[d] = channelState[d]
  BY DEF ChannelInv, SetChannelStopped, SetState
<1>2. CASE SomeChannelRuns
  BY <1>1, <1>2 DEF SetChannelStopped, ChannelInv, ConfiguredHasAddress, RunningMeansReady
<1>3. CASE ~SomeChannelRuns
  <2>1. /\ channelIsRunning' = [d \in ChannelIds |-> FALSE]
        /\ scopeIsReadyToRun' = FALSE
    BY <1>3 DEF SetChannelStopped
  <2>2. \A d \in ChannelIds : channelState'[d] # "RUNNING"
    BY <1>3 DEF SomeChannelRuns
  <2> QED
    BY <1>1, <2>1, <2>2 DEF ChannelInv, ConfiguredHasAddress, RunningMeansReady
<1> QED
  BY <1>2, <1>3

\* A channel that gets an address.
LEMMA SetAddressStep ==
    ASSUME ChannelInv, NEW c \in ChannelIds, NEW address \in Address,
           SetPollAddress(c, address), UNCHANGED <<channelIsRunning, scopeIsReadyToRun>>
    PROVE  ChannelInv'
BY HostCommandsAssumption DEF ChannelInv, SetPollAddress, SetState, ConfiguredHasAddress,
   RunningMeansReady

\* A poll may halt channels, and start them again.
LEMMA PollStep ==
    ASSUME ChannelInv, PollScope, UNCHANGED pollAddress
    PROVE  ChannelInv'
<1> USE DEF ChannelInv, ConfiguredHasAddress, RunningMeansReady, PollScope
<1>1. CASE UNCHANGED <<channelState, channelIsRunning>>
  BY <1>1
<1>2. CASE scopeIsReadyToRun /\ SafeChannelStates
  BY <1>2 DEF SafeChannelStates
<1>3. CASE scopeIsReadyToRun /\ StopChannels
  BY <1>3 DEF StopChannels
<1>4. CASE scopeIsReadyToRun /\ RestoreChannelStates
  BY <1>4 DEF RestoreChannelStates, Restored
<1> QED
  BY <1>1, <1>2, <1>3, <1>4

-----------------------------------------------------------------------------
(***************************************************************************)
(* The parser, and one entry of a command.                                 *)
(***************************************************************************)
LEMMA WorkStep ==
    ASSUME CInv, stackPc = "command", stackPc' = "command", RunPart
    PROVE  CInv'
<1> USE DEF CInv, EntryIsOwned, ActiveIsReady
<1>0. ChannelInv
  BY ChannelInvOfCInv
<1>1. CASE ParseRunning
  <2>1. /\ storedRunning' \in RunningEntries
        /\ Len(storedRunning') <= AmountOfChannels
    BY <1>1 DEF ParseRunning, RunningIsSafe, EntriesTypeOK
  <2>2. entry' = 1 /\ UNCHANGED <<unpackVars, storedAddress, commandPending, stateVars, scopeConf>>
    BY <1>1 DEF ParseRunning
  <2>3. CommandsTypeOK' /\ EntriesTypeOK' /\ StoredAddressesAreSet' /\ PendingIsWhole'
    BY <2>1, <2>2, HostCommandsAssumption DEF CommandsTypeOK, EntriesTypeOK,
       StoredAddressesAreSet, PendingIsWhole, unpackVars, stateVars, scopeConf
  <2>4. ConfiguredHasAddress' /\ RunningMeansReady' /\ StartedSoFar'
    BY <2>2 DEF ConfiguredHasAddress, RunningMeansReady, StartedSoFar, stateVars, scopeConf
  <2> QED
    BY <2>3, <2>4
<1>2. CASE ParseAddress
  <2>1. /\ storedAddress' \in AddressEntries
        /\ Len(storedAddress') <= AmountOfChannels
        /\ \A i \in 1 .. Len(storedAddress') : storedAddress'[i].address # Null
    BY <1>2 DEF ParseAddress, AddressIsSafe, EntriesTypeOK, StoredAddressesAreSet
  <2>2. entry' = 1 /\ UNCHANGED <<unpackVars, storedRunning, commandPending, stateVars, scopeConf>>
    BY <1>2 DEF ParseAddress
  <2>3. CommandsTypeOK' /\ EntriesTypeOK' /\ StoredAddressesAreSet' /\ PendingIsWhole'
    BY <2>1, <2>2, HostCommandsAssumption DEF CommandsTypeOK, EntriesTypeOK,
       StoredAddressesAreSet, PendingIsWhole, unpackVars, stateVars, scopeConf
  <2>4. ConfiguredHasAddress' /\ RunningMeansReady' /\ StartedSoFar'
    BY <1>2, <2>2 DEF ConfiguredHasAddress, RunningMeansReady, StartedSoFar, stateVars, scopeConf,
       ParseAddress
  <2> QED
    BY <2>3, <2>4
<1>3. CASE RunEntry
  <2> DEFINE c == storedRunning[entry].id
  <2>1. /\ entry \in 1 .. Len(storedRunning)
        /\ Len(storedRunning) \in Nat
        /\ c \in ChannelIds
        /\ storedRunning \in RunningEntries
    <3>1. storedRunning \in RunningEntries /\ Len(storedRunning) \in Nat
      BY LenProperties DEF EntriesTypeOK, RunningEntries
    <3>2. entry \in 1 .. Len(storedRunning)
      BY <1>3 DEF RunEntry, EntryIsInRange
    <3>3. storedRunning[entry] \in [id : Nat, newState : BOOLEAN]
      BY <3>1, <3>2, ElementOfSeq DEF RunningEntries
    <3> QED
      BY <1>3, <3>1, <3>2, <3>3, HostCommandsAssumption DEF RunEntry, EntryIsInRange, ChannelIds
  <2>2. /\ entry' = entry + 1 /\ commandPending = "cf_running"
        /\ UNCHANGED <<unpackVars, storedVars, commandPending, scopeConf>>
        /\ IF storedRunning[entry].newState THEN SetChannelRunning(c) ELSE SetChannelStopped(c)
    BY <1>3 DEF RunEntry
  <2>3. UNCHANGED pollAddress
    BY <2>2 DEF scopeConf
  <2>4. /\ ChannelInv'
        /\ storedRunning[entry].newState => channelState'[c] = "RUNNING" \/ pollAddress[c] = Null
        /\ \A d \in ChannelIds :
             channelState[d] = "RUNNING" /\ (d # c \/ storedRunning[entry].newState)
             => channelState'[d] = "RUNNING"
    <3>1. CASE storedRunning[entry].newState
      <4>1. SetChannelRunning(c)
        BY <2>2, <3>1
      <4> HIDE DEF c
      <4> QED
        BY <1>0, <2>1, <2>3, <3>1, <4>1, SetRunningStep
    <3>2. CASE ~storedRunning[entry].newState
      <4>1. SetChannelStopped(c)
        BY <2>2, <3>2
      <4> HIDE DEF c
      <4> QED
        BY <1>0, <2>1, <2>3, <3>2, <4>1, SetStoppedStep
    <3> QED
      BY <3>1, <3>2
  <2>5. EntriesTypeOK' /\ StoredAddressesAreSet' /\ PendingIsWhole'
    BY <2>2 DEF EntriesTypeOK, StoredAddressesAreSet, PendingIsWhole, unpackVars, storedVars
  <2>6. CommandsTypeOK'
    <3>1. entry' \in 0 .. AmountOfChannels + 1
      BY <2>1, <2>2, HostCommandsAssumption DEF EntriesTypeOK
    <3>2. UNCHANGED <<commandPending, activeChannelId>>
      BY <2>2 DEF scopeConf
    <3> QED
      BY <2>4, <3>1, <3>2 DEF CommandsTypeOK, ChannelInv
  <2>7. StartedSoFar'
    <3> SUFFICES ASSUME NEW i \in 1 .. entry
                 PROVE  /\ storedRunning[i].id \in ChannelIds
                        /\ StartsSoFar(i)' => \/ channelState'[storedRunning[i].id] = "RUNNING"
                                              \/ pollAddress[storedRunning[i].id] = Null
      BY <2>1, <2>2, <2>3 DEF StartedSoFar, storedVars
    <3>1. CASE i = entry
      BY <2>1, <2>2, <2>4, <3>1 DEF StartsSoFar, storedVars
    <3>2. CASE i # entry
      <4>1. i \in 1 .. entry - 1 /\ entry \in i + 1 .. entry' - 1
        BY <2>1, <2>2, <3>2
      <4>2. /\ storedRunning[i].id \in ChannelIds
            /\ StartsSoFar(i) => \/ channelState[storedRunning[i].id] = "RUNNING"
                                 \/ pollAddress[storedRunning[i].id] = Null
        BY <2>2, <4>1 DEF StartedSoFar
      <4>3. StartsSoFar(i)' => StartsSoFar(i) /\ c # storedRunning[i].id
        BY <2>1, <2>2, <4>1 DEF StartsSoFar, storedVars
      <4> HIDE DEF c
      <4> QED
        BY <2>4, <4>2, <4>3
    <3> QED
      BY <3>1, <3>2
  <2> QED
    BY <2>4, <2>5, <2>6, <2>7 DEF ChannelInv
<1>4. CASE AddressEntry
  <2> DEFINE c == storedAddress[entry].id
             a == storedAddress[entry].address
  <2>1. /\ entry \in 1 .. Len(storedAddress)
        /\ Len(storedAddress) \in Nat
        /\ c \in ChannelIds
        /\ a \in Address
    <3>1. storedAddress \in AddressEntries /\ Len(storedAddress) \in Nat
      BY LenProperties DEF EntriesTypeOK, AddressEntries
    <3>2. entry \in 1 .. Len(storedAddress)
      BY <1>4 DEF AddressEntry, EntryIsInRange
    <3>3. storedAddress[entry] \in [id : Nat, address : Address \cup {Null}]
      BY <3>1, <3>2, ElementOfSeq DEF AddressEntries
    <3>4. a # Null
      BY <3>2 DEF StoredAddressesAreSet
    <3> QED
      BY <1>4, <3>1, <3>2, <3>3, <3>4, HostCommandsAssumption
         DEF AddressEntry, EntryIsInRange, ChannelIds
  <2>2. /\ entry' = entry + 1 /\ commandPending = "cf_addr"
        /\ SetPollAddress(c, a)
        /\ UNCHANGED <<unpackVars, storedVars, commandPending, channelIsRunning, scopeIsReadyToRun,
                       activeChannelId>>
    BY <1>4 DEF AddressEntry
  <2>3. ChannelInv'
    <3> HIDE DEF c, a
    <3> QED
      BY <1>0, <2>1, <2>2, SetAddressStep
  <2>4. EntriesTypeOK' /\ StoredAddressesAreSet' /\ PendingIsWhole' /\ StartedSoFar'
    BY <2>2 DEF EntriesTypeOK, StoredAddressesAreSet, PendingIsWhole, StartedSoFar,
       unpackVars, storedVars
  <2>5. entry' \in 0 .. AmountOfChannels + 1
    BY <2>1, <2>2, HostCommandsAssumption DEF EntriesTypeOK
  <2>6. CommandsTypeOK'
    BY <2>2, <2>3, <2>5 DEF CommandsTypeOK, ChannelInv
  <2> QED
    BY <2>3, <2>4, <2>6 DEF ChannelInv
<1> QED
  BY <1>1, <1>2, <1>3, <1>4 DEF RunPart

(***************************************************************************)
(* The end of a command, and the steps that run none.                      *)
(***************************************************************************)
LEMMA EndStep ==
    ASSUME CInv, StackEndsCommand
    PROVE  CInv'
<1>0. ChannelInv
  BY ChannelInvOfCInv
<1>1. stackPc' = "data" /\ active' = scopeIsReadyToRun'
  BY DEF StackEndsCommand, StackRunsCommand
<1>2. /\ commandPending' = None /\ entry' = 0
      /\ UNCHANGED <<unpackVars, storedVars, pollAddress>>
      /\ activeChannelId' \in ChannelIds
      /\ ChannelInv'
  <2> USE <1>0 DEF Done, stateVars, scopeConf, CInv, CommandsTypeOK
  <2>1. CASE RunOne /\ ~RunTrigger
    BY <2>1 DEF RunOne, RunningIsAnswered, AddressIsAnswered, RunAnswered, ChannelInv,
       ConfiguredHasAddress, RunningMeansReady
  <2>2. CASE RunTrigger
    <3>1. activeChannelId' \in ChannelIds
      BY <2>2, HostCommandsAssumption
         DEF RunTrigger, ConfigureTrigger, EntriesTypeOK, ChannelIds
    <3> QED
      BY <2>2, <3>1 DEF RunTrigger, ChannelInv, ConfiguredHasAddress, RunningMeansReady
  <2>3. CASE RunNone
    BY <2>3 DEF RunNone, RunningIsAbandoned, AddressIsAbandoned, RunNothing, ChannelInv,
       ConfiguredHasAddress, RunningMeansReady
  <2>4. CASE RunPoll
    BY <2>4, PollStep DEF RunPoll
  <2> QED
    BY <2>1, <2>2, <2>3, <2>4 DEF StackEndsCommand
<1>3. CommandsTypeOK' /\ ConfiguredHasAddress' /\ RunningMeansReady' /\ ActiveIsReady'
  BY <1>1, <1>2, HostCommandsAssumption DEF CommandsTypeOK, ChannelInv, ActiveIsReady
<1>4. EntriesTypeOK' /\ StoredAddressesAreSet'
  BY <1>2 DEF CInv, EntriesTypeOK, StoredAddressesAreSet, unpackVars, storedVars
<1>5. EntryIsOwned' /\ StartedSoFar' /\ PendingIsWhole'
  BY <1>2 DEF EntryIsOwned, StartedSoFar, PendingIsWhole, None
<1> QED
  BY <1>3, <1>4, <1>5 DEF CInv

\* The scope thread polls while no command runs.
LEMMA PollTurnStep ==
    ASSUME CInv, IInv, ScopePolls
    PROVE  CInv'
<1>1. /\ scopePc = "run" /\ UNCHANGED <<stackPc, active>> /\ PollScope
      /\ UNCHANGED <<unpackVars, storedVars, commandPending, entry, scopeConf>>
  BY DEF ScopePolls, ScopeRuns
<1>2. stackPc # "command"
  BY <1>1 DEF IInv, MutexOwners
<1>3. entry = 0
  BY <1>2 DEF CInv, EntryIsOwned
<1>4. ChannelInv'
  BY <1>1, ChannelInvOfCInv, PollStep DEF scopeConf
<1>5. CommandsTypeOK' /\ ConfiguredHasAddress' /\ RunningMeansReady'
  BY <1>1, <1>4 DEF CInv, CommandsTypeOK, ChannelInv, scopeConf
<1>6. EntriesTypeOK' /\ StoredAddressesAreSet' /\ EntryIsOwned' /\ ActiveIsReady' /\ PendingIsWhole'
  BY <1>1 DEF CInv, EntriesTypeOK, StoredAddressesAreSet, EntryIsOwned, ActiveIsReady,
     PendingIsWhole, PollScope, unpackVars, storedVars
<1>7. StartedSoFar'
  BY <1>1, <1>3 DEF StartedSoFar
<1> QED
  BY <1>5, <1>6, <1>7 DEF CInv

\* The moves of the threads between commands.
LEMMA MoveStep ==
    ASSUME CInv, UNCHANGED commandVars, active' = active,
           stackPc' = "command" => stackPc = "command" \/ entry = 0,
           stackPc = "command" => stackPc' = "command"
    PROVE  CInv'
BY DEF commandVars, unpackVars, storedVars, stateVars, scopeConf, CInv, CommandsTypeOK,
   EntriesTypeOK, StoredAddressesAreSet, ConfiguredHasAddress, EntryIsOwned, RunningMeansReady,
   ActiveIsReady, StartedSoFar, StartsSoFar, PendingIsWhole

\* A command is run with the entries of the last message, if they pass its checks.
KeptIsUnpacked ==
    commandPending = "cf_running" /\ entry # 0 /\ RunningIsSafe(unpackedRunning)
    => storedRunning = unpackedRunning

\* The parser has compared them, and no message is unpacked until the command ends.
LEMMA KeptStep ==
    ASSUME KeptIsUnpacked, [ThreadedNext]_allVars
    PROVE  KeptIsUnpacked'
<1>1. CASE UNCHANGED commandVars
  BY <1>1 DEF commandVars, unpackVars, storedVars, KeptIsUnpacked, RunningIsSafe
<1>2. CASE ScopePolls
  BY <1>2 DEF ScopePolls, unpackVars, storedVars, KeptIsUnpacked, RunningIsSafe
<1>3. CASE StackTakesMessage
  <2>1. CASE Unpack
    BY <2>1 DEF Unpack, KeptIsUnpacked
  <2> QED
    BY <1>1, <1>3, <2>1 DEF StackTakesMessage
<1>4. CASE StackWorksOnCommand
  <2>1. CASE ParseRunning
    BY <2>1 DEF ParseRunning, unpackVars, KeptIsUnpacked, RunningIsSafe
  <2>2. CASE ParseAddress
    BY <2>2 DEF ParseAddress, KeptIsUnpacked
  <2>3. CASE RunEntry
    BY <2>3 DEF RunEntry, EntryIsInRange, unpackVars, storedVars, KeptIsUnpacked, RunningIsSafe
  <2>4. CASE AddressEntry
    BY <2>4 DEF AddressEntry, KeptIsUnpacked
  <2> QED
    BY <1>4, <2>1, <2>2, <2>3, <2>4 DEF StackWorksOnCommand, RunPart
<1>5. CASE StackEndsCommand
  <2>1. entry' = 0
    BY <1>5 DEF StackEndsCommand, RunOne, RunNone, RunPoll, RunningIsAnswered, AddressIsAnswered,
       RunTrigger, RunAnswered, RunningIsAbandoned, AddressIsAbandoned, RunNothing, Done
  <2> QED
    BY <2>1 DEF KeptIsUnpacked
<1> QED
  BY <1>1, <1>2, <1>3, <1>4, <1>5
     DEF ThreadedNext, ScopeThreadMoves, StackThreadMoves, Create, Announce, ThreadsReturn,
         ScopeMoves, StackMoves, allVars

\* Every step keeps the invariant of the commands.
LEMMA CInvStep ==
    ASSUME CInv, IInv, [ThreadedNext]_allVars
    PROVE  CInv'
<1>1. CASE Create
  BY <1>1, MoveStep DEF Create, vars
<1>10. CASE Announce
  BY <1>10, MoveStep DEF Announce, vars
<1>2. CASE ThreadsReturn
  BY <1>2, MoveStep DEF ThreadsReturn, allVars, vars
<1>3. CASE ScopeMoves
  <2>1. UNCHANGED <<stackPc, active, commandVars>>
    BY <1>3 DEF ScopeMoves, ScopeLocksConfig, ScopeIsStopped, ScopeLocksData, ScopeFindsDataBusy,
       ScopeUnlocksConfig
  <2> QED
    BY <2>1, MoveStep
<1>4. CASE ScopePolls
  BY <1>4, PollTurnStep
<1>5. CASE StackMoves
  <2>1. UNCHANGED <<active, commandVars>> /\ stackPc # "command"
    BY <1>5 DEF StackMoves, StackReceives, StackLocksConfig, StackSkipsCommand, StackLocksData,
       StackFindsDataBusy, StackAggregates, StackPacks, StackSends, scopeVars
  <2>2. entry = 0
    BY <2>1 DEF CInv, EntryIsOwned
  <2> QED
    BY <2>1, <2>2, MoveStep
<1>6. CASE StackTakesMessage
  BY <1>6, TakesMessageStep
<1>7. CASE StackWorksOnCommand
  BY <1>7, WorkStep DEF StackWorksOnCommand, vars
<1>8. CASE StackEndsCommand
  BY <1>8, EndStep
<1>9. CASE UNCHANGED allVars
  BY <1>9, MoveStep DEF allVars, vars
<1> QED
  BY <1>1, <1>2, <1>3, <1>4, <1>5, <1>6, <1>7, <1>8, <1>9, <1>10
     DEF ThreadedNext, ScopeThreadMoves, StackThreadMoves

\* The invariant of the commands.
LEMMA CInvHolds == ThreadedSpec => []CInv
<1>1. ThreadedSpec => []IInv
  BY ThreadsImplemented, InvariantHolds, PTL
<1>2. CInv /\ IInv /\ [ThreadedNext]_allVars => CInv'
  BY CInvStep
<1> QED
  BY <1>1, <1>2, InitCInv, PTL DEF ThreadedSpec

\* And what is run is what the last message has asked for.
LEMMA KeptHolds == ThreadedSpec => []KeptIsUnpacked
<1>1. ThreadedInit => KeptIsUnpacked
  BY DEF ThreadedInit, CommandsInit, CommandObjectsInit, KeptIsUnpacked
<1>2. KeptIsUnpacked /\ [ThreadedNext]_allVars => KeptIsUnpacked'
  BY KeptStep
<1> QED
  BY <1>1, <1>2, PTL DEF ThreadedSpec

-----------------------------------------------------------------------------
(***************************************************************************)
(* The states, the ids and the place in a command stay within their types, *)
(* and the trigger never observes a channel that does not exist.           *)
(***************************************************************************)
THEOREM CommandsTyped == ThreadedSpec => []CommandsTypeOK
<1>1. CInv => CommandsTypeOK
  BY DEF CInv
<1> QED
  BY <1>1, CInvHolds, PTL

(***************************************************************************)
(* No poll reads through the address of a channel that has none.           *)
(***************************************************************************)
THEOREM RunningHasAddress == ThreadedSpec => []RunningChannelHasAddress
<1>1. CInv => RunningChannelHasAddress
  BY DEF CInv, CommandsTypeOK, ConfiguredHasAddress, RunningChannelHasAddress
<1> QED
  BY <1>1, CInvHolds, PTL

(***************************************************************************)
(* The pending command has the entries of one message, and all of them.    *)
(***************************************************************************)
THEOREM PendingWhole == ThreadedSpec => []PendingIsWhole
<1>1. CInv => PendingIsWhole
  BY DEF CInv
<1> QED
  BY <1>1, CInvHolds, PTL

(***************************************************************************)
(* Channels that run are polled: the scope thread sees an active scope.    *)
(***************************************************************************)
THEOREM RunningIsPolled == ThreadedSpec => []RunningScopeIsPolled
<1>1. CInv => RunningScopeIsPolled
  BY DEF CInv, ActiveIsReady, RunningMeansReady, RunningScopeIsPolled
<1> QED
  BY <1>1, CInvHolds, PTL

(***************************************************************************)
(* SE_ACK to a CF_RUNNING that passes the checks of                        *)
(* CommandRunning_setAttributes comes only after all the starts of that    *)
(* message have been carried out, and with nothing of it undone meanwhile. *)
(* Of a message that does not pass them it is false (AcknowledgedStartRuns *)
(* is violated): it is acknowledged all the same.                          *)
(***************************************************************************)
THEOREM CheckedStarts == ThreadedSpec => CheckedStartRuns
<1>1. CInv /\ KeptIsUnpacked /\ RunningIsAnswered /\ RunningIsSafe(unpackedRunning)
        => StartsAreDone
  <2> SUFFICES ASSUME CInv, KeptIsUnpacked, RunningIsAnswered, RunningIsSafe(unpackedRunning),
                      NEW i \in 1 .. Len(unpackedRunning), Starts(unpackedRunning, i)
               PROVE  LET c == unpackedRunning[i].id IN
                      channelState[c] = "RUNNING" \/ pollAddress[c] = Null
    BY DEF StartsAreDone
  <2>1. Len(storedRunning) \in Nat
    BY LenProperties DEF CInv, EntriesTypeOK, RunningEntries
  <2>2. entry - 1 = Len(storedRunning) /\ entry # 0 /\ commandPending = "cf_running"
    BY <2>1 DEF RunningIsAnswered, EndsAfter
  <2>3. storedRunning = unpackedRunning
    BY <2>2 DEF KeptIsUnpacked
  <2>4. StartsSoFar(i)
    BY <2>2, <2>3 DEF Starts, StartsSoFar
  <2> QED
    BY <2>2, <2>3, <2>4 DEF CInv, StartedSoFar
<1> QED
  BY <1>1, CInvHolds, KeptHolds, PTL DEF CheckedStartRuns
=============================================================================
