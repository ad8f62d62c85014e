----------------------------- MODULE ThreadedScope -----------------------------
(***************************************************************************)
(* The two threads of ThreadRunner running the commands of HostCommands on *)
(* a stack that ScopeSetup has wired.  The stack thread unpacks messages   *)
(* whether or not it gets the config mutex, and runs the commands only     *)
(* under it; the scope thread polls under both mutexes, and its trigger    *)
(* stops and restarts channels.                                            *)
(*                                                                         *)
(* `active' is what the scope thread reads of the scope.  It is set when a *)
(* command ends: while one runs, nobody can read it.                       *)
(***************************************************************************)
EXTENDS ThreadRunner, HostCommands, ScopeSetup

\* the stack whose threads run here has the channels of HostCommands
ASSUME ThreadedScopeAssumption ==
    \A conf \in StackConfigs :
      conf.configMutex /\ BuilderAccepts(conf) => conf.amountOfChannels = AmountOfChannels

allVars == <<vars, commandVars, setupVars>>

ThreadedInit == Init /\ CommandsInit /\ SetupInit

-----------------------------------------------------------------------------
Create == CreateStack /\ UNCHANGED <<vars, commandVars>>

Announce == AnnounceAddresses /\ UNCHANGED <<vars, commandVars>>

\* without a config mutex both functions return at once
ThreadsReturn == stack = "wired" /\ ~config.configMutex /\ UNCHANGED allVars

\* a turn, or a part of it, that has nothing to do with commands
ScopeMoves ==
    /\ ThreadsRun
    /\ \/ ScopeLocksConfig \/ ScopeIsStopped \/ ScopeLocksData \/ ScopeFindsDataBusy
       \/ ScopeUnlocksConfig
    /\ UNCHANGED <<commandVars, setupVars>>

\* the poll, with what the trigger does to the channels
ScopePolls ==
    /\ ThreadsRun
    /\ ScopeRuns /\ PollScope
    /\ UNCHANGED <<unpackVars, storedVars, commandPending, entry, scopeConf, setupVars>>

StackMoves ==
    /\ ThreadsRun
    /\ \/ StackReceives \/ StackLocksConfig \/ StackSkipsCommand
       \/ StackLocksData \/ StackFindsDataBusy
       \/ StackAggregates \/ StackPacks \/ StackSends
    /\ UNCHANGED <<commandVars, setupVars>>

\* runUnpacker: a message may have arrived, also while another one waits for the mutex
StackTakesMessage ==
    /\ ThreadsRun
    /\ StackUnpacks
    /\ Unpack \/ UNCHANGED commandVars
    /\ pending' = (commandPending' # None)
    /\ UNCHANGED setupVars

\* the parser, or one entry of the command
StackWorksOnCommand ==
    /\ ThreadsRun
    /\ stackPc = "command" /\ RunPart
    /\ UNCHANGED <<vars, setupVars>>

\* the command ends and has pushed its answer
StackEndsCommand ==
    /\ ThreadsRun
    /\ StackRunsCommand
    /\ \/ RunOne /\ events' = Pushed(1)
       \/ RunNone /\ events' = events
       \/ RunPoll /\ \E windows \in 0 .. 1 :
                       /\ scopeIsReadyToRun \/ windows = 0
                       /\ events' = Pushed(windows + 1)
    /\ active' = scopeIsReadyToRun'
    /\ UNCHANGED setupVars

ScopeThreadMoves == ScopeMoves \/ ScopePolls
StackThreadMoves == StackMoves \/ StackTakesMessage \/ StackWorksOnCommand \/ StackEndsCommand

ThreadedNext == Create \/ Announce \/ ThreadsReturn \/ ScopeThreadMoves \/ StackThreadMoves

ThreadedSpec == ThreadedInit /\ [][ThreadedNext]_allVars

\* as in ThreadRunner: both threads are called again and again
ThreadedFairSpec ==
    ThreadedSpec /\ WF_allVars(ScopeThreadMoves) /\ WF_allVars(StackThreadMoves)

-----------------------------------------------------------------------------
CommandsTypeOK ==
    /\ commandPending \in Answered \cup {"cf_running", "cf_addr", "cf_trigger", "ev_poll",
                                         "se_ack", "se_nak", None}
    /\ entry \in 0 .. AmountOfChannels + 1
    /\ channelState \in [ChannelIds -> {"INIT", "STOPPED", "RUNNING"}]
    /\ pollAddress \in [ChannelIds -> Address \cup {Null}]
    /\ channelIsRunning \in [ChannelIds -> BOOLEAN]
    /\ activeChannelId \in ChannelIds
    /\ scopeIsReadyToRun \in BOOLEAN

(***************************************************************************)
(* Channel_poll reads through the address of every channel that runs,      *)
(* also of one the trigger has restarted: no channel runs before it has an *)
(* address, whatever messages the host sends and in whatever order.        *)
(***************************************************************************)
RunningChannelHasAddress ==
    \A c \in ChannelIds : channelState[c] = "RUNNING" => pollAddress[c] # Null

(***************************************************************************)
(* The command that waits for the config mutex is run with the entries of  *)
(* its own message: those of a message that came later, of one that has    *)
(* not decoded or of one before it are not mixed into it.                  *)
(***************************************************************************)
PendingIsWhole ==
    /\ commandPending = "cf_running" => unpackedRunning \in RunningRequests
    /\ commandPending = "cf_addr" => unpackedAddress \in AddressRequests

(***************************************************************************)
(* The scope thread decides by `active' whether to poll; outside of a      *)
(* command that is what the channels and the commands have left.  A scope  *)
(* that is left alone while channels run would never poll them.            *)
(***************************************************************************)
RunningScopeIsPolled ==
    stackPc # "command" =>
      /\ active = scopeIsReadyToRun
      /\ \A c \in ChannelIds : channelState[c] = "RUNNING" => active

(***************************************************************************)
(* What the answer to a CF_RUNNING says.  The last message still lies in   *)
(* unpackedRunning when SE_ACK is pushed: a channel that it was to start   *)
(* and that is not stopped again by a later entry runs, unless it has no   *)
(* address yet.                                                            *)
(***************************************************************************)
Starts(entries, i) ==
    /\ entries[i].newState /\ entries[i].id \in ChannelIds
    /\ \A j \in i + 1 .. Len(entries) : entries[j].id # entries[i].id

StartsAreDone ==
    \A i \in 1 .. Len(unpackedRunning) :
      Starts(unpackedRunning, i) => LET c == unpackedRunning[i].id IN
                                    channelState[c] = "RUNNING" \/ pollAddress[c] = Null

(***************************************************************************)
(* A message that passes the checks of CommandRunning_setAttributes is     *)
(* acknowledged only when all of it has been carried out, although it has  *)
(* waited for the mutex, the trigger has stopped and restarted channels    *)
(* meanwhile, and an entry may be out of range all the same.               *)
(***************************************************************************)
CheckedStartRuns == [][RunningIsAnswered /\ RunningIsSafe(unpackedRunning) => StartsAreDone]_allVars

(***************************************************************************)
(* "If the channels were flagged, their state will be changed when the     *)
(* run() function is executed" (CommandRunning.h): whatever the message,   *)
(* SE_ACK means that its starts have been carried out.  It is not so: a    *)
(* message that fails the checks is answered with SE_ACK too.              *)
(***************************************************************************)
AcknowledgedStartRuns == [][RunningIsAnswered => StartsAreDone]_allVars
=============================================================================
