---------------------------- MODULE ThreadRunner ----------------------------
(***************************************************************************)
(* The two threads of the thread safe stack, Builders/ScopeThreadRunner.c: *)
(* the scope thread calls ScopeThreadRunner_runScope again and again, the  *)
(* stack thread ScopeThreadRunner_runStack.  They share the scope, which   *)
(* configMutex and dataMutex protect, and the event queue of the           *)
(* controller, into which a poll pushes and from which the stack pops.     *)
(*                                                                         *)
(* Both mutexes are only tried (lock with timeout 0): a thread that does   *)
(* not get one skips the part of its turn that needs it.  A turn is split  *)
(* where the other thread can be seen: at the locks and unlocks, and       *)
(* between the runnables.                                                  *)
(***************************************************************************)
EXTENDS Naturals

CONSTANT MaxEvents    \* events the queue of the controller takes

ASSUME ThreadRunnerAssumption == MaxEvents \in Nat \ {0}

VARIABLES
    scopePc,       \* where the scope thread is in ScopeThreadRunner_runScope
    stackPc,       \* where the stack thread is in ScopeThreadRunner_runStack
    configMutex,   \* the thread that holds it, or "free"
    dataMutex,
    active,        \* scope.isRunning or scope.isReadyToRun
    pending,       \* Controller_commandPending
    events         \* number of events in the queue of the controller

scopeVars == <<scopePc, configMutex, dataMutex, active, events>>
vars == <<scopePc, stackPc, configMutex, dataMutex, active, pending, events>>

ScopePcs == {"idle", "locked", "run", "unlock"}
StackPcs == {"idle", "unpack", "check", "command", "data", "aggregate", "pack", "send"}
Owners   == {"free", "scope", "stack"}

Init ==
    /\ scopePc = "idle" /\ stackPc = "idle"
    /\ configMutex = "free" /\ dataMutex = "free"
    /\ active = FALSE /\ pending = FALSE
    /\ events = 0

-----------------------------------------------------------------------------
(***************************************************************************)
(* ScopeThreadRunner_runScope.                                             *)
(***************************************************************************)
ScopeLocksConfig ==
    /\ scopePc = "idle" /\ configMutex = "free"
    /\ scopePc' = "locked" /\ configMutex' = "scope"
    /\ UNCHANGED <<stackPc, dataMutex, active, pending, events>>

ScopeIsStoppedAndReturns ==  \* mutation: returns without giving the config mutex back
    /\ scopePc = "locked" /\ ~active
    /\ scopePc' = "idle"
    /\ UNCHANGED <<stackPc, configMutex, dataMutex, active, pending, events>>

ScopeIsStopped ==
    /\ scopePc = "locked" /\ ~active
    /\ scopePc' = "unlock"
    /\ UNCHANGED <<stackPc, configMutex, dataMutex, active, pending, events>>

ScopeLocksDataAndDropsConfig ==  \* mutation: the config mutex is given back too early
    /\ scopePc = "locked" /\ active /\ dataMutex = "free"
    /\ scopePc' = "run" /\ dataMutex' = "scope" /\ configMutex' = "free"
    /\ UNCHANGED <<stackPc, active, pending, events>>

ScopeLocksData ==
    /\ scopePc = "locked" /\ active /\ dataMutex = "free"
    /\ scopePc' = "run" /\ dataMutex' = "scope"
    /\ UNCHANGED <<stackPc, configMutex, active, pending, events>>

ScopeFindsDataBusy ==
    /\ scopePc = "locked" /\ active /\ dataMutex # "free"
    /\ scopePc' = "unlock"
    /\ UNCHANGED <<stackPc, configMutex, dataMutex, active, pending, events>>

\* the queue takes no more than MaxEvents
Pushed(n) == IF events + n <= MaxEvents THEN events + n ELSE MaxEvents

\* scope.runScope: a poll, which may push an event; then the data mutex is given back
ScopeRuns ==
    /\ scopePc = "run"
    /\ \E windows \in 0 .. 1 : events' = Pushed(windows)
    /\ scopePc' = "unlock" /\ dataMutex' = "free"
    /\ UNCHANGED <<stackPc, configMutex, active, pending>>

ScopeUnlocksConfig ==
    /\ scopePc = "unlock"
    /\ scopePc' = "idle" /\ configMutex' = "free"
    /\ UNCHANGED <<stackPc, dataMutex, active, pending, events>>

ScopeThread ==
    \/ ScopeLocksConfig \/ ScopeIsStopped \/ ScopeLocksData \/ ScopeFindsDataBusy
    \/ ScopeRuns \/ ScopeUnlocksConfig

-----------------------------------------------------------------------------
(***************************************************************************)
(* ScopeThreadRunner_runStack.                                             *)
(***************************************************************************)
\* runCommunicationRx
StackReceives ==
    /\ stackPc = "idle"
    /\ stackPc' = "unpack"
    /\ UNCHANGED <<scopeVars, pending>>

\* runUnpacker: a command that has arrived becomes the pending one
StackUnpacks ==
    /\ stackPc = "unpack"
    /\ pending' \in {pending, TRUE}
    /\ stackPc' = "check"
    /\ UNCHANGED scopeVars

StackLocksConfigUnchecked ==  \* mutation: the result of lock is not looked at
    /\ stackPc = "check" /\ pending
    /\ stackPc' = "command" /\ configMutex' = "stack"
    /\ UNCHANGED <<scopePc, dataMutex, active, pending, events>>

StackLocksConfig ==
    /\ stackPc = "check" /\ pending /\ configMutex = "free"
    /\ stackPc' = "command" /\ configMutex' = "stack"
    /\ UNCHANGED <<scopePc, dataMutex, active, pending, events>>

StackSkipsCommand ==
    /\ stackPc = "check"
    /\ ~pending \/ configMutex # "free"
    /\ stackPc' = "data"
    /\ UNCHANGED <<scopeVars, pending>>

\* runCommandParser: the command may start or stop the scope, and most push an answer,
\* CommandPoll after the SC_DATA that its poll may push; then the config mutex is given back
StackRunsCommand ==
    /\ stackPc = "command"
    /\ active' \in BOOLEAN
    /\ \E answers \in 0 .. 2 : events' = Pushed(answers)
    /\ pending' = FALSE
    /\ stackPc' = "data" /\ configMutex' = "free"
    /\ UNCHANGED <<scopePc, dataMutex>>

StackLocksData ==
    /\ stackPc = "data" /\ dataMutex = "free"
    /\ stackPc' = "aggregate" /\ dataMutex' = "stack"
    /\ UNCHANGED <<scopePc, configMutex, active, pending, events>>

StackFindsDataBusy ==
    /\ stackPc = "data" /\ dataMutex # "free"
    /\ stackPc' = "idle"
    /\ UNCHANGED <<scopeVars, pending>>

StackAggregatesUnchecked ==  \* mutation: pops without asking whether the queue is empty
    /\ stackPc = "aggregate"
    /\ events' \in {events, events - 1}
    /\ stackPc' = "pack"
    /\ UNCHANGED <<scopePc, configMutex, dataMutex, active, pending>>

\* runDataAggregator: pops an event when the packer is ready and the host has answered
StackAggregates ==
    /\ stackPc = "aggregate"
    /\ events' \in {events, IF events > 0 THEN events - 1 ELSE events}
    /\ stackPc' = "pack"
    /\ UNCHANGED <<scopePc, configMutex, dataMutex, active, pending>>

\* runPacker
StackPacks ==
    /\ stackPc = "pack"
    /\ stackPc' = "send"
    /\ UNCHANGED <<scopeVars, pending>>

\* runCommunicationTx; then the data mutex is given back
StackSends ==
    /\ stackPc = "send"
    /\ stackPc' = "idle" /\ dataMutex' = "free"
    /\ UNCHANGED <<scopePc, configMutex, active, pending, events>>

StackThread ==
    \/ StackReceives \/ StackUnpacks \/ StackLocksConfig \/ StackSkipsCommand
    \/ StackRunsCommand \/ StackLocksData \/ StackFindsDataBusy
    \/ StackAggregates \/ StackPacks \/ StackSends

Next == ScopeThread \/ StackThread

Spec == Init /\ [][Next]_vars

(***************************************************************************)
(* Fairness: both threads are called again and again.  Nothing in the code *)
(* says more: as a mutex is only tried, the other thread may hold it at    *)
(* every try, and no property below excludes that.                         *)
(***************************************************************************)
Fairness == WF_vars(ScopeThread) /\ WF_vars(StackThread)

FairSpec == Spec /\ Fairness

-----------------------------------------------------------------------------
FlagsTypeOK == active \in BOOLEAN /\ pending \in BOOLEAN

TypeOK ==
    /\ scopePc \in ScopePcs
    /\ stackPc \in StackPcs
    /\ configMutex \in Owners
    /\ dataMutex \in Owners
    /\ FlagsTypeOK
    /\ events \in 0 .. MaxEvents

(***************************************************************************)
(* "Lock the config mutex so the stack thread doesn't overwrite the scope  *)
(* config while running" and "so no new data is put into the output        *)
(* streams while data is still being processed": a poll never overlaps a   *)
(* command, nor the packing of a message.  ScopeCore takes each of them as *)
(* one step because of this.                                               *)
(***************************************************************************)
Packing == stackPc \in {"aggregate", "pack", "send"}

ScopeAccessIsExclusive == scopePc = "run" => stackPc # "command" /\ ~Packing

(***************************************************************************)
(* The scope thread reads isRunning and isReadyToRun before it gets the    *)
(* data mutex; what it has read is still true when it polls.               *)
(***************************************************************************)
PollsOnlyActiveScope == scopePc = "run" => active

(***************************************************************************)
(* A mutex that is held is given back, on every way through a turn, also   *)
(* when the scope has stopped or the data mutex is busy.  Whoever tries    *)
(* for it can then get it; a mutex kept once would silence both threads.   *)
(***************************************************************************)
MutexesAreGivenBack ==
    /\ configMutex # "free" ~> configMutex = "free"
    /\ dataMutex # "free" ~> dataMutex = "free"
=============================================================================
