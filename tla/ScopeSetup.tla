------------------------------ MODULE ScopeSetup ------------------------------
(***************************************************************************)
(* How the stack comes into being: the application creates it with its     *)
(* configuration (Builders/ScopeFramedStack.c), which also makes the two   *)
(* buffers and the announce storage.  The builder looks at some of the     *)
(* parts it has got (Builders/ScopeBuilder.c) and either wires them, or    *)
(* gives back a runnable without a single runnable in it.  Only a wired    *)
(* stack may be run; addresses may be announced in both.                   *)
(***************************************************************************)
EXTENDS MessageSizes, AnnounceStorage

CONSTANT StackConfigs  \* the configurations the application may come up with

ASSUME ScopeSetupAssumption ==
    StackConfigs \subseteq [amountOfChannels : Nat, sizeOfChannels : Nat, addresses : Nat,
                            timestamp : BOOLEAN,     \* the pointer is not NULL
                            logByteStream : BOOLEAN,
                            configMutex : BOOLEAN]

VARIABLES
    stack,     \* "none", "refused" or "wired"
    config     \* the configuration it has been created with

setupVars == <<stack, config, storageVars>>

NoConfig == [amountOfChannels |-> 0, sizeOfChannels |-> 0, addresses |-> 0,
             timestamp |-> FALSE, logByteStream |-> FALSE, configMutex |-> FALSE]

SetupInit == stack = "none" /\ config = NoConfig /\ StorageInit

-----------------------------------------------------------------------------
\* ScopeBuilder_build.  Output and communicator, which it also asks for, are the ones
\* ScopeFramedStack has made; the input, the storage and the mutexes it does not look at.
BuilderAccepts(conf) ==
    /\ conf.timestamp
    /\ conf.amountOfChannels # 0 /\ conf.sizeOfChannels # 0
    /\ conf.logByteStream

\* ScopeFramedStack_createThreadSafe; without mutexes it is ScopeFramedStack_create.
\* The application that has been refused may try again.
CreateStack ==
    /\ stack # "wired"
    /\ \E conf \in StackConfigs :
         /\ stack' = IF BuilderAccepts(conf) THEN "wired" ELSE "refused"
         /\ config' = conf
         /\ CreateStorage(conf.addresses)

AnnounceAddresses ==
    /\ stack # "none"
    /\ AddAnnounceAddress \/ ClearAddresses
    /\ UNCHANGED <<stack, config>>

\* ScopeThreadRunner_runScope and _runStack do something
ThreadsRun == stack = "wired" /\ config.configMutex

-----------------------------------------------------------------------------
(***************************************************************************)
(* "Max length of an address name" is 30 (AnnounceStorage.h): a name that  *)
(* is accepted ends within its entry, whatever is in the byte nobody       *)
(* writes, since the packer copies it with strcpy.  Names of 29 and 30     *)
(* characters do not.                                                      *)
(***************************************************************************)
AnnouncedNamesEnd ==
    \A i \in DOMAIN addresses :
      addresses[i].nameLength < MaxLengthOfAnnounceName - 1 \/ addresses[i].lastIsZero

(***************************************************************************)
(* A channel that polls a variable the host has found in SC_ANNOUNCE has   *)
(* the value the application sees in it, as near as a float can be: for    *)
(* every type, at both ends of its range, and whatever lies behind the     *)
(* variable in the word that is read.                                      *)
(***************************************************************************)
PolledValueIsVariable ==
    \A i \in {j \in DOMAIN addresses : addresses[j].given} :
      LET type == addresses[i].type IN
      /\ TypeAtHost(type) = type
      /\ \A word \in Words :
           IsNear(CastDataToFloat(TypeFromHost(TypeAtHost(type)), word),
                  IF type = "SE_FLOAT" THEN word ELSE ValueIn(type, word))

(***************************************************************************)
(* Every message fits into the buffer that was made for it, for each       *)
(* configuration the builder accepts: full windows with a trigger, an      *)
(* announcement of all the addresses, a log line, and the requests of the  *)
(* host with an entry for every channel.                                   *)
(* A log line of 46 characters or more is too long for the smallest of all *)
(* buffers, one channel with one sample and no address.                    *)
(***************************************************************************)
LogLineFits(conf) ==
    \/ LogBytes <= OutputBufferSize(conf)
    \/ conf.amountOfChannels = 1 /\ conf.sizeOfChannels = 1 /\ conf.addresses = 0

MessagesFit ==
    stack = "wired" =>
      /\ \A id \in 0 .. config.amountOfChannels - 1 :
           /\ DataBytes(config, id) <= OutputBufferSize(config)
           /\ AddressConfigBytes(config, id) <= InputBufferSize(config)
           /\ RunningConfigBytes(config, id) <= InputBufferSize(config)
      /\ TriggerConfigBytes <= InputBufferSize(config)
      /\ LogLineFits(config)
      /\ \A i \in DOMAIN Announced :
           AnnouncementBytes(config, Announced[i].id, Announced[i].nameLength)
             <= OutputBufferSize(config)

(***************************************************************************)
(* "Length of data: length * 4 for float data ...": the length the packer  *)
(* announces for a channel is the one of what it writes then, so that the  *)
(* host finds the next field where it looks for it.                        *)
(* getWidthOfVarint counts four bits to a byte where the encoding has      *)
(* seven, and is asked for the number of samples where the number of bytes *)
(* is written; the two agree for the sizes below and up to 16 channels,    *)
(* and for no others.                                                      *)
(***************************************************************************)
LengthsAgreeFor(conf) ==
    \A id \in 0 .. conf.amountOfChannels - 1 :
      AnnouncedLength(id, conf.sizeOfChannels) = WrittenLength(id, conf.sizeOfChannels)

LengthsAreSupported(conf) ==
    conf.amountOfChannels <= 16 /\ conf.sizeOfChannels \in 1 .. 15 \cup 32 .. 255

LengthsAgree ==
    stack = "wired" /\ LengthsAreSupported(config) => LengthsAgreeFor(config)

(***************************************************************************)
(* The same for every configuration the builder accepts, as the comment in *)
(* writeChannel has it: "inner length of data calculated with              *)
(* getWidthOfVarint()".  The code does not keep it.                        *)
(***************************************************************************)
EveryLengthAgrees == stack = "wired" => LengthsAgreeFor(config)
=============================================================================
