--------------------------- MODULE AnnounceStorage ---------------------------
(***************************************************************************)
(* The table of the addresses the target offers to the host.  It has a     *)
(* fixed number of entries, and SC_ANNOUNCE sends all of them, with their  *)
(* place as id, also those the application has not filled.                 *)
(*                                                                         *)
(* Of a name only its length matters.  strncpy copies up to 29 characters  *)
(* of it into the 30 of the entry, and pads with zeros up to there: the    *)
(* last byte is never written, and stays as malloc has delivered it.       *)
(***************************************************************************)
EXTENDS PolledValues

CONSTANT NameLengths    \* lengths of the names the application chooses

ASSUME AnnounceStorageAssumption == NameLengths \subseteq Nat

MaxLengthOfAnnounceName == 30

VARIABLES
    addresses,                     \* the entries: [given, type, nameLength, lastIsZero]
    configuredAmountOfAddresses

storageVars == <<addresses, configuredAmountOfAddresses>>

StorageInit == addresses = <<>> /\ configuredAmountOfAddresses = 0

-----------------------------------------------------------------------------
Emptied(address) ==
    [address EXCEPT !.given = FALSE, !.type = "SE_FLOAT", !.nameLength = 0]

\* AnnounceStorage_create; the last byte of each name is what it is
CreateStorage(maxAmountOfAddresses) ==
    /\ addresses' \in [1 .. maxAmountOfAddresses ->
                         [given : {FALSE}, type : {"SE_FLOAT"}, nameLength : {0},
                          lastIsZero : BOOLEAN]]
    /\ configuredAmountOfAddresses' = 0

NameIsTaken(nameLength) == nameLength <= MaxLengthOfAnnounceName

\* what strncpy leaves of the name
Copied(nameLength) ==
    IF nameLength < MaxLengthOfAnnounceName - 1 THEN nameLength ELSE MaxLengthOfAnnounceName - 1

(***************************************************************************)
(* AnnounceStorage_addAnnounceAddress, which refuses an address that is    *)
(* NULL, one too many, and a name that is too long.                        *)
(***************************************************************************)
AddAnnounceAddress ==
    \E addressIsNull \in BOOLEAN, type \in DataTypes, nameLength \in NameLengths :
      LET next == configuredAmountOfAddresses + 1 IN
      IF ~addressIsNull /\ next \in DOMAIN addresses /\ NameIsTaken(nameLength)
      THEN /\ addresses' = [addresses EXCEPT ![next].given = TRUE, ![next].type = type,
                                             ![next].nameLength = Copied(nameLength)]
           /\ configuredAmountOfAddresses' = next
      ELSE UNCHANGED storageVars

\* AnnounceStorage_clearAddresses
ClearAddresses ==
    /\ addresses' = [i \in DOMAIN addresses |-> Emptied(addresses[i])]
    /\ configuredAmountOfAddresses' = 0

-----------------------------------------------------------------------------
\* CommandPackAnnounce run hands every entry to the packer, with its place from zero as id
Announced ==
    [i \in DOMAIN addresses |-> [id |-> i - 1, nameLength |-> addresses[i].nameLength]]
=============================================================================
