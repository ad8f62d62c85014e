----------------------------- MODULE PolledValues -----------------------------
(***************************************************************************)
(* What a channel makes of the variable it polls.  The application gives   *)
(* the type of a variable when it announces it; the type goes to the host  *)
(* and comes back with CF_ADDR as the number of an enum, once of           *)
(* DataTypes.h and once of the protocol.  Channel_poll then reads a whole  *)
(* word, whatever the type is, cuts the variable out of it and converts it *)
(* to a float (castDataToFloat).                                           *)
(*                                                                         *)
(* The target is little-endian with words of four bytes: the variable is   *)
(* the low end of the word, what lies behind it in memory the rest.  The   *)
(* size of a byte and the precision of a float are constants, 8 and 24 for *)
(* the code.                                                               *)
(***************************************************************************)
EXTENDS Integers

CONSTANTS
    BitsPerByte,
    SignificantBits,  \* of a float
    Words             \* what the memory may hold

\* 2 ^ n; the provers know nothing of powers
TwoTo(n) ==
    LET power[i \in 0 .. n] == IF i = 0 THEN 1 ELSE 2 * power[i - 1]
    IN  power[n]

ASSUME PolledValuesAssumption ==
    /\ BitsPerByte \in Nat \ {0} /\ SignificantBits \in Nat \ {0}
    /\ Words \subseteq 0 .. TwoTo(4 * BitsPerByte) - 1

DataTypes == {"SE_INT8", "SE_INT16", "SE_INT32", "SE_UINT8", "SE_UINT16", "SE_UINT32", "SE_FLOAT"}

\* the numbers of DATA_TYPES, from zero in the order in which they stand there
DataType ==
    [SE_INT8 |-> 0, SE_INT16 |-> 1, SE_INT32 |-> 2,
     SE_UINT8 |-> 3, SE_UINT16 |-> 4, SE_UINT32 |-> 5, SE_FLOAT |-> 6]

\* the numbers of PB_Var_Type
VarType ==
    [SE_INT8 |-> 0, SE_INT16 |-> 1, SE_INT32 |-> 2,
     SE_UINT8 |-> 3, SE_UINT16 |-> 4, SE_UINT32 |-> 5, SE_FLOAT |-> 6]

\* writeAddress: the type the host reads in SC_ANNOUNCE
TypeAtHost(type) == CHOOSE t \in DataTypes : VarType[t] = DataType[type]

\* addressConfigCallback: the type the host names in CF_ADDR
TypeFromHost(type) == CHOOSE t \in DataTypes : DataType[t] = VarType[type]

-----------------------------------------------------------------------------
Width(type) ==
    BitsPerByte * (IF type \in {"SE_INT8", "SE_UINT8"} THEN 1
                   ELSE IF type \in {"SE_INT16", "SE_UINT16"} THEN 2 ELSE 4)

IsSigned(type) == type \in {"SE_INT8", "SE_INT16", "SE_INT32"}

IsInteger(type) == IsSigned(type) \/ type \in {"SE_UINT8", "SE_UINT16", "SE_UINT32"}

\* what a number of this magnitude loses of its end when it becomes a float
IsExponent(magnitude, e) ==
    /\ magnitude < TwoTo(SignificantBits + e)
    /\ e = 0 \/ magnitude >= TwoTo(SignificantBits + e - 1)

\* the multiple of the unit that is nearest, of two the even one
Rounded(magnitude, unit) ==
    LET down == magnitude \div unit
        rest == 2 * (magnitude % unit)
    IN  unit * (IF rest > unit \/ (rest = unit /\ down % 2 = 1) THEN down + 1 ELSE down)

ToFloat(value) ==
    LET magnitude == IF value < 0 THEN -value ELSE value
        exponent  == CHOOSE e \in 0 .. 4 * BitsPerByte : IsExponent(magnitude, e)
        rounded   == Rounded(magnitude, TwoTo(exponent))
    IN  IF value < 0 THEN -rounded ELSE rounded

CastDataToFloatUnsigned(type, word) ==  \* mutation: the sign is lost
    IF ~IsInteger(type) THEN word ELSE ToFloat(word % TwoTo(Width(type)))

\* a float is its word, and whatever is not one of the integer types is read as a float
CastDataToFloat(type, word) ==
    LET size == TwoTo(Width(type))
        low  == word % size
    IN  IF ~IsInteger(type) THEN word
        ELSE ToFloat(IF IsSigned(type) /\ low >= TwoTo(Width(type) - 1) THEN low - size ELSE low)

-----------------------------------------------------------------------------
\* what the application has in a variable of this type
Values(type) ==
    IF IsSigned(type) THEN -TwoTo(Width(type) - 1) .. TwoTo(Width(type) - 1) - 1
                      ELSE 0 .. TwoTo(Width(type)) - 1

\* the variable of the type in the memory that holds this word
ValueIn(type, word) == CHOOSE v \in Values(type) : (word - v) % TwoTo(Width(type)) = 0

\* as near as a float gets, and exact for all that have no more bits than it
IsNear(polled, value) ==
    LET Size(x) == IF x < 0 THEN -x ELSE x
    IN  Size(polled - value) * TwoTo(SignificantBits) <= Size(value)
=============================================================================
