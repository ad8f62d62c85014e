--------------------------- MODULE ScopeSetupProofs ---------------------------
(***************************************************************************)
(* Proofs about the buffers and the announce storage.  That every message  *)
(* fits is arithmetic on the sizes; the invariant only has to say that a   *)
(* stack that is wired was accepted by the builder, and that the storage   *)
(* has the entries of its configuration.                                   *)
(***************************************************************************)
EXTENDS ThreadedScope, NumberProofs

\* ids of two bytes, lengths of four
IdLimit   == 16384
SizeLimit == 33554432

SizesAreUsual(conf) ==
    /\ conf.amountOfChannels < IdLimit
    /\ conf.addresses < IdLimit
    /\ conf.sizeOfChannels < SizeLimit

ConfigType == [amountOfChannels : Nat, sizeOfChannels : Nat, addresses : Nat,
               timestamp : BOOLEAN, logByteStream : BOOLEAN, configMutex : BOOLEAN]

-----------------------------------------------------------------------------
(***************************************************************************)
(* Arithmetic.                                                             *)
(***************************************************************************)
\* a channel takes at most 13 bytes more than its samples, the first at most 10
LEMMA ChannelBytesBound ==
    ASSUME NEW id \in Nat, id < IdLimit, NEW size \in Nat, size < SizeLimit
    PROVE  /\ ChannelBytes(id, size) \in Nat
           /\ ChannelBytes(id, size) <= size * 4 + 13
           /\ id = 0 => ChannelBytes(id, size) <= size * 4 + 10
<1>1. VarintField(id) \in 0 .. 3 /\ (id = 0 => VarintField(id) = 0)
  BY SMT DEF VarintField, VarintWidth, IdLimit
<1>2. VarintWidth(size * 4) \in 1 .. 4
  BY SMT DEF VarintWidth, SizeLimit
<1>3. AnnouncedLength(id, size) \in Nat /\ AnnouncedLength(id, size) < 268435456
  BY SMT DEF IdLimit, SizeLimit, AnnouncedLength, IdSize, WidthOfVarint
<1>4. VarintWidth(AnnouncedLength(id, size)) \in 1 .. 4
  BY SMT, <1>3 DEF VarintWidth
<1> QED
  BY SMT, <1>1, <1>2, <1>4 DEF ChannelBytes, WrittenLength

\* the buffer has room for the data, and for the announcement
LEMMA OutputBufferBounds ==
    ASSUME NEW conf \in ConfigType
    PROVE  /\ OutputBufferSize(conf) >= 45 * conf.addresses + 15
           /\ OutputBufferSize(conf) >=
                conf.amountOfChannels * (conf.sizeOfChannels * 4 + 15) + conf.sizeOfChannels * 4 + 24
           /\ OutputBufferSize(conf) \in Nat
<1> DEFINE n == conf.amountOfChannels
           s == conf.sizeOfChannels
<1>1. n \in Nat /\ s \in Nat /\ conf.addresses \in Nat
  BY SMT DEF ConfigType
<1>2. (s * 4 + 15) * n = n * (s * 4 + 15) /\ n * (s * 4 + 15) \in Nat
  BY SMT, <1>1
<1> QED
  BY SMT, <1>1, <1>2 DEF OutputBufferSize, Larger

\* n channels of at most this size, with what else is in SC_DATA
LEMMA ChannelsFit ==
    ASSUME NEW n \in Nat \ {0}, NEW s \in Nat, NEW bytes \in Nat, bytes <= s * 4 + 13,
           n = 1 => bytes <= s * 4 + 10
    PROVE  n * bytes + 3 <= n * (s * 4 + 15)
<1>1. CASE n = 1
  BY <1>1
<1>2. CASE n # 1
  <2>1. n * bytes <= n * (s * 4 + 13)
    BY TimesMonotone
  <2>2. n * (s * 4 + 15) = n * (s * 4 + 13) + 2 * n
    OBVIOUS
  <2>3. n * (s * 4 + 13) \in Nat /\ n * bytes \in Nat
    OBVIOUS
  <2> QED
    BY <2>1, <2>2, <2>3, <1>2
<1> QED
  BY <1>1, <1>2

\* SC_DATA with full windows fits into the output buffer.
LEMMA DataFits ==
    ASSUME NEW conf \in ConfigType, BuilderAccepts(conf), SizesAreUsual(conf),
           NEW id \in 0 .. conf.amountOfChannels - 1
    PROVE  DataBytes(conf, id) <= OutputBufferSize(conf)
<1>1. PICK n \in Nat \ {0}, s \in Nat : n = conf.amountOfChannels /\ s = conf.sizeOfChannels
  BY SMT DEF ConfigType, BuilderAccepts
<1>2. id \in Nat /\ id < n /\ id < IdLimit /\ s < SizeLimit
  <2>1. n < IdLimit /\ s < SizeLimit
    BY Zenon, <1>1 DEF SizesAreUsual
  <2>2. id \in 0 .. n - 1
    BY Zenon, <1>1
  <2> QED
    BY SMT, <1>1, <2>1, <2>2 DEF IdLimit
<1>3. PICK bytes \in Nat : bytes = ChannelBytes(id, s)
  BY Zenon, <1>1, <1>2, ChannelBytesBound
<1>4. bytes <= s * 4 + 13 /\ (id = 0 => bytes <= s * 4 + 10)
  BY Zenon, <1>1, <1>2, <1>3, ChannelBytesBound
<1>5. n * bytes + 3 <= n * (s * 4 + 15)
  BY SMT, <1>2, <1>4, ChannelsFit
<1>6. PICK width \in 1 .. 4 : width = VarintWidth(s * 4)
  BY SMT, <1>1, <1>2 DEF VarintWidth, SizeLimit
<1>7. DataBytes(conf, id) = 16 + 6 + (1 + width + s * 4) + n * bytes
  BY SMT, <1>1, <1>3, <1>6 DEF DataBytes, TriggerBytes, WidestField, EnumField, TimestampBytes
<1>8. OutputBufferSize(conf) >= n * (s * 4 + 15) + s * 4 + 24 /\ OutputBufferSize(conf) \in Nat
  BY SMT, <1>1, OutputBufferBounds
<1>9. n * bytes \in Nat /\ n * (s * 4 + 15) \in Nat
  BY SMT, <1>1, <1>3
<1> QED
  BY SMT, <1>1, <1>5, <1>6, <1>7, <1>8, <1>9

\* CF_ADDR and CF_RUNNING for all channels fit into the input buffer.
LEMMA RequestsFit ==
    ASSUME NEW conf \in ConfigType, SizesAreUsual(conf),
           NEW id \in 0 .. conf.amountOfChannels - 1
    PROVE  /\ AddressConfigBytes(conf, id) <= InputBufferSize(conf)
           /\ RunningConfigBytes(conf, id) <= InputBufferSize(conf)
<1>1. PICK n \in Nat : n = conf.amountOfChannels
  BY SMT DEF ConfigType
<1>2. n < IdLimit /\ id \in 0 .. n - 1
  BY Zenon, <1>1 DEF SizesAreUsual
<1>3. PICK field \in 0 .. 3 : field = VarintField(id)
  BY SMT, <1>2 DEF VarintField, VarintWidth, IdLimit
<1>4. n * (2 + field + 6 + 2) <= n * 14 /\ n * (2 + field + 2) <= n * 8
  <2>1. 2 + field + 6 + 2 \in Nat /\ 2 + field + 6 + 2 <= 14
    BY SMT
  <2>2. 2 + field + 2 \in Nat /\ 2 + field + 2 <= 8
    BY SMT
  <2> QED
    BY SMT, <2>1, <2>2, TimesMonotone
<1>5. AddressConfigBytes(conf, id) = n * (2 + field + 6 + 2)
  BY SMT, <1>1, <1>3 DEF AddressConfigBytes, WidestField, EnumField
<1>6. RunningConfigBytes(conf, id) = n * (2 + field + 2)
  BY SMT, <1>1, <1>3 DEF RunningConfigBytes, EnumField
<1>7. /\ n * (2 + field + 6 + 2) \in Nat /\ n * (2 + field + 2) \in Nat
      /\ n * 14 \in Nat /\ n * 8 \in Nat
  BY SMT
<1>8. n * 14 <= InputBufferSize(conf) /\ n * 8 <= InputBufferSize(conf) /\ InputBufferSize(conf) \in Nat
  BY SMT, <1>1 DEF InputBufferSize, Larger
<1> QED
  BY SMT, <1>4, <1>5, <1>6, <1>7, <1>8

\* SC_ANNOUNCE with all addresses fits into the output buffer.
LEMMA AnnouncementFits ==
    ASSUME NEW conf \in ConfigType, SizesAreUsual(conf), NEW i \in 1 .. conf.addresses,
           NEW nameLength \in 0 .. MaxLengthOfAnnounceName - 1
    PROVE  AnnouncementBytes(conf, i - 1, nameLength) <= OutputBufferSize(conf)
<1>1. PICK n \in Nat, a \in Nat : n = conf.amountOfChannels /\ a = conf.addresses
  BY SMT DEF ConfigType
<1>2. n < IdLimit /\ a < IdLimit /\ i \in 1 .. a
  BY Zenon, <1>1 DEF SizesAreUsual
<1>3. PICK field \in 0 .. 3 : field = VarintField(i - 1)
  BY SMT, <1>2 DEF VarintField, VarintWidth, IdLimit
<1>4. PICK channels \in 0 .. 3 : channels = VarintField(n)
  BY SMT, <1>2 DEF VarintField, VarintWidth, IdLimit
<1>5. PICK bytes \in Nat : bytes = AddressBytes(i - 1, nameLength) /\ bytes <= 44
  BY SMT, <1>3 DEF AddressBytes, EnumField, WidestField, MaxLengthOfAnnounceName
<1>6. a * bytes <= a * 45 /\ a * bytes \in Nat
  BY SMT, <1>5, TimesMonotone
<1>7. AnnouncementBytes(conf, i - 1, nameLength) = 5 + 5 + channels + a * bytes
  BY SMT, <1>1, <1>4, <1>5, <1>6 DEF AnnouncementBytes
<1>8. OutputBufferSize(conf) >= a * 45 + 15 /\ OutputBufferSize(conf) \in Nat
  BY SMT, <1>1, OutputBufferBounds
<1> QED
  BY SMT, <1>6, <1>7, <1>8

\* So does a log line, but for the smallest buffer.
LEMMA LogFits ==
    ASSUME NEW conf \in ConfigType, BuilderAccepts(conf)
    PROVE  LogLineFits(conf)
<1>1. PICK n \in Nat \ {0}, s \in Nat \ {0}, a \in Nat :
        n = conf.amountOfChannels /\ s = conf.sizeOfChannels /\ a = conf.addresses
  BY SMT DEF ConfigType, BuilderAccepts
<1>2. /\ OutputBufferSize(conf) >= 45 * a + 15
      /\ OutputBufferSize(conf) >= n * (s * 4 + 15) + s * 4 + 24
      /\ OutputBufferSize(conf) \in Nat
  BY SMT, <1>1, OutputBufferBounds
<1>3. n * (s * 4 + 15) >= s * 4 + 15 /\ (n >= 2 => n * (s * 4 + 15) >= 2 * (s * 4 + 15))
  <2>1. s * 4 + 15 \in Nat
    OBVIOUS
  <2>2. (s * 4 + 15) * 1 <= (s * 4 + 15) * n
    BY SMT, <2>1, TimesMonotone
  <2>3. n >= 2 => (s * 4 + 15) * 2 <= (s * 4 + 15) * n
    BY SMT, <2>1, TimesMonotone
  <2> QED
    BY SMT, <2>1, <2>2, <2>3
<1>4. n * (s * 4 + 15) \in Nat
  OBVIOUS
<1>5. CASE a >= 1
  BY SMT, <1>2, <1>5 DEF LogLineFits, LogBytes
<1>6. CASE n >= 2 \/ s >= 2
  BY SMT, <1>2, <1>3, <1>4, <1>6 DEF LogLineFits, LogBytes
<1> QED
  BY SMT, <1>1, <1>5, <1>6 DEF LogLineFits

\* The packer announces the lengths it writes, with the sizes that are supported.
LEMMA SupportedLengthsAgree ==
    ASSUME NEW conf \in ConfigType, LengthsAreSupported(conf)
    PROVE  LengthsAgreeFor(conf)
<1>1. PICK n \in Nat, s \in Nat : n = conf.amountOfChannels /\ s = conf.sizeOfChannels
  BY SMT DEF ConfigType
<1>2. SUFFICES ASSUME NEW id \in 0 .. n - 1
               PROVE  AnnouncedLength(id, s) = WrittenLength(id, s)
  BY Zenon, <1>1 DEF LengthsAgreeFor
<1>3. n <= 16 /\ s \in 1 .. 15 \cup 32 .. 255
  BY Zenon, <1>1 DEF LengthsAreSupported
<1> QED
  BY SMT, <1>3
     DEF AnnouncedLength, WrittenLength, IdSize, WidthOfVarint, VarintField, VarintWidth

-----------------------------------------------------------------------------
(***************************************************************************)
(* Outside of the supported sizes a wired stack announces a wrong length   *)
(* for some channel: the first when the size is wrong, else the one with   *)
(* id 16.                                                                  *)
(***************************************************************************)
THEOREM OtherLengthsDisagree ==
    ASSUME NEW conf \in ConfigType, BuilderAccepts(conf), ~LengthsAreSupported(conf)
    PROVE  ~LengthsAgreeFor(conf)
<1>1. PICK n \in Nat \ {0}, s \in Nat \ {0} : n = conf.amountOfChannels /\ s = conf.sizeOfChannels
  BY SMT DEF ConfigType, BuilderAccepts
<1>2. CASE s \notin 1 .. 15 \cup 32 .. 255
  <2>1. AnnouncedLength(0, s) # WrittenLength(0, s)
    BY SMT, <1>2
       DEF AnnouncedLength, WrittenLength, IdSize, WidthOfVarint, VarintField, VarintWidth
  <2>2. 0 \in 0 .. n - 1
    BY SMT
  <2> QED
    BY Zenon, <1>1, <2>1, <2>2 DEF LengthsAgreeFor
<1>3. CASE s \in 1 .. 15 \cup 32 .. 255
  <2>1. ~(n <= 16)
    BY Zenon, <1>1, <1>3 DEF LengthsAreSupported
  <2>2. AnnouncedLength(16, s) # WrittenLength(16, s)
    BY SMT, <1>3
       DEF AnnouncedLength, WrittenLength, IdSize, WidthOfVarint, VarintField, VarintWidth
  <2>3. 16 \in 0 .. n - 1
    BY SMT, <2>1
  <2> QED
    BY Zenon, <1>1, <2>2, <2>3 DEF LengthsAgreeFor
<1> QED
  BY Zenon, <1>2, <1>3

-----------------------------------------------------------------------------
(***************************************************************************)
(* Powers of two.                                                          *)
(***************************************************************************)
IsPowers(p, n) ==
    /\ p \in [0 .. n -> Nat \ {0}]
    /\ p[0] = 1
    /\ \A i \in 1 .. n : p[i] = 2 * p[i - 1]

\* There are the powers TwoTo takes its value from.
LEMMA PowersExist == \A n \in Nat : \E p : IsPowers(p, n)
<1> DEFINE T == {n \in Nat : \E p : IsPowers(p, n)}
<1>1. 0 \in T
  <2> DEFINE p == [i \in 0 .. 0 |-> 1]
  <2>1. p \in [0 .. 0 -> Nat \ {0}] /\ p[0] = 1
    OBVIOUS
  <2> HIDE DEF p
  <2>2. IsPowers(p, 0)
    BY <2>1 DEF IsPowers
  <2> QED
    BY <2>2
<1>2. ASSUME NEW n \in T PROVE n + 1 \in T
  <2>1. PICK p : IsPowers(p, n)
    OBVIOUS
  <2> DEFINE r == [i \in 0 .. n + 1 |-> IF i = n + 1 THEN 2 * p[n] ELSE p[i]]
  <2>2. r \in [0 .. n + 1 -> Nat \ {0}]
    <3>1. ASSUME NEW i \in 0 .. n PROVE p[i] \in Nat \ {0} /\ 2 * p[i] \in Nat \ {0}
      <4>1. p[i] \in Nat \ {0}
        BY <2>1 DEF IsPowers
      <4> QED
        BY <4>1
    <3>2. ASSUME NEW i \in 0 .. n + 1 PROVE r[i] \in Nat \ {0}
      <4>1. CASE i = n + 1
        <5>1. n \in 0 .. n /\ r[i] = 2 * p[n]
          BY <4>1
        <5> QED
          BY <3>1, <5>1
      <4>2. CASE i # n + 1
        <5>1. i \in 0 .. n /\ r[i] = p[i]
          BY <4>2
        <5> QED
          BY <3>1, <5>1
      <4> QED
        BY <4>1, <4>2
    <3> QED
      BY <3>2
  <2>3. r[0] = 1
    BY <2>1 DEF IsPowers
  <2>4. ASSUME NEW i \in 1 .. n + 1 PROVE r[i] = 2 * r[i - 1]
    <3>1. i - 1 \in 0 .. n /\ i - 1 # n + 1 /\ r[i - 1] = p[i - 1]
      OBVIOUS
    <3>2. CASE i = n + 1
      <4>1. r[i] = 2 * p[n] /\ i - 1 = n
        BY <3>2
      <4> QED
        BY <3>1, <4>1
    <3>3. CASE i # n + 1
      <4>1. i \in 1 .. n /\ r[i] = p[i]
        BY <3>3
      <4> QED
        BY <2>1, <3>1, <4>1 DEF IsPowers
    <3> QED
      BY <3>2, <3>3
  <2> HIDE DEF r
  <2>5. IsPowers(r, n + 1)
    BY <2>2, <2>3, <2>4 DEF IsPowers
  <2> QED
    BY <2>5
<1>3. T \in SUBSET Nat
  OBVIOUS
<1> HIDE DEF T
<1>4. \A n \in Nat : n \in T
  BY <1>1, <1>2, <1>3, InductionOnSet
<1> QED
  BY <1>4 DEF T

\* The powers up to different ends are the same where both have them.
LEMMA PowersAgree ==
    ASSUME NEW m \in Nat, NEW n \in Nat, NEW p, NEW q, IsPowers(p, m), IsPowers(q, n),
           NEW k \in Nat, k <= m, k <= n
    PROVE  p[k] = q[k]
<1> DEFINE T == {i \in Nat : i <= k => p[i] = q[i]}
<1>1. 0 \in T
  BY DEF IsPowers
<1>2. ASSUME NEW i \in T PROVE i + 1 \in T
  <2> SUFFICES ASSUME i + 1 <= k PROVE p[i + 1] = q[i + 1]
    OBVIOUS
  <2>1. i + 1 \in 1 .. m /\ i + 1 \in 1 .. n /\ (i + 1) - 1 = i /\ p[i] = q[i]
    OBVIOUS
  <2> QED
    BY <2>1 DEF IsPowers
<1>3. T \in SUBSET Nat
  OBVIOUS
<1>4. k \in T
  <2> HIDE DEF T
  <2> QED
    BY <1>1, <1>2, <1>3, InductionOnSet
<1> QED
  BY <1>4

\* TwoTo is the last of them.
LEMMA TwoToIsPower ==
    ASSUME NEW n \in Nat
    PROVE  \E p : IsPowers(p, n) /\ TwoTo(n) = p[n]
<1> DEFINE Step(p) == [i \in 0 .. n |-> IF i = 0 THEN 1 ELSE 2 * p[i - 1]]
<1> DEFINE c == CHOOSE p : p = Step(p)
<1>1. TwoTo(n) = c[n]
  BY DEF TwoTo
<1>2. PICK p : IsPowers(p, n)
  BY PowersExist
<1>3. p = Step(p)
  BY <1>2 DEF IsPowers
<1>4. c = Step(c)
  <2>1. \E r : r = Step(r)
    BY <1>3
  <2> HIDE DEF Step
  <2> QED
    BY <2>1, Zenon
<1> HIDE DEF c
<1>5. c[0] = 1 /\ \A i \in 1 .. n : c[i] = 2 * c[i - 1]
  BY <1>4
<1>6. IsPowers(c, n)
  <2> DEFINE T == {i \in Nat : i <= n => c[i] = p[i]}
  <2>1. 0 \in T
    BY <1>2, <1>5 DEF IsPowers
  <2>2. ASSUME NEW i \in T PROVE i + 1 \in T
    <3> SUFFICES ASSUME i + 1 <= n PROVE c[i + 1] = p[i + 1]
      OBVIOUS
    <3>1. i + 1 \in 1 .. n /\ (i + 1) - 1 = i /\ c[i] = p[i]
      OBVIOUS
    <3> QED
      BY <3>1, <1>2, <1>5 DEF IsPowers
  <2>3. T \in SUBSET Nat
    OBVIOUS
  <2>4. \A i \in Nat : i \in T
    <3> HIDE DEF T
    <3> QED
      BY <2>1, <2>2, <2>3, InductionOnSet
  <2>5. \A i \in 0 .. n : c[i] = p[i]
    BY <2>4
  <2>6. c \in [0 .. n -> Nat \ {0}]
    <3>1. DOMAIN c = 0 .. n /\ c = [i \in 0 .. n |-> c[i]]
      BY <1>4
    <3> QED
      BY <1>2, <2>5, <3>1 DEF IsPowers
  <2> QED
    BY <1>5, <2>6 DEF IsPowers
<1> QED
  BY <1>1, <1>6

\* Each power is twice the one before.
LEMMA TwoToFacts ==
    /\ TwoTo(0) = 1
    /\ \A n \in Nat : TwoTo(n) \in Nat /\ TwoTo(n) > 0 /\ TwoTo(n + 1) = 2 * TwoTo(n)
<1>1. TwoTo(0) = 1
  BY TwoToIsPower DEF IsPowers
<1>2. ASSUME NEW n \in Nat
      PROVE  TwoTo(n) \in Nat /\ TwoTo(n) > 0 /\ TwoTo(n + 1) = 2 * TwoTo(n)
  <2>1. PICK p : IsPowers(p, n) /\ TwoTo(n) = p[n]
    BY TwoToIsPower
  <2>2. PICK q : IsPowers(q, n + 1) /\ TwoTo(n + 1) = q[n + 1]
    BY TwoToIsPower
  <2>3. p[n] = q[n]
    BY <2>1, <2>2, PowersAgree
  <2>4. p[n] \in Nat \ {0}
    <3>1. n \in 0 .. n
      OBVIOUS
    <3> QED
      BY <2>1, <3>1 DEF IsPowers
  <2>5. q[n + 1] = 2 * q[n]
    <3>1. n + 1 \in 1 .. n + 1 /\ (n + 1) - 1 = n
      OBVIOUS
    <3> QED
      BY <2>2, <3>1 DEF IsPowers
  <2> QED
    BY <2>1, <2>2, <2>3, <2>4, <2>5
<1> QED
  BY <1>1, <1>2

\* Powers are multiplied by adding their exponents.
LEMMA TwoToSum ==
    ASSUME NEW a \in Nat, NEW b \in Nat
    PROVE  TwoTo(a + b) = TwoTo(a) * TwoTo(b)
<1> DEFINE T == {n \in Nat : TwoTo(a + n) = TwoTo(a) * TwoTo(n)}
<1>1. 0 \in T
  <2>1. a + 0 = a /\ TwoTo(a) * 1 = TwoTo(a)
    BY TwoToFacts
  <2> QED
    BY <2>1, TwoToFacts
<1>2. ASSUME NEW n \in T PROVE n + 1 \in T
  <2>1. a + (n + 1) = (a + n) + 1 /\ a + n \in Nat
    OBVIOUS
  <2>2. TwoTo(a + (n + 1)) = 2 * (TwoTo(a) * TwoTo(n))
    BY <2>1, TwoToFacts
  <2>3. PICK x \in Nat, y \in Nat : x = TwoTo(a) /\ y = TwoTo(n)
    BY TwoToFacts
  <2>4. 2 * (x * y) = x * (2 * y)
    OBVIOUS
  <2>5. TwoTo(n + 1) = 2 * y
    BY <2>3, TwoToFacts
  <2> QED
    BY <2>2, <2>3, <2>4, <2>5
<1>3. T \in SUBSET Nat
  OBVIOUS
<1>4. b \in T
  <2> HIDE DEF T
  <2> QED
    BY <1>1, <1>2, <1>3, InductionOnSet
<1> QED
  BY <1>4

\* Powers grow with their exponents.
LEMMA TwoToMonotone ==
    ASSUME NEW a \in Nat, NEW b \in Nat, a <= b
    PROVE  TwoTo(a) <= TwoTo(b)
<1>1. b - a \in Nat /\ a + (b - a) = b
  OBVIOUS
<1>2. PICK x \in Nat, y \in Nat : x = TwoTo(a) /\ y = TwoTo(b - a) /\ y >= 1
  BY <1>1, TwoToFacts
<1>3. TwoTo(b) = x * y
  BY <1>1, <1>2, TwoToSum
<1>4. x * 1 <= x * y
  BY <1>2, TimesMonotone
<1> QED
  BY <1>2, <1>3, <1>4

-----------------------------------------------------------------------------
(***************************************************************************)
(* The conversion to a float.                                              *)
(***************************************************************************)
\* As many bits as an integer has leave room for the exponent.
LEMMA ExponentExists ==
    ASSUME NEW magnitude \in Nat, magnitude <= TwoTo(4 * BitsPerByte)
    PROVE  \E e \in 0 .. 4 * BitsPerByte : IsExponent(magnitude, e)
<1> DEFINE bits == 4 * BitsPerByte
           T == {e \in Nat : magnitude < TwoTo(SignificantBits + e)}
<1>0. bits \in Nat /\ SignificantBits \in Nat /\ SignificantBits >= 1
  BY PolledValuesAssumption
<1>1. bits \in T
  <2>1. TwoTo(1) = 2
    BY TwoToFacts
  <2>2. TwoTo(1 + bits) = 2 * TwoTo(bits)
    BY <1>0, <2>1, TwoToSum
  <2>3. TwoTo(1 + bits) <= TwoTo(SignificantBits + bits)
    BY <1>0, TwoToMonotone
  <2>4. TwoTo(bits) \in Nat /\ TwoTo(bits) > 0 /\ TwoTo(SignificantBits + bits) \in Nat
    BY <1>0, TwoToFacts
  <2> QED
    BY <1>0, <2>2, <2>3, <2>4
<1>2. PICK e \in T : \A d \in T : e <= d
  <2>1. T \in SUBSET Nat /\ T # {}
    BY <1>1
  <2> HIDE DEF T
  <2> QED
    BY <2>1, LeastElement
<1>3. e \in 0 .. bits
  BY <1>0, <1>1, <1>2
<1>4. e # 0 => magnitude >= TwoTo(SignificantBits + e - 1)
  <2> SUFFICES ASSUME e # 0 PROVE magnitude >= TwoTo(SignificantBits + e - 1)
    OBVIOUS
  <2>1. e - 1 \in Nat /\ SignificantBits + (e - 1) \in Nat
    BY <1>0
  <2>2. e - 1 \notin T
    BY <1>2, <2>1
  <2>3. TwoTo(SignificantBits + (e - 1)) \in Nat
    BY <2>1, TwoToFacts
  <2>4. SignificantBits + e - 1 = SignificantBits + (e - 1)
    BY <1>0
  <2> QED
    BY <2>1, <2>2, <2>3, <2>4
<1> QED
  BY <1>3, <1>4 DEF IsExponent

\* Rounding goes at most half a unit up or down.
LEMMA RoundedIsNear ==
    ASSUME NEW magnitude \in Nat, NEW unit \in Nat, unit > 0
    PROVE  /\ Rounded(magnitude, unit) \in Nat
           /\ 2 * (Rounded(magnitude, unit) - magnitude) <= unit
           /\ 2 * (magnitude - Rounded(magnitude, unit)) <= unit
           /\ unit = 1 => Rounded(magnitude, unit) = magnitude
<1>1. PICK down \in Nat, rest \in Nat :
        /\ down = (magnitude \div unit) /\ rest = (magnitude % unit)
        /\ rest < unit /\ magnitude = unit * down + rest
  <2>1. (magnitude \div unit) \in Nat
    OBVIOUS
  <2> QED
    BY <2>1, Division
<1>2. /\ unit * down \in Nat
      /\ unit * (down + 1) = unit * down + unit
  BY Product
<1> DEFINE up == 2 * rest > unit \/ (2 * rest = unit /\ down % 2 = 1)
<1>4. up => 2 * rest >= unit
  BY <1>1
<1>5. ~up => 2 * rest <= unit
  BY <1>1
<1>6. Rounded(magnitude, unit) = unit * (IF up THEN down + 1 ELSE down)
  BY <1>1 DEF Rounded
<1> HIDE DEF up
<1>7. CASE up
  BY <1>1, <1>2, <1>4, <1>6, <1>7
<1>8. CASE ~up
  BY <1>1, <1>2, <1>5, <1>6, <1>8
<1> QED
  BY <1>7, <1>8

\* An integer of 32 bits becomes the float that is nearest to it.
LEMMA ToFloatIsNear ==
    ASSUME NEW value \in Int,
           value <= TwoTo(4 * BitsPerByte), -value <= TwoTo(4 * BitsPerByte)
    PROVE  IsNear(ToFloat(value), value)
<1> DEFINE magnitude == IF value < 0 THEN -value ELSE value
           exponent  == CHOOSE e \in 0 .. 4 * BitsPerByte : IsExponent(magnitude, e)
           rounded   == Rounded(magnitude, TwoTo(exponent))
           precision == TwoTo(SignificantBits)
           error     == IF rounded < magnitude THEN magnitude - rounded ELSE rounded - magnitude
<1>0. SignificantBits \in Nat /\ precision \in Nat
  BY TwoToFacts, PolledValuesAssumption
<1>1. magnitude \in Nat /\ magnitude <= TwoTo(4 * BitsPerByte)
  OBVIOUS
<1>2. ToFloat(value) = IF value < 0 THEN -rounded ELSE rounded
  BY DEF ToFloat
<1>3. exponent \in 0 .. 4 * BitsPerByte /\ IsExponent(magnitude, exponent)
  <2> HIDE DEF magnitude
  <2>1. \E e \in 0 .. 4 * BitsPerByte : IsExponent(magnitude, e)
    BY <1>1, ExponentExists
  <2> QED
    BY <2>1
<1> HIDE DEF exponent
<1>4. exponent \in Nat /\ TwoTo(exponent) \in Nat /\ TwoTo(exponent) > 0
  BY <1>3, TwoToFacts
<1> HIDE DEF magnitude
<1>5. /\ rounded \in Nat
      /\ 2 * (rounded - magnitude) <= TwoTo(exponent)
      /\ 2 * (magnitude - rounded) <= TwoTo(exponent)
      /\ TwoTo(exponent) = 1 => rounded = magnitude
  BY <1>1, <1>4, RoundedIsNear
<1> HIDE DEF rounded, precision
<1>6. error \in Nat
  BY <1>1, <1>5
<1>7. error * precision <= magnitude
  <2>1. CASE exponent = 0
    <3>1. error = 0
      BY <1>1, <1>5, <2>1, TwoToFacts
    <3> QED
      BY <1>0, <1>1, <3>1
  <2>2. CASE exponent # 0
    <3>1. PICK half \in Nat : half = TwoTo(exponent - 1) /\ TwoTo(exponent) = 2 * half
      <4>1. exponent - 1 \in Nat /\ (exponent - 1) + 1 = exponent
        BY <1>4, <2>2
      <4> QED
        BY <4>1, TwoToFacts
    <3>2. error <= half
      BY <1>1, <1>5, <3>1
    <3>3. precision * error <= precision * half
      BY <1>0, <1>6, <3>2, TimesMonotone
    <3>4. precision * half <= magnitude
      <4>1. SignificantBits + exponent - 1 = SignificantBits + (exponent - 1) /\ exponent - 1 \in Nat
        BY <1>0, <1>4, <2>2
      <4>2. TwoTo(SignificantBits + (exponent - 1)) = precision * half
        BY <1>0, <3>1, <4>1, TwoToSum DEF precision
      <4> QED
        BY <1>3, <2>2, <4>1, <4>2 DEF IsExponent
    <3>5. error * precision = precision * error
      BY <1>0, <1>6
    <3> QED
      BY <1>0, <1>1, <1>6, <3>3, <3>4, <3>5, Product
  <2> QED
    BY <2>1, <2>2
<1>8. /\ (IF ToFloat(value) - value < 0 THEN -(ToFloat(value) - value) ELSE ToFloat(value) - value)
           = error
      /\ (IF value < 0 THEN -value ELSE value) = magnitude
  BY <1>2, <1>5 DEF magnitude
<1> QED
  BY <1>7, <1>8 DEF IsNear, precision

-----------------------------------------------------------------------------
(***************************************************************************)
(* What castDataToFloat cuts out of the word.                              *)
(***************************************************************************)
\* The integer it converts: the low end of the word, with its sign.
CutOut(type, word) ==
    LET size == TwoTo(Width(type))
        low  == word % size
    IN  IF IsSigned(type) /\ low >= TwoTo(Width(type) - 1) THEN low - size ELSE low

\* No variable is wider than a word.
LEMMA WidthFacts ==
    ASSUME NEW type \in DataTypes
    PROVE  /\ Width(type) \in Nat /\ Width(type) - 1 \in Nat
           /\ Width(type) <= 4 * BitsPerByte
BY PolledValuesAssumption, SMT DEF Width

\* No value is larger than what fits into a word, and no two have the same low end.
LEMMA ValuesAreSmall ==
    ASSUME NEW type \in DataTypes
    PROVE  /\ \A v \in Values(type) :
                v \in Int /\ v <= TwoTo(4 * BitsPerByte) /\ -v <= TwoTo(4 * BitsPerByte)
           /\ \A v, w \in Values(type) : v - w < TwoTo(Width(type))
<1>1. PICK size \in Nat, half \in Nat :
        size = TwoTo(Width(type)) /\ half = TwoTo(Width(type) - 1) /\ size = 2 * half /\ half > 0
  <2>1. Width(type) - 1 \in Nat /\ (Width(type) - 1) + 1 = Width(type) /\ Width(type) \in Nat
    BY WidthFacts
  <2> QED
    BY <2>1, TwoToFacts
<1>2. PICK widest \in Nat : widest = TwoTo(4 * BitsPerByte) /\ size <= widest
  <2>1. 4 * BitsPerByte \in Nat
    BY PolledValuesAssumption
  <2> QED
    BY <1>1, <2>1, WidthFacts, TwoToFacts, TwoToMonotone
<1>3. Values(type) \subseteq -half .. half - 1 \/ Values(type) \subseteq 0 .. size - 1
  BY <1>1 DEF Values
<1> QED
  BY <1>1, <1>2, <1>3

\* The integer that is cut out of a word is the variable in it.
LEMMA CutOutIsValue ==
    ASSUME NEW type \in DataTypes, NEW word \in Int
    PROVE  CutOut(type, word) \in Values(type) /\ ValueIn(type, word) = CutOut(type, word)
<1>1. PICK size \in Nat, half \in Nat :
        size = TwoTo(Width(type)) /\ half = TwoTo(Width(type) - 1) /\ size = 2 * half /\ half > 0
  <2>1. Width(type) - 1 \in Nat /\ (Width(type) - 1) + 1 = Width(type) /\ Width(type) \in Nat
    BY WidthFacts
  <2> QED
    BY <2>1, TwoToFacts
<1>2. PICK q \in Int, low \in Nat : low = (word % size) /\ low < size /\ word = size * q + low
  <2>1. size > 0
    BY <1>1
  <2>2. /\ (word \div size) \in Int /\ (word % size) \in Nat /\ (word % size) < size
        /\ word = size * (word \div size) + (word % size)
    BY <2>1, Division
  <2> QED
    BY <2>2
<1>3. CutOut(type, word) = IF IsSigned(type) /\ low >= half THEN low - size ELSE low
  BY <1>1, <1>2 DEF CutOut
<1>4. CutOut(type, word) \in Values(type)
  <2>1. CASE IsSigned(type)
    <3>1. Values(type) = -half .. half - 1
      BY <1>1, <2>1 DEF Values
    <3>2. CutOut(type, word) = IF low >= half THEN low - size ELSE low
      BY <1>3, <2>1
    <3>3. low < 2 * half
      BY <1>1, <1>2
    <3>4. (IF low >= half THEN low - 2 * half ELSE low) \in -half .. half - 1
      BY <3>3
    <3> QED
      BY <1>1, <3>1, <3>2, <3>4
  <2>2. CASE ~IsSigned(type)
    <3>1. Values(type) = 0 .. size - 1
      BY <1>1, <2>2 DEF Values
    <3>2. CutOut(type, word) = low
      BY <1>3, <2>2
    <3>3. low \in 0 .. size - 1
      BY <1>2
    <3> QED
      BY Zenon, <3>1, <3>2, <3>3
  <2> QED
    BY <2>1, <2>2
<1>5. ((word - CutOut(type, word)) % size) = 0
  <2>1. word - low = size * q /\ word - (low - size) = size * (q + 1) /\ q + 1 \in Int
    BY <1>2
  <2>2. ((size * q) % size) = 0 /\ ((size * (q + 1)) % size) = 0
    <3>1. size > 0
      BY <1>1
    <3>2. ((size * q) % size) = 0
      BY <3>1, RemainderOfMultiple
    <3>3. ((size * (q + 1)) % size) = 0
      BY <2>1, <3>1, RemainderOfMultiple
    <3> QED
      BY <3>2, <3>3
  <2> QED
    BY <1>3, <2>1, <2>2
<1>6. ASSUME NEW v \in Values(type), ((word - v) % size) = 0 PROVE v = CutOut(type, word)
  <2>1. v \in Int /\ CutOut(type, word) \in Int
    BY <1>4, ValuesAreSmall
  <2>2. v - CutOut(type, word) < size /\ CutOut(type, word) - v < size
    BY <1>1, <1>4, ValuesAreSmall
  <2>3. size > 0
    BY <1>1
  <2> HIDE DEF CutOut
  <2>4. PICK c \in Int : c = CutOut(type, word)
    BY <2>1
  <2>5. ((word - c) % size) = 0 /\ v - c < size /\ c - v < size
    BY <1>5, <2>2, <2>4
  <2>6. v = c
    BY <1>6, <2>1, <2>3, <2>5, ResidueIsUnique
  <2> QED
    BY <2>4, <2>6
<1> QED
  BY <1>1, <1>4, <1>5, <1>6 DEF ValueIn

\* What is polled is as near to the variable as a float gets.
LEMMA PolledIsNear ==
    ASSUME NEW type \in DataTypes, NEW word \in Words
    PROVE  IsNear(CastDataToFloat(type, word),
                  IF type = "SE_FLOAT" THEN word ELSE ValueIn(type, word))
<1>1. word \in Int
  BY PolledValuesAssumption
<1>2. CASE type = "SE_FLOAT"
  <2>1. CastDataToFloat(type, word) = word
    BY <1>2 DEF CastDataToFloat, IsInteger, IsSigned
  <2>2. PICK precision \in Nat : precision = TwoTo(SignificantBits)
    BY TwoToFacts, PolledValuesAssumption
  <2>3. IsNear(word, word)
    <3>1. word - word = 0 /\ 0 * precision = 0 /\ word - word >= 0
      BY <1>1
    <3>2. (IF word < 0 THEN -word ELSE word) >= 0
      BY <1>1
    <3> QED
      BY <1>1, <2>2, <3>1, <3>2 DEF IsNear
  <2> QED
    BY <1>2, <2>1, <2>3
<1>3. CASE type # "SE_FLOAT"
  <2>1. CastDataToFloat(type, word) = ToFloat(CutOut(type, word))
    BY <1>3 DEF CastDataToFloat, CutOut, IsInteger, IsSigned, DataTypes
  <2>2. IsNear(ToFloat(CutOut(type, word)), CutOut(type, word))
    BY <1>1, CutOutIsValue, ValuesAreSmall, ToFloatIsNear
  <2> QED
    BY <1>1, <1>3, <2>1, <2>2, CutOutIsValue
<1> QED
  BY <1>2, <1>3

\* Both enums number the types alike, and differently each.
LEMMA TypeSurvives ==
    ASSUME NEW type \in DataTypes
    PROVE  TypeAtHost(type) = type /\ TypeFromHost(type) = type
<1>1. \A s, t \in DataTypes : VarType[s] = DataType[t] => s = t
  BY DEF DataTypes, VarType, DataType
<1>2. VarType[type] = DataType[type]
  BY DEF DataTypes, VarType, DataType
<1> QED
  BY <1>1, <1>2 DEF TypeAtHost, TypeFromHost

-----------------------------------------------------------------------------
(***************************************************************************)
(* The invariant.                                                          *)
(***************************************************************************)
\* the lengths names have in the storage
StoredLengths == {0} \cup {Copied(l) : l \in {k \in NameLengths : NameIsTaken(k)}}

StorageEntry ==
    [given : BOOLEAN, type : DataTypes, nameLength : StoredLengths, lastIsZero : BOOLEAN]

SetupInv ==
    /\ stack = "wired" => config \in ConfigType /\ config \in StackConfigs /\ BuilderAccepts(config)
    /\ config.addresses \in Nat
    /\ addresses \in [1 .. config.addresses -> StorageEntry]

\* A stored name is shorter than its entry.
LEMMA StoredLengthsBound == StoredLengths \subseteq 0 .. MaxLengthOfAnnounceName - 1
<1>1. \A l \in NameLengths : Copied(l) \in 0 .. MaxLengthOfAnnounceName - 1
  BY AnnounceStorageAssumption DEF Copied, MaxLengthOfAnnounceName
<1> QED
  BY <1>1 DEF StoredLengths, MaxLengthOfAnnounceName

\* Every step keeps the configuration and the storage in their shape.
LEMMA SetupStep ==
    ASSUME SetupInv, [ThreadedNext]_allVars
    PROVE  SetupInv'
<1>1. CASE UNCHANGED setupVars
  BY <1>1 DEF SetupInv, setupVars, storageVars
<1>2. CASE CreateStack
  <2>1. PICK conf \in StackConfigs :
          /\ stack' = IF BuilderAccepts(conf) THEN "wired" ELSE "refused"
          /\ config' = conf
          /\ CreateStorage(conf.addresses)
    BY <1>2 DEF CreateStack
  <2>2. conf \in ConfigType /\ conf.addresses \in Nat
    BY ScopeSetupAssumption DEF ConfigType
  <2>3. stack' = "wired" => BuilderAccepts(conf)
    BY <2>1
  <2>4. addresses' \in [1 .. conf.addresses -> StorageEntry]
    <3>1. [given : {FALSE}, type : {"SE_FLOAT"}, nameLength : {0}, lastIsZero : BOOLEAN]
            \subseteq StorageEntry
      BY DEF StorageEntry, StoredLengths, DataTypes
    <3>2. addresses' \in [1 .. conf.addresses ->
                            [given : {FALSE}, type : {"SE_FLOAT"}, nameLength : {0},
                             lastIsZero : BOOLEAN]]
      BY <2>1 DEF CreateStorage
    <3> QED
      BY <3>1, <3>2
  <2> QED
    BY <2>1, <2>2, <2>3, <2>4 DEF SetupInv, BuilderAccepts
<1>3. CASE AnnounceAddresses
  <2>1. UNCHANGED <<stack, config>>
    BY <1>3 DEF AnnounceAddresses
  <2>2. CASE UNCHANGED storageVars
    BY <2>1, <2>2 DEF SetupInv, storageVars
  <2>3. CASE ClearAddresses
    <3>1. \A e \in StorageEntry : Emptied(e) \in StorageEntry
      BY DEF Emptied, StorageEntry, StoredLengths, DataTypes
    <3>2. addresses' = [i \in 1 .. config.addresses |-> Emptied(addresses[i])]
      BY <2>3 DEF ClearAddresses, SetupInv
    <3>3. addresses' \in [1 .. config.addresses -> StorageEntry]
      BY <3>1, <3>2 DEF SetupInv
    <3> QED
      BY <2>1, <3>3 DEF SetupInv
  <2>4. CASE AddAnnounceAddress /\ ~UNCHANGED storageVars
    <3>1. PICK type \in DataTypes, nameLength \in NameLengths :
            LET next == configuredAmountOfAddresses + 1 IN
            /\ next \in DOMAIN addresses /\ NameIsTaken(nameLength)
            /\ addresses' = [addresses EXCEPT ![next].given = TRUE, ![next].type = type,
                                              ![next].nameLength = Copied(nameLength)]
      BY <2>4 DEF AddAnnounceAddress
    <3>2. Copied(nameLength) \in StoredLengths
      BY <3>1 DEF StoredLengths
    <3> DEFINE n  == configuredAmountOfAddresses + 1
               e1 == [addresses[n] EXCEPT !.given = TRUE]
               e2 == [e1 EXCEPT !.type = type]
               e3 == [e2 EXCEPT !.nameLength = Copied(nameLength)]
    <3>3. n \in 1 .. config.addresses /\ addresses[n] \in StorageEntry
      BY <3>1 DEF SetupInv
    <3>4. addresses' = [addresses EXCEPT ![n] = e3]
      BY <3>1, <3>3 DEF SetupInv
    <3>5. e3 \in StorageEntry
      <4>1. e1 \in StorageEntry
        BY <3>3 DEF StorageEntry
      <4> HIDE DEF e1
      <4>2. e2 \in StorageEntry
        BY <4>1 DEF StorageEntry
      <4> HIDE DEF e2
      <4> QED
        BY <3>2, <4>2 DEF StorageEntry
    <3> HIDE DEF e3, n
    <3>6. addresses' \in [1 .. config.addresses -> StorageEntry]
      BY <3>3, <3>4, <3>5 DEF SetupInv
    <3> QED
      BY <2>1, <3>6 DEF SetupInv
  <2> QED
    BY <1>3, <2>2, <2>3, <2>4 DEF AnnounceAddresses
<1> QED
  BY <1>1, <1>2, <1>3
     DEF ThreadedNext, Create, Announce, ThreadsReturn, ScopeThreadMoves, StackThreadMoves,
         ScopeMoves, ScopePolls, StackMoves, StackTakesMessage, StackWorksOnCommand,
         StackEndsCommand, allVars

\* The invariant of the setup.
LEMMA SetupInvHolds == ThreadedSpec => []SetupInv
<1>1. ThreadedInit => SetupInv
  BY DEF ThreadedInit, SetupInit, StorageInit, NoConfig, SetupInv
<1> QED
  BY <1>1, SetupStep, PTL DEF ThreadedSpec

-----------------------------------------------------------------------------
(***************************************************************************)
(* No message is cut off, whatever the configuration, as long as ids take  *)
(* two bytes and lengths four.                                             *)
(***************************************************************************)
THEOREM AllMessagesFit ==
    ASSUME \A conf \in StackConfigs : SizesAreUsual(conf)
    PROVE  ThreadedSpec => []MessagesFit
<1>1. SetupInv => MessagesFit
  <2> SUFFICES ASSUME SetupInv, stack = "wired" PROVE MessagesFit
    BY DEF MessagesFit
  <2>1. config \in ConfigType /\ BuilderAccepts(config) /\ SizesAreUsual(config)
    BY DEF SetupInv
  <2>2. \A i \in DOMAIN addresses :
          i \in 1 .. config.addresses
            /\ addresses[i].nameLength \in 0 .. MaxLengthOfAnnounceName - 1
    BY StoredLengthsBound DEF SetupInv, StorageEntry
  <2>3. TriggerConfigBytes <= InputBufferSize(config)
    BY <2>1, SMT
       DEF TriggerConfigBytes, InputBufferSize, Larger, WidestField, EnumField, ConfigType
  <2>4. \A id \in 0 .. config.amountOfChannels - 1 :
          /\ DataBytes(config, id) <= OutputBufferSize(config)
          /\ AddressConfigBytes(config, id) <= InputBufferSize(config)
          /\ RunningConfigBytes(config, id) <= InputBufferSize(config)
    BY <2>1, DataFits, RequestsFit, Zenon
  <2>5. LogLineFits(config)
    BY <2>1, LogFits, Zenon
  <2>6. \A i \in DOMAIN addresses :
          AnnouncementBytes(config, i - 1, addresses[i].nameLength) <= OutputBufferSize(config)
    BY <2>1, <2>2, AnnouncementFits, Zenon
  <2>7. /\ DOMAIN Announced = DOMAIN addresses
        /\ \A i \in DOMAIN addresses :
             Announced[i].id = i - 1 /\ Announced[i].nameLength = addresses[i].nameLength
    BY DEF Announced
  <2> QED
    BY <2>3, <2>4, <2>5, <2>6, <2>7, Zenon DEF MessagesFit
<1> QED
  BY <1>1, SetupInvHolds, PTL

(***************************************************************************)
(* With the supported sizes the host finds each channel where it ends.     *)
(***************************************************************************)
THEOREM SupportedLengths == ThreadedSpec => []LengthsAgree
<1>1. SetupInv => LengthsAgree
  BY SupportedLengthsAgree, Zenon DEF SetupInv, LengthsAgree
<1> QED
  BY <1>1, SetupInvHolds, PTL

(***************************************************************************)
(* An application that uses no name of 29 or 30 characters finds all its   *)
(* names with an end.                                                      *)
(***************************************************************************)
THEOREM NamesEnd ==
    ASSUME \A nameLength \in NameLengths : nameLength # 29 /\ nameLength # 30
    PROVE  ThreadedSpec => []AnnouncedNamesEnd
<1>1. \A l \in StoredLengths : l < MaxLengthOfAnnounceName - 1
  <2>1. \A l \in NameLengths : NameIsTaken(l) => Copied(l) < MaxLengthOfAnnounceName - 1
    BY AnnounceStorageAssumption DEF NameIsTaken, Copied, MaxLengthOfAnnounceName
  <2>2. 0 < MaxLengthOfAnnounceName - 1
    BY DEF MaxLengthOfAnnounceName
  <2> QED
    BY <2>1, <2>2 DEF StoredLengths
<1>2. SetupInv => AnnouncedNamesEnd
  BY <1>1 DEF SetupInv, StorageEntry, AnnouncedNamesEnd
<1> QED
  BY <1>2, SetupInvHolds, PTL

(***************************************************************************)
(* A name of 29 or 30 characters, which is within the documented maximum,  *)
(* is taken, and what is stored of it has no end, unless the byte that     *)
(* nobody writes happens to be zero.                                       *)
(***************************************************************************)
THEOREM LongNamesRunOn ==
    ASSUME NEW nameLength \in {29, 30}, NEW i \in DOMAIN addresses,
           addresses[i].nameLength = Copied(nameLength), ~addresses[i].lastIsZero
    PROVE  NameIsTaken(nameLength) /\ ~AnnouncedNamesEnd
<1>1. NameIsTaken(nameLength) /\ Copied(nameLength) = MaxLengthOfAnnounceName - 1
  BY DEF NameIsTaken, Copied, MaxLengthOfAnnounceName
<1>2. ~(addresses[i].nameLength < MaxLengthOfAnnounceName - 1)
  BY <1>1 DEF MaxLengthOfAnnounceName
<1> QED
  BY <1>1, <1>2 DEF AnnouncedNamesEnd

(***************************************************************************)
(* For every size of a byte, every precision of a float and every word in  *)
(* memory, a channel polls the variable the application has announced.     *)
(***************************************************************************)
THEOREM PolledValues == ThreadedSpec => []PolledValueIsVariable
<1>1. SetupInv => PolledValueIsVariable
  <2> SUFFICES ASSUME SetupInv PROVE PolledValueIsVariable
    OBVIOUS
  <2>1. \A i \in DOMAIN addresses : addresses[i].type \in DataTypes
    BY DEF SetupInv, StorageEntry
  <2>2. ASSUME NEW type \in DataTypes
        PROVE  /\ TypeAtHost(type) = type
               /\ \A word \in Words :
                    IsNear(CastDataToFloat(TypeFromHost(TypeAtHost(type)), word),
                           IF type = "SE_FLOAT" THEN word ELSE ValueIn(type, word))
    BY TypeSurvives, PolledIsNear
  <2> QED
    BY <2>1, <2>2, Zenon DEF PolledValueIsVariable
<1> QED
  BY <1>1, SetupInvHolds, PTL
=============================================================================
