---------------------------- MODULE FrameProofs ----------------------------
(***************************************************************************)
(* What the frames of FramedIO are made of: the checksum, which both sides *)
(* add up byte by byte, and the parts of an encoded frame.                 *)
(***************************************************************************)
EXTENDS Frames, NumberProofs, SequenceTheorems

\* A word is a number of 16 bits; the provers see no more of it than this.
LEMMA WordFacts == \A w : w \in Word <=> w \in Nat /\ w < 65536
BY DEF Word

\* What the provers need of the two types most often.
LEMMA Naturals8And16 == Byte \subseteq Nat /\ Word \subseteq Nat /\ 0 \in Word
BY WordFacts DEF Byte

\* The sum is kept in 16 bits.
LEMMA ModType == ASSUME NEW a \in Nat PROVE (a % 65536) \in Word
<1>1. (a % 65536) \in Nat /\ (a % 65536) < 65536
  OBVIOUS
<1> QED
  BY <1>1, WordFacts

\* A byte fits into the 16 bits of the sum.
LEMMA BytesAreWords == Byte \subseteq Word
<1> SUFFICES ASSUME NEW b \in Byte PROVE b \in Word
  OBVIOUS
<1>1. b \in Nat /\ 0 <= b /\ b < 65536
  BY DEF Byte
<1>2. (b % 65536) = b
  BY <1>1
<1>3. (b % 65536) \in Word
  BY <1>1, ModType
<1> QED
  BY <1>2, <1>3

\* The cut to 16 bits leaves a sum that fits alone.
LEMMA ModOfWord == ASSUME NEW a \in Word PROVE (a % 65536) = a
<1>1. a \in Nat /\ 0 <= a /\ a < 65536
  BY WordFacts
<1> QED
  BY <1>1

\* Sums that are cut at every step are associative.
LEMMA ModOfSums ==
    ASSUME NEW a \in Nat, NEW b \in Nat, NEW c \in Nat
    PROVE  ((((a + b) % 65536) + c) % 65536) = ((a + ((b + c) % 65536)) % 65536)
<1>1. ASSUME NEW x \in Nat, NEW y \in Nat PROVE (((x % 65536) + y) % 65536) = ((x + y) % 65536)
  OBVIOUS
<1>2. ((((a + b) % 65536) + c) % 65536) = (((a + b) + c) % 65536)
  BY <1>1
<1>3. ((((b + c) % 65536) + a) % 65536) = (((b + c) + a) % 65536)
  BY <1>1
<1>4. ((b + c) % 65536) \in Nat
  OBVIOUS
<1> QED
  BY <1>2, <1>3, <1>4

\* The partial sums of the first n bytes of a payload, as SumOf has them
IsSumUpto(s, p, n) ==
    /\ s \in [0 .. n -> Word]
    /\ s[0] = 0
    /\ \A i \in 1 .. n : s[i] = (s[i - 1] + p[i]) % 65536

IsSumOf(s, p) == IsSumUpto(s, p, Len(p))

\* There are the partial sums SumOf takes its value from, for every payload.
LEMMA SumsExist ==
    ASSUME NEW p \in Seq(Byte)
    PROVE  \E s : IsSumOf(s, p)
<1> DEFINE T == {n \in Nat : n <= Len(p) => \E s : IsSumUpto(s, p, n)}
<1>1. 0 \in T
  <2> DEFINE z == [i \in 0 .. 0 |-> 0]
  <2>1. z \in [0 .. 0 -> Word] /\ z[0] = 0
    BY WordFacts
  <2> HIDE DEF z
  <2>2. IsSumUpto(z, p, 0)
    BY <2>1 DEF IsSumUpto
  <2>3. \E s : IsSumUpto(s, p, 0)
    BY <2>2
  <2> QED
    BY <2>3
<1>2. ASSUME NEW n \in T PROVE n + 1 \in T
  <2> SUFFICES ASSUME n + 1 <= Len(p) PROVE \E s : IsSumUpto(s, p, n + 1)
    BY DEF T
  <2>0. n \in Nat /\ n <= Len(p) /\ n + 1 \in 1 .. Len(p)
    OBVIOUS
  <2>1. PICK s : IsSumUpto(s, p, n)
    BY <2>0
  <2> DEFINE v == (s[n] + p[n + 1]) % 65536
  <2> DEFINE r == [i \in 0 .. n + 1 |-> IF i = n + 1 THEN v ELSE s[i]]
  <2>2. v \in Word
    <3>1. s[n] \in Nat /\ p[n + 1] \in Nat
      <4>1. n \in 0 .. n
        BY <2>0
      <4>2. s[n] \in Word
        BY <4>1, <2>1 DEF IsSumUpto
      <4>3. p[n + 1] \in Byte
        BY <2>0
      <4> QED
        BY <4>2, <4>3, Naturals8And16
    <3> QED
      BY <3>1, ModType
  <2> HIDE DEF v
  <2>3. r \in [0 .. n + 1 -> Word]
    BY <2>0, <2>1, <2>2 DEF IsSumUpto
  <2>4. r[0] = 0
    BY <2>0, <2>1 DEF IsSumUpto
  <2>5. ASSUME NEW i \in 1 .. n + 1 PROVE r[i] = (r[i - 1] + p[i]) % 65536
    <3>1. CASE i = n + 1
      <4>1. i - 1 = n /\ i - 1 \in 0 .. n + 1 /\ i \in 0 .. n + 1 /\ n # n + 1
        BY <3>1, <2>0
      <4>2. r[i] = v /\ r[i - 1] = s[n]
        BY <4>1, <3>1
      <4> QED
        BY <4>2, <3>1 DEF v
    <3>2. CASE i # n + 1
      <4>1. i \in 1 .. n /\ i - 1 \in 0 .. n + 1 /\ i \in 0 .. n + 1 /\ i - 1 # n + 1
        BY <3>2, <2>0
      <4>2. r[i] = s[i] /\ r[i - 1] = s[i - 1]
        BY <4>1, <3>2
      <4> QED
        BY <4>1, <4>2, <2>1 DEF IsSumUpto
    <3> QED
      BY <3>1, <3>2
  <2> HIDE DEF r
  <2>6. IsSumUpto(r, p, n + 1)
    BY <2>3, <2>4, <2>5 DEF IsSumUpto
  <2> QED
    BY <2>6
<1>3. Len(p) \in T
  <2>1. T \in SUBSET Nat
    OBVIOUS
  <2> HIDE DEF T
  <2> QED
    BY <1>1, <1>2, <2>1, InductionOnSet
<1> QED
  BY <1>3 DEF IsSumOf

\* SumOf is the last of the partial sums; TLC computes it, here it is defined by them.
LEMMA SumOfIsSum ==
    ASSUME NEW p \in Seq(Byte)
    PROVE  \E s : IsSumOf(s, p) /\ SumOf(p) = s[Len(p)]
<1> DEFINE Step(s) == [i \in 0 .. Len(p) |-> IF i = 0 THEN 0 ELSE (s[i - 1] + p[i]) % 65536]
<1> DEFINE c == CHOOSE s : s = Step(s)
<1>1. SumOf(p) = c[Len(p)]
  BY DEF SumOf
<1>2. PICK s : IsSumOf(s, p)
  BY SumsExist
<1>3. s = Step(s)
  BY <1>2 DEF IsSumOf, IsSumUpto
<1>4. c = Step(c)
  <2>1. \E r : r = Step(r)
    BY <1>3
  <2> HIDE DEF Step
  <2> QED
    BY <2>1, Zenon
<1> HIDE DEF c
<1>5. c[0] = 0 /\ \A i \in 1 .. Len(p) : c[i] = (c[i - 1] + p[i]) % 65536
  BY <1>4
<1>6. \A i \in 0 .. Len(p) : c[i] = s[i]
  <2> DEFINE T == {n \in Nat : n <= Len(p) => c[n] = s[n]}
  <2>1. 0 \in T
    BY <1>5, <1>2 DEF IsSumOf, IsSumUpto
  <2>2. ASSUME NEW n \in T PROVE n + 1 \in T
    <3> SUFFICES ASSUME n + 1 <= Len(p) PROVE c[n + 1] = s[n + 1]
      OBVIOUS
    <3>1. n + 1 \in 1 .. Len(p) /\ (n + 1) - 1 = n /\ c[n] = s[n]
      OBVIOUS
    <3> QED
      BY <3>1, <1>5, <1>2 DEF IsSumOf, IsSumUpto
  <2>3. \A n \in Nat : n \in T
    <3>1. T \in SUBSET Nat
      OBVIOUS
    <3> HIDE DEF T
    <3> QED
      BY <2>1, <2>2, <3>1, InductionOnSet
  <2> QED
    BY <2>3
<1> QED
  BY <1>1, <1>2, <1>6

\* Two payloads that begin alike have the same sums there.
LEMMA SumsAgree ==
    ASSUME NEW p \in Seq(Byte), NEW q \in Seq(Byte), NEW s, NEW t,
           IsSumOf(s, p), IsSumOf(t, q),
           NEW k \in Nat, k <= Len(p), k <= Len(q), \A i \in 1 .. k : p[i] = q[i]
    PROVE  s[k] = t[k]
<1> DEFINE T == {n \in Nat : n <= k => s[n] = t[n]}
<1>1. 0 \in T
  BY DEF IsSumOf, IsSumUpto
<1>2. ASSUME NEW n \in T PROVE n + 1 \in T
  <2> SUFFICES ASSUME n + 1 <= k PROVE s[n + 1] = t[n + 1]
    OBVIOUS
  <2>1. n + 1 \in 1 .. Len(p) /\ n + 1 \in 1 .. Len(q) /\ n + 1 \in 1 .. k /\ (n + 1) - 1 = n /\ s[n] = t[n]
    OBVIOUS
  <2>2. p[n + 1] = q[n + 1]
    BY <2>1
  <2> QED
    BY <2>1, <2>2 DEF IsSumOf, IsSumUpto
<1>3. k \in T
  <2>1. T \in SUBSET Nat
    OBVIOUS
  <2> HIDE DEF T
  <2> QED
    BY <1>1, <1>2, <2>1, InductionOnSet
<1> QED
  BY <1>3

\* A checksum has 16 bits.
LEMMA SumOfType ==
    ASSUME NEW p \in Seq(Byte)
    PROVE  SumOf(p) \in Word
BY SumOfIsSum DEF IsSumOf, IsSumUpto

\* The checksum of an empty payload is zero.
LEMMA SumOfEmpty == SumOf(<<>>) = 0
<1> DEFINE e == <<>>
<1>1. e \in Seq(Byte) /\ Len(e) = 0
  OBVIOUS
<1> HIDE DEF e
<1>2. PICK s : IsSumOf(s, e) /\ SumOf(e) = s[Len(e)]
  BY <1>1, SumOfIsSum
<1>3. SumOf(e) = 0
  BY <1>1, <1>2 DEF IsSumOf, IsSumUpto
<1> QED
  BY <1>3 DEF e

\* One more byte is added to the sum, as getTxData and the body state do it.
LEMMA SumOfAppend ==
    ASSUME NEW p \in Seq(Byte), NEW b \in Byte
    PROVE  SumOf(Append(p, b)) = (SumOf(p) + b) % 65536
<1> DEFINE q == Append(p, b)
<1>1. q \in Seq(Byte) /\ Len(q) = Len(p) + 1 /\ q[Len(p) + 1] = b
  OBVIOUS
<1>2. \A i \in 1 .. Len(p) : p[i] = q[i]
  OBVIOUS
<1> HIDE DEF q
<1>3. PICK s : IsSumOf(s, p) /\ SumOf(p) = s[Len(p)]
  BY SumOfIsSum
<1>4. PICK t : IsSumOf(t, q) /\ SumOf(q) = t[Len(q)]
  BY <1>1, SumOfIsSum
<1>5. s[Len(p)] = t[Len(p)]
  BY <1>1, <1>2, <1>3, <1>4, SumsAgree
<1>6. Len(q) \in 1 .. Len(q) /\ Len(q) - 1 = Len(p)
  BY <1>1
<1>7. t[Len(q)] = (t[Len(p)] + b) % 65536
  BY <1>1, <1>4, <1>6 DEF IsSumOf, IsSumUpto
<1> QED
  BY <1>3, <1>4, <1>5, <1>7 DEF q

\* The checksum may be taken piece by piece, as the transport asks for the payload.
LEMMA SumOfConcat ==
    ASSUME NEW p \in Seq(Byte), NEW q \in Seq(Byte)
    PROVE  SumOf(p \o q) = (SumOf(p) + SumOf(q)) % 65536
<1> DEFINE r == p \o q
<1>1. r \in Seq(Byte) /\ Len(r) = Len(p) + Len(q)
  OBVIOUS
<1>2. \A i \in 1 .. Len(p) : p[i] = r[i]
  OBVIOUS
<1>3. \A i \in 1 .. Len(q) : q[i] = r[Len(p) + i]
  OBVIOUS
<1> HIDE DEF r
<1>4. PICK s : IsSumOf(s, p) /\ SumOf(p) = s[Len(p)]
  BY SumOfIsSum
<1>5. PICK t : IsSumOf(t, q) /\ SumOf(q) = t[Len(q)]
  BY SumOfIsSum
<1>6. PICK u : IsSumOf(u, r) /\ SumOf(r) = u[Len(r)]
  BY <1>1, SumOfIsSum
<1>7. s[Len(p)] = u[Len(p)] /\ s[Len(p)] \in Word
  <2>1. Len(p) \in Nat /\ Len(p) <= Len(p) /\ Len(p) <= Len(r)
    BY <1>1
  <2> DEFINE k == Len(p)
  <2>2. s[k] = u[k]
    <3>1. k \in Nat /\ k <= Len(p) /\ k <= Len(r) /\ \A i \in 1 .. k : p[i] = r[i]
      BY <2>1, <1>2
    <3> HIDE DEF k
    <3> QED
      BY <3>1, <1>1, <1>4, <1>6, SumsAgree
  <2> QED
    BY <2>2, <1>4 DEF IsSumOf, IsSumUpto
<1> DEFINE T == {n \in Nat : n <= Len(q) => u[Len(p) + n] = (s[Len(p)] + t[n]) % 65536}
<1>8. 0 \in T
  <2>1. t[0] = 0 /\ u[Len(p) + 0] = s[Len(p)]
    BY <1>5, <1>7 DEF IsSumOf, IsSumUpto
  <2>2. s[Len(p)] + t[0] = s[Len(p)]
    <3>1. s[Len(p)] \in Nat
      BY <1>7, Naturals8And16
    <3> QED
      BY <3>1, <2>1
  <2> QED
    BY <2>1, <2>2, <1>7, ModOfWord
<1>9. ASSUME NEW n \in T PROVE n + 1 \in T
  <2> SUFFICES ASSUME n + 1 <= Len(q)
               PROVE  u[Len(p) + (n + 1)] = (s[Len(p)] + t[n + 1]) % 65536
    OBVIOUS
  <2>1. /\ n + 1 \in 1 .. Len(q) /\ (n + 1) - 1 = n /\ n \in 0 .. Len(q)
        /\ Len(p) + (n + 1) \in 1 .. Len(r) /\ (Len(p) + (n + 1)) - 1 = Len(p) + n
    BY <1>1
  <2>2. u[Len(p) + n] = (s[Len(p)] + t[n]) % 65536 /\ t[n] \in Word
    <3>1. u[Len(p) + n] = (s[Len(p)] + t[n]) % 65536
      BY <2>1, SMT
    <3>2. t \in [0 .. Len(q) -> Word]
      BY <1>5 DEF IsSumOf, IsSumUpto
    <3> QED
      BY <2>1, <3>1, <3>2
  <2>3. t[n + 1] = (t[n] + q[n + 1]) % 65536
    BY <2>1, <1>5 DEF IsSumOf, IsSumUpto
  <2>4. u[Len(p) + (n + 1)] = (u[Len(p) + n] + q[n + 1]) % 65536
    BY <2>1, <1>3, <1>6 DEF IsSumOf, IsSumUpto
  <2>5. q[n + 1] \in Byte
    BY <2>1
  <2>6. u[Len(p) + (n + 1)] = ((((s[Len(p)] + t[n]) % 65536) + q[n + 1]) % 65536)
    BY <2>2, <2>4
  <2>7. s[Len(p)] \in Nat /\ t[n] \in Nat /\ q[n + 1] \in Nat
    <3> HIDE DEF T
    <3>1. s[Len(p)] \in Nat
      BY <1>7, Naturals8And16
    <3>2. t[n] \in Nat
      <4>1. t[n] \in Word
        BY <2>2
      <4> QED
        BY <4>1, Naturals8And16
    <3>3. q[n + 1] \in Nat
      BY <2>5, Naturals8And16
    <3> QED
      BY <3>1, <3>2, <3>3
  <2>8. ((((s[Len(p)] + t[n]) % 65536) + q[n + 1]) % 65536)
          = ((s[Len(p)] + ((t[n] + q[n + 1]) % 65536)) % 65536)
    <3> DEFINE x == s[Len(p)]
               y == t[n]
               z == q[n + 1]
    <3>1. x \in Nat /\ y \in Nat /\ z \in Nat
      BY <2>7
    <3> HIDE DEF x, y, z
    <3>2. ((((x + y) % 65536) + z) % 65536) = ((x + ((y + z) % 65536)) % 65536)
      BY <3>1, ModOfSums, SMT
    <3> QED
      BY <3>2 DEF x, y, z
  <2> QED
    BY <2>3, <2>6, <2>8
<1>10. Len(q) \in T
  <2>1. T \in SUBSET Nat
    OBVIOUS
  <2> HIDE DEF T
  <2> QED
    BY <1>8, <1>9, <2>1, InductionOnSet
<1>11. u[Len(p) + Len(q)] = (s[Len(p)] + t[Len(q)]) % 65536
  BY <1>10
<1> QED
  BY <1>1, <1>4, <1>5, <1>6, <1>11 DEF r

\* Sums that start from different words stay different.
LEMMA ModOfDifferent ==
    ASSUME NEW a \in Nat, NEW b \in Nat, a < 65536, b < 65536, a # b, NEW x \in Nat
    PROVE  ((a + x) % 65536) # ((b + x) % 65536)
OBVIOUS

\* A single changed byte of a payload changes its checksum, wherever it is.
LEMMA SumOfChanged ==
    ASSUME NEW p \in Seq(Byte), NEW k \in 1 .. Len(p), NEW b \in Byte, b # p[k]
    PROVE  SumOf([p EXCEPT ![k] = b]) # SumOf(p)
<1> DEFINE q == [p EXCEPT ![k] = b]
<1>1. /\ q \in Seq(Byte) /\ Len(q) = Len(p)
      /\ \A i \in 1 .. Len(p) : q[i] = IF i = k THEN b ELSE p[i]
  BY ExceptSeq
<1> HIDE DEF q
<1>2. PICK s : IsSumOf(s, p) /\ SumOf(p) = s[Len(p)]
  BY SumOfIsSum
<1>3. PICK t : IsSumOf(t, q) /\ SumOf(q) = t[Len(q)]
  BY <1>1, SumOfIsSum
<1>4. Len(p) \in Nat /\ k \in Nat /\ 1 <= k /\ k <= Len(p) /\ k - 1 \in Nat
  BY LenProperties
<1>5. s[k - 1] = t[k - 1]
  <2> DEFINE n == k - 1
  <2>1. n \in Nat /\ n <= Len(p) /\ n <= Len(q) /\ \A i \in 1 .. n : p[i] = q[i]
    BY <1>1, <1>4
  <2> HIDE DEF n
  <2>2. s[n] = t[n]
    BY <2>1, <1>1, <1>2, <1>3, SumsAgree
  <2> QED
    BY <2>2 DEF n
<1>6. \A i \in 0 .. Len(p) : s[i] \in Word /\ t[i] \in Word
  BY <1>1, <1>2, <1>3 DEF IsSumOf, IsSumUpto
<1>7. \A i \in 1 .. Len(p) : /\ s[i] = (s[i - 1] + p[i]) % 65536
                            /\ t[i] = (t[i - 1] + q[i]) % 65536
  BY <1>1, <1>2, <1>3 DEF IsSumOf, IsSumUpto
<1>8. \A w \in Word : w \in Nat /\ w < 65536
  BY WordFacts
<1>9. \A w \in Byte : w \in Nat /\ w < 65536
  BY DEF Byte
<1> DEFINE T == {n \in Nat : k + n <= Len(p) => s[k + n] # t[k + n]}
<1>10. 0 \in T
  <2>1. p[k] \in Byte /\ q[k] = b /\ p[k] # b
    BY <1>1, ElementOfSeq
  <2>2. p[k] \in Nat /\ p[k] < 65536 /\ b \in Nat /\ b < 65536
    BY <2>1, <1>9
  <2>3. k - 1 \in 0 .. Len(p)
    BY <1>4
  <2>4. s[k - 1] \in Nat
    BY <2>3, <1>6, <1>8
  <2>5. s[k] = (p[k] + s[k - 1]) % 65536
    <3>1. s[k] = (s[k - 1] + p[k]) % 65536
      BY <1>7
    <3> QED
      BY <3>1, <2>2, <2>4
  <2>6. t[k] = (b + s[k - 1]) % 65536
    <3>1. t[k] = (s[k - 1] + b) % 65536
      BY <1>5, <1>7, <2>1
    <3> QED
      BY <3>1, <2>2, <2>4
  <2>7. s[k] # t[k]
    <3> DEFINE a == p[k]
               x == s[k - 1]
    <3>1. a \in Nat /\ b \in Nat /\ a < 65536 /\ b < 65536 /\ a # b /\ x \in Nat
      BY <2>1, <2>2, <2>4
    <3>2. s[k] = (a + x) % 65536 /\ t[k] = (b + x) % 65536
      BY <2>5, <2>6
    <3> HIDE DEF a, x
    <3>3. ((a + x) % 65536) # ((b + x) % 65536)
      BY <3>1, ModOfDifferent
    <3> QED
      BY <3>2, <3>3
  <2>8. k + 0 = k
    BY <1>4
  <2> QED
    BY <2>7, <2>8
<1>11. ASSUME NEW n \in T PROVE n + 1 \in T
  <2> SUFFICES ASSUME k + (n + 1) <= Len(p) PROVE s[k + (n + 1)] # t[k + (n + 1)]
    BY DEF T
  <2> DEFINE i == k + n
  <2>1. /\ i \in 0 .. Len(p) /\ i + 1 \in 1 .. Len(p) /\ (i + 1) - 1 = i
        /\ k + (n + 1) = i + 1 /\ i + 1 # k
    BY <1>4
  <2>2. s[i] # t[i]
    BY <2>1, <1>4
  <2> HIDE DEF i, T
  <2>3. p[i + 1] = q[i + 1] /\ p[i + 1] \in Byte
    BY <2>1, <1>1, ElementOfSeq
  <2>4. s[i] \in Word /\ t[i] \in Word
    BY <2>1, <1>6
  <2>5. s[i + 1] = (s[i] + p[i + 1]) % 65536 /\ t[i + 1] = (t[i] + p[i + 1]) % 65536
    BY <2>1, <2>3, <1>7
  <2>6. p[i + 1] \in Nat
    BY <2>3, <1>9
  <2>7. s[i] \in Nat /\ s[i] < 65536 /\ t[i] \in Nat /\ t[i] < 65536
    BY <2>4, <1>8
  <2>8. s[i + 1] # t[i + 1]
    <3> DEFINE a == s[i]
               c == t[i]
               x == p[i + 1]
    <3>1. a \in Nat /\ c \in Nat /\ a < 65536 /\ c < 65536 /\ a # c /\ x \in Nat
      BY <2>2, <2>6, <2>7
    <3>2. s[i + 1] = (a + x) % 65536 /\ t[i + 1] = (c + x) % 65536
      BY <2>5
    <3> HIDE DEF a, c, x
    <3>3. ((a + x) % 65536) # ((c + x) % 65536)
      BY <3>1, ModOfDifferent
    <3> QED
      BY <3>2, <3>3
  <2> QED
    BY <2>1, <2>8
<1>12. Len(p) - k \in T
  <2>1. T \in SUBSET Nat /\ Len(p) - k \in Nat
    BY <1>4
  <2> HIDE DEF T
  <2> QED
    BY <1>10, <1>11, <2>1, InductionOnSet
<1>13. s[Len(p)] # t[Len(p)]
  <2>1. k + (Len(p) - k) = Len(p)
    BY <1>4
  <2> QED
    BY <1>12, <2>1
<1> QED
  BY <1>1, <1>2, <1>3, <1>13 DEF q

-----------------------------------------------------------------------------
(***************************************************************************)
(* Beginnings and rests of sequences.                                      *)
(***************************************************************************)
LEMMA BeginningAndRest ==
    ASSUME NEW s \in Seq(Byte), NEW n \in 0 .. Len(s)
    PROVE  /\ SubSeq(s, 1, n) \in Seq(Byte) /\ Len(SubSeq(s, 1, n)) = n
           /\ SubSeq(s, n + 1, Len(s)) \in Seq(Byte)
           /\ Len(SubSeq(s, n + 1, Len(s))) = Len(s) - n
           /\ SubSeq(s, 1, n) \o SubSeq(s, n + 1, Len(s)) = s
<1> DEFINE a == SubSeq(s, 1, n)
           b == SubSeq(s, n + 1, Len(s))
<1>0. \A i \in 1 .. Len(s) : s[i] \in Byte
  BY ElementOfSeq
<1>1. a \in Seq(Byte) /\ Len(a) = n /\ \A i \in 1 .. n : a[i] = s[i]
  <2>1. \A i \in 1 .. n : s[i] \in Byte
    BY <1>0
  <2> QED
    BY <2>1, SubSeqProperties, LenProperties
<1>2. b \in Seq(Byte) /\ Len(b) = Len(s) - n /\ \A i \in 1 .. Len(s) - n : b[i] = s[i + n]
  <2>1. \A i \in n + 1 .. Len(s) : s[i] \in Byte
    BY <1>0
  <2> QED
    BY <2>1, SubSeqProperties, LenProperties
<1> HIDE DEF a, b
<1>3. Len(s) \in Nat
  BY LenProperties
<1>4. /\ a \o b \in Seq(Byte) /\ Len(a \o b) = Len(s)
      /\ \A i \in 1 .. Len(s) : (a \o b)[i] = IF i <= n THEN a[i] ELSE b[i - n]
  BY <1>1, <1>2, <1>3, ConcatProperties
<1>5. \A i \in 1 .. Len(s) : (a \o b)[i] = s[i]
  BY <1>1, <1>2, <1>3, <1>4
<1>6. a \o b = s
  BY <1>4, <1>5, SeqEqual
<1> QED
  BY <1>1, <1>2, <1>6 DEF a, b

\* A sequence is the beginning of what it begins.
LEMMA BeginningOfConcat ==
    ASSUME NEW s \in Seq(Byte), NEW t \in Seq(Byte)
    PROVE  s = SubSeq(s \o t, 1, Len(s))
<1> DEFINE r == s \o t
           a == SubSeq(r, 1, Len(s))
<1>1. /\ r \in Seq(Byte) /\ Len(r) = Len(s) + Len(t) /\ Len(s) \in Nat /\ Len(t) \in Nat
      /\ \A i \in 1 .. Len(s) : r[i] = s[i]
  BY ConcatProperties, LenProperties
<1> HIDE DEF r
<1>2. a \in Seq(Byte) /\ Len(a) = Len(s) /\ \A i \in 1 .. Len(s) : a[i] = r[i]
  <2>1. \A i \in 1 .. Len(s) : r[i] \in Byte
    BY <1>1, ElementOfSeq
  <2> QED
    BY <1>1, <2>1, SubSeqProperties
<1> HIDE DEF a
<1>3. s = a
  BY <1>1, <1>2, SeqEqual
<1> QED
  BY <1>3 DEF a, r

-----------------------------------------------------------------------------
(***************************************************************************)
(* The parts of a frame.                                                   *)
(***************************************************************************)
LEMMA HeadType ==
    ASSUME NEW type \in Byte, NEW n \in Nat
    PROVE  HeadOf(type, n) \in Seq(Byte) /\ Len(HeadOf(type, n)) = 6
<1>1. \A x \in Nat : (x % 256) \in Byte
  BY DEF Byte
<1>2. (n \div 16777216) \in Nat /\ (n \div 65536) \in Nat /\ (n \div 256) \in Nat
  OBVIOUS
<1>3. StartFlag \in Byte
  BY DEF StartFlag, Byte
<1> DEFINE a == (n \div 16777216) % 256
           b == (n \div 65536) % 256
           c == (n \div 256) % 256
           d == n % 256
<1>4. a \in Byte /\ b \in Byte /\ c \in Byte /\ d \in Byte
  BY <1>1, <1>2
<1> HIDE DEF a, b, c, d
<1>5. <<StartFlag, type, a, b, c, d>> \in Seq(Byte)
  BY <1>3, <1>4
<1> QED
  BY <1>5 DEF HeadOf, a, b, c, d

\* The end of a frame is three bytes.
LEMMA FootType ==
    ASSUME NEW sum \in Word
    PROVE  FootOf(sum) \in Seq(Byte) /\ Len(FootOf(sum)) = 3
<1>1. (sum \div 256) \in Byte /\ (sum % 256) \in Byte
  <2>1. sum \in Nat /\ sum < 65536
    BY WordFacts
  <2>2. /\ (sum \div 256) \in Nat /\ (sum \div 256) < 256
        /\ (sum % 256) \in Nat /\ (sum % 256) < 256
    BY <2>1
  <2> QED
    BY <2>2 DEF Byte
<1>2. EndFlag \in Byte
  BY DEF EndFlag, Byte
<1> QED
  BY <1>1, <1>2 DEF FootOf

\* A frame is nine bytes longer than its payload.
LEMMA EncodedType ==
    ASSUME NEW f \in [type : Byte, payload : Seq(Byte)]
    PROVE  /\ Encoded(f) \in Seq(Byte)
           /\ Len(Encoded(f)) = Len(f.payload) + 9
<1> DEFINE p == f.payload
           h == HeadOf(f.type, Len(p))
           t == FootOf(SumOf(p))
<1>1. f.type \in Byte /\ p \in Seq(Byte) /\ Len(p) \in Nat
  BY LenProperties
<1>2. h \in Seq(Byte) /\ Len(h) = 6
  BY <1>1, HeadType
<1>3. t \in Seq(Byte) /\ Len(t) = 3
  BY <1>1, SumOfType, FootType
<1>0. Encoded(f) = (h \o p) \o t
  BY DEF Encoded
<1> HIDE DEF h, t, p
<1> DEFINE g == h \o p
<1>4. g \in Seq(Byte) /\ Len(g) = Len(h) + Len(p)
  BY <1>1, <1>2, ConcatProperties
<1> HIDE DEF g
<1>5. g \o t \in Seq(Byte) /\ Len(g \o t) = Len(g) + Len(t)
  BY <1>3, <1>4, ConcatProperties
<1>6. Len(g \o t) = Len(p) + 9
  BY <1>1, <1>2, <1>3, <1>4, <1>5
<1> QED
  BY <1>0, <1>5, <1>6 DEF g, p
=============================================================================
