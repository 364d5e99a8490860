------------------------------ MODULE Net_proof ------------------------------
(***************************************************************************)
(* Proofs about the network, for any hosts, names, sizes of caches and     *)
(* lengths of leases, and any number of lines of a reply.  Each part has   *)
(* an inductive invariant of its own.                                      *)
(***************************************************************************)
EXTENDS MCNet, NatLemmas, SequenceTheorems, FiniteSetTheorems, TLAPS

(***************************************************************************)
(* The checksum: the sum of the words changes with one byte by less than   *)
(* all ones and never by 0, folding the carries in keeps it modulo all     *)
(* ones, and with its checksum the sum is a multiple of all ones.          *)
(***************************************************************************)
LEMMA WordSize == /\ Base \in Nat /\ Base >= 2 /\ Word \in Nat /\ Word >= 4
                  /\ Word = Base * Base /\ Word >= 2 * Base /\ MaxSize \in Nat
<1>1. Base \in Nat /\ Base >= 2 /\ MaxSize \in Nat
  BY ChecksumAssumption
<1>2. \A b \in Nat : b >= 2 => b * b >= 2 * b /\ b * b \in Nat
  <2>1. ASSUME NEW b \in Nat, b >= 2 PROVE b * b >= 2 * b /\ b * b \in Nat
    <3>1. PICK k \in Nat : b = k + 2
      <4>1. b - 2 \in Nat /\ b = (b - 2) + 2
        BY <2>1
      <4> QED BY <4>1
    <3>2. b * b = 2 * b + k * b /\ k * b \in Nat
      BY <3>1
    <3> QED BY <3>2
  <2> QED BY <2>1
<1> QED BY <1>1, <1>2 DEF Word

(* Adding up: the running sums of n words exist, and are what the loop has. *)
Sums(w, n, sums) ==
  sums = [k \in 0 .. n |-> IF k = 0 THEN 0 ELSE sums[k - 1] + w[k]]

LEMMA SumsExist ==
  ASSUME NEW w, NEW m \in Nat
  PROVE  \E sums : Sums(w, m, sums)
<1> DEFINE Bad == {n \in Nat : ~ \E sums : Sums(w, n, sums)}
<1> SUFFICES ASSUME Bad # {} PROVE FALSE
  OBVIOUS
<1>1. PICK n \in Bad : \A j \in Bad : n <= j
  <2>1. Bad \in SUBSET Nat
    OBVIOUS
  <2> HIDE DEF Bad
  <2> QED BY <2>1, LeastNat
<1>2. n \in Nat /\ ~ \E sums : Sums(w, n, sums)
  OBVIOUS
<1>3. CASE n = 0
  <2>1. Sums(w, 0, [k \in 0 .. 0 |-> 0])
    BY DEF Sums
  <2> QED BY <1>2, <1>3, <2>1
<1>4. CASE n > 0
  <2>1. n - 1 \in Nat /\ n - 1 \notin Bad
    BY <1>1, <1>2, <1>4
  <2>2. PICK sums : Sums(w, n - 1, sums)
    BY <2>1
  <2> DEFINE other == [k \in 0 .. n |-> IF k = n THEN sums[n - 1] + w[n] ELSE sums[k]]
  <2>3. ASSUME NEW k \in 0 .. n
        PROVE  other[k] = IF k = 0 THEN 0 ELSE other[k - 1] + w[k]
    <3>1. CASE k = n
      <4>1. other[k] = sums[n - 1] + w[n] /\ n - 1 \in 0 .. n /\ n - 1 # n /\ k # 0
        BY <1>2, <1>4, <3>1
      <4>2. other[n - 1] = sums[n - 1]
        BY <4>1
      <4> HIDE DEF other
      <4> QED BY <3>1, <4>1, <4>2
    <3>2. CASE k # n
      <4>1. k \in 0 .. n - 1 /\ other[k] = sums[k]
        BY <1>2, <2>3, <3>2
      <4>2. sums[k] = IF k = 0 THEN 0 ELSE sums[k - 1] + w[k]
        BY <2>2, <4>1 DEF Sums
      <4>3. k # 0 => k - 1 \in 0 .. n /\ k - 1 # n
        BY <1>2, <4>1
      <4>4. k # 0 => other[k - 1] = sums[k - 1]
        BY <4>3
      <4> HIDE DEF other
      <4> QED BY <4>1, <4>2, <4>4
    <3> QED BY <3>1, <3>2
  <2>4. Sums(w, n, other)
    <3>1. other = [k \in 0 .. n |-> other[k]]
      OBVIOUS
    <3> HIDE DEF other
    <3> QED BY <2>3, <3>1 DEF Sums
  <2> QED BY <1>2, <2>4
<1> QED BY <1>2, <1>3, <1>4

(* Two runs of the loop over words that agree but for one differ by as much *)
(* from there on; the sum of words is a number, at most so many of them.   *)
LEMMA SumsAreBounded ==
  ASSUME NEW n \in Nat, NEW top \in Nat, NEW w, \A k \in 1 .. n : w[k] \in 0 .. top,
         NEW sums, Sums(w, n, sums)
  PROVE  \A k \in 0 .. n : sums[k] \in 0 .. k * top
<1> DEFINE Bad == {k \in 0 .. n : sums[k] \notin 0 .. k * top}
<1> SUFFICES ASSUME Bad # {} PROVE FALSE
  OBVIOUS
<1>1. PICK k \in Bad : \A j \in Bad : k <= j
  <2>1. Bad \in SUBSET Nat
    OBVIOUS
  <2> HIDE DEF Bad
  <2> QED BY <2>1, LeastNat
<1>2. k \in 0 .. n /\ sums[k] \notin 0 .. k * top
  OBVIOUS
<1>3. sums[k] = IF k = 0 THEN 0 ELSE sums[k - 1] + w[k]
  BY <1>2 DEF Sums
<1>4. k # 0
  BY <1>2, <1>3
<1>5. k - 1 \in 0 .. n /\ k - 1 \notin Bad
  BY <1>1, <1>2, <1>4
<1>6. sums[k - 1] \in 0 .. (k - 1) * top /\ w[k] \in 0 .. top
  BY <1>2, <1>4, <1>5
<1>7. k * top = (k - 1) * top + top /\ (k - 1) * top \in Nat
  BY <1>2, <1>5
<1> HIDE DEF Bad
<1>8. PICK a, b, p : a = sums[k - 1] /\ b = w[k] /\ p = (k - 1) * top
  OBVIOUS
<1>9. a \in 0 .. p /\ b \in 0 .. top /\ p \in Nat /\ k * top = p + top
  BY <1>6, <1>7, <1>8
<1>10. sums[k] = a + b
  BY <1>3, <1>4, <1>8
<1>11. a + b \in 0 .. p + top
  BY <1>9
<1> QED BY <1>2, <1>9, <1>10, <1>11

(* One word of number i is d more, and so is every sum that has it.        *)
WordMoved(v, w, n, top, i, d) ==
  \A k \in 1 .. n : /\ v[k] \in 0 .. top /\ w[k] \in 0 .. top
                    /\ w[k] = v[k] + (IF k = i THEN d ELSE 0)

LEMMA SumsDiffer ==
  ASSUME NEW n \in Nat, NEW top \in Nat, NEW v, NEW w,
         NEW sums, Sums(v, n, sums), NEW other, Sums(w, n, other),
         NEW i \in Nat, NEW d \in Int,
         WordMoved(v, w, n, top, i, d)
  PROVE  \A k \in 0 .. n : other[k] = sums[k] + (IF i \in 1 .. k THEN d ELSE 0)
<1> DEFINE Bad == {k \in 0 .. n : other[k] # sums[k] + (IF i \in 1 .. k THEN d ELSE 0)}
<1> SUFFICES ASSUME Bad # {} PROVE FALSE
  OBVIOUS
<1>1. PICK k \in Bad : \A j \in Bad : k <= j
  <2>1. Bad \in SUBSET Nat
    OBVIOUS
  <2> HIDE DEF Bad
  <2> QED BY <2>1, LeastNat
<1>2. k \in 0 .. n /\ other[k] # sums[k] + (IF i \in 1 .. k THEN d ELSE 0)
  OBVIOUS
<1>3. /\ sums[k] = IF k = 0 THEN 0 ELSE sums[k - 1] + v[k]
      /\ other[k] = IF k = 0 THEN 0 ELSE other[k - 1] + w[k]
  BY <1>2 DEF Sums
<1>4. k # 0
  BY <1>2, <1>3
<1>5. k - 1 \in 0 .. n /\ k - 1 \notin Bad /\ k \in 1 .. n
  BY <1>1, <1>2, <1>4
<1>6. /\ other[k - 1] = sums[k - 1] + (IF i \in 1 .. k - 1 THEN d ELSE 0)
      /\ w[k] = v[k] + (IF k = i THEN d ELSE 0) /\ v[k] \in Nat
  BY <1>5 DEF WordMoved
<1>7. sums[k - 1] \in Nat
  <2>1. sums[k - 1] \in 0 .. (k - 1) * top
    BY <1>5, SumsAreBounded DEF WordMoved
  <2> QED BY <2>1
<1> HIDE DEF Bad
<1>8. PICK a, b : a = sums[k - 1] /\ b = v[k]
  OBVIOUS
<1>9. a \in Nat /\ b \in Nat /\ sums[k] = a + b
      /\ other[k] = (a + (IF i \in 1 .. k - 1 THEN d ELSE 0)) + (b + (IF k = i THEN d ELSE 0))
  BY <1>3, <1>4, <1>6, <1>7, <1>8
<1> QED BY <1>2, <1>4, <1>5, <1>9 

Words(s) == [k \in 1 .. Len(s) \div 2 |-> WordAt(s, 2 * k - 1)]

LEMMA EvenIsASum ==
  ASSUME NEW s
  PROVE  LET n == Len(s) \div 2
         IN  n \in Nat => \E sums : Sums(Words(s), n, sums) /\ EvenOnly(s) = sums[n]
<1> DEFINE n == Len(s) \div 2
<1> DEFINE words == CHOOSE sums : sums = [k \in 0 .. n |->
                       IF k = 0 THEN 0 ELSE sums[k - 1] + WordAt(s, 2 * k - 1)]
<1> SUFFICES ASSUME n \in Nat PROVE \E sums : Sums(Words(s), n, sums) /\ EvenOnly(s) = sums[n]
  OBVIOUS
<1>1. EvenOnly(s) = words[n]
  BY DEF EvenOnly
<1>2. ASSUME NEW sums
      PROVE  Sums(Words(s), n, sums) <=>
               sums = [k \in 0 .. n |-> IF k = 0 THEN 0 ELSE sums[k - 1] + WordAt(s, 2 * k - 1)]
  <2>1. ASSUME NEW k \in 0 .. n, k # 0 PROVE Words(s)[k] = WordAt(s, 2 * k - 1)
    BY <2>1 DEF Words
  <2>2. [k \in 0 .. n |-> IF k = 0 THEN 0 ELSE sums[k - 1] + Words(s)[k]] =
        [k \in 0 .. n |-> IF k = 0 THEN 0 ELSE sums[k - 1] + WordAt(s, 2 * k - 1)]
    BY <2>1
  <2> HIDE DEF n
  <2> QED BY <2>2, Zenon DEF Sums
<1>3. \E sums : Sums(Words(s), n, sums)
  BY SumsExist
<1>4. \E sums : sums = [k \in 0 .. n |-> IF k = 0 THEN 0 ELSE sums[k - 1] + WordAt(s, 2 * k - 1)]
  BY <1>2, <1>3, Zenon
<1>5. words = [k \in 0 .. n |-> IF k = 0 THEN 0 ELSE words[k - 1] + WordAt(s, 2 * k - 1)]
  BY <1>4, Zenon
<1> HIDE DEF words, n
<1> QED BY <1>1, <1>2, <1>5, Zenon

Half(s, n) ==
  /\ n \in Nat /\ Len(s) \div 2 = n
  /\ (Len(s) = 2 * n /\ Len(s) % 2 = 0) \/ (Len(s) = 2 * n + 1 /\ Len(s) % 2 = 1)

LEMMA Halves == ASSUME NEW s \in Seq(Byte) PROVE \E n : Half(s, n)
<1>1. PICK l \in Nat : l = Len(s)
  BY LenProperties
<1>2. PICK n \in Nat : l \div 2 = n
  OBVIOUS
<1>3. (l = 2 * n /\ l % 2 = 0) \/ (l = 2 * n + 1 /\ l % 2 = 1)
  BY <1>2
<1> QED BY <1>1, <1>2, <1>3 DEF Half

(* The words of a sequence of bytes are 16-bit words. *)
LEMMA WordIsAWord ==
  ASSUME NEW x \in Byte, NEW y \in Byte
  PROVE  x * Base + y \in 0 .. Word - 1 /\ x * Base \in 0 .. Word - 1
<1>1. PICK b \in Nat : b = Base /\ b >= 2
  BY WordSize
<1>2. x \in 0 .. b - 1 /\ y \in 0 .. b - 1
  BY <1>1 DEF Byte
<1>3. x * b + (b - 1 - x) * b = (b - 1) * b /\ (b - 1 - x) * b >= 0 /\ x * b >= 0
  BY <1>1, <1>2
<1>4. (b - 1) * b = b * b - b /\ b * b \in Nat
  BY <1>1
<1>5. x * b <= b * b - b /\ x * b + y <= b * b - 1
  BY <1>1, <1>2, <1>3, <1>4
<1> QED BY <1>1, <1>2, <1>3, <1>4, <1>5 DEF Word

LEMMA WordsAreWords ==
  ASSUME NEW s \in Seq(Byte), NEW n, Half(s, n), NEW k \in 1 .. n
  PROVE  /\ Words(s)[k] = s[2 * k - 1] * Base + s[2 * k]
         /\ Words(s)[k] \in 0 .. Word - 1
         /\ 2 * k - 1 \in 1 .. Len(s) /\ 2 * k \in 1 .. Len(s)
<1>1. n \in Nat /\ Len(s) >= 2 * n /\ Len(s) \in Nat /\ Len(s) \div 2 = n
  BY LenProperties DEF Half
<1>2. 2 * k - 1 \in 1 .. Len(s) /\ 2 * k \in 1 .. Len(s)
  BY <1>1
<1>3. s[2 * k - 1] \in Byte /\ s[2 * k] \in Byte
  BY <1>2, ElementOfSeq
<1>4. (2 * k - 1) + 1 = 2 * k
  BY <1>1
<1>5. Words(s)[k] = s[2 * k - 1] * Base + s[2 * k]
  BY <1>1, <1>4 DEF Words, WordAt
<1> QED BY <1>2, <1>3, <1>5, WordIsAWord

LEMMA SumIsBounded ==
  ASSUME NEW s \in Seq(Byte), NEW n, Half(s, n)
  PROVE  Sum(s) \in 0 .. (n + 1) * (Word - 1)
<1>1. n \in Nat /\ Len(s) \div 2 = n
  BY DEF Half
<1>2. PICK sums : Sums(Words(s), n, sums) /\ EvenOnly(s) = sums[n]
  BY <1>1, EvenIsASum
<1>3. PICK top \in Nat : top = Word - 1
  BY WordSize
<1>4. \A k \in 1 .. n : Words(s)[k] \in 0 .. top
  BY <1>3, WordsAreWords
<1>5. sums[n] \in 0 .. n * top
  <2>1. \A k \in 0 .. n : sums[k] \in 0 .. k * top
    <3> QED BY <1>1, <1>2, <1>4, SumsAreBounded, Zenon
  <2> QED BY <1>1, <2>1
<1>6. (IF Len(s) % 2 = 1 THEN Last(s) * Base ELSE 0) \in 0 .. top
  <2>1. ASSUME Len(s) % 2 = 1 PROVE Last(s) * Base \in 0 .. top
    <3>1. Len(s) \in 1 .. Len(s)
      BY <2>1, <1>1 DEF Half
    <3>2. Last(s) \in Byte
      BY <3>1, ElementOfSeq DEF Last
    <3> QED BY <1>3, <3>2, WordIsAWord
  <2> QED BY <1>3, <2>1
<1>7. PICK e, o : e = sums[n] /\ o = (IF Len(s) % 2 = 1 THEN Last(s) * Base ELSE 0)
  OBVIOUS
<1>8. Sum(s) = e + o
  BY <1>2, <1>7 DEF Sum
<1>9. (n + 1) * top = n * top + top /\ n * top \in Nat
  BY <1>1
<1> QED BY <1>3, <1>5, <1>6, <1>7, <1>8, <1>9

(* One byte changed: the sum changes by as much, times its place in its word. *)
Weight(i) == IF i % 2 = 1 THEN Base ELSE 1

LEMMA Distributes == \A u, v, w \in Nat : (u - v) * w = u * w - v * w
OBVIOUS

LEMMA SumDiffers ==
  ASSUME NEW s \in Seq(Byte), NEW i \in 1 .. Len(s), NEW b \in Byte
  PROVE  Sum([s EXCEPT ![i] = b]) = Sum(s) + (b - s[i]) * Weight(i)
<1>1. PICK n : Half(s, n)
  BY Halves
<1>2. PICK t : t = [s EXCEPT ![i] = b]
  OBVIOUS
<1>3. t \in Seq(Byte) /\ Len(t) = Len(s) /\ \A j \in 1 .. Len(s) : t[j] = IF j = i THEN b ELSE s[j]
  BY <1>2, ExceptSeq
<1>4. n \in Nat /\ Half(t, n) /\ i \in Nat
  BY <1>1, <1>3 DEF Half
<1>5. PICK x : x = s[i]
  OBVIOUS
<1>6. x \in Byte /\ x \in Nat /\ b \in Nat /\ Base \in Nat
  BY <1>5, ElementOfSeq, WordSize DEF Byte
<1>7. PICK d \in Int : d = (b - x) * Weight(i)
  BY <1>6 DEF Weight
<1>8. PICK j \in Nat : (i % 2 = 1 /\ i = 2 * j - 1) \/ (i % 2 = 0 /\ i = 2 * j)
  <2>1. PICK half \in Nat : i \div 2 = half
    BY <1>4
  <2>2. (i = 2 * half /\ i % 2 = 0) \/ (i = 2 * half + 1 /\ i % 2 = 1)
    BY <1>4, <2>1
  <2>3. CASE i % 2 = 1
    <3>1. half + 1 \in Nat /\ i = 2 * (half + 1) - 1
      BY <2>2, <2>3
    <3> QED BY <2>3, <3>1
  <2> QED BY <2>2, <2>3
<1>9. ASSUME NEW k \in 1 .. n
      PROVE  Words(t)[k] = Words(s)[k] + (IF k = j THEN d ELSE 0)
  <2>1. /\ Words(s)[k] = s[2 * k - 1] * Base + s[2 * k]
        /\ 2 * k - 1 \in 1 .. Len(s) /\ 2 * k \in 1 .. Len(s)
        /\ Words(s)[k] \in Nat
    BY <1>1, WordsAreWords
  <2>2. Words(t)[k] = t[2 * k - 1] * Base + t[2 * k]
    BY <1>3, <1>4, WordsAreWords
  <2>3. /\ t[2 * k - 1] = IF 2 * k - 1 = i THEN b ELSE s[2 * k - 1]
        /\ t[2 * k] = IF 2 * k = i THEN b ELSE s[2 * k]
    BY <1>3, <2>1
  <2>4. PICK y, z : y = s[2 * k - 1] /\ z = s[2 * k]
    OBVIOUS
  <2>5. y \in Byte /\ z \in Byte /\ y \in Nat /\ z \in Nat
    <3>1. y \in Byte /\ z \in Byte
      BY <2>1, <2>4, ElementOfSeq
    <3> QED BY <3>1 DEF Byte
  <2>6. CASE k = j /\ i % 2 = 1
    <3>1. 2 * k - 1 = i /\ 2 * k # i
      BY <1>8, <2>6
    <3>2. y = x /\ Words(t)[k] = b * Base + z /\ Words(s)[k] = x * Base + z
      BY <1>5, <2>1, <2>2, <2>3, <2>4, <3>1
    <3>3. d = (b - x) * Base
      BY <1>7, <2>6 DEF Weight
    <3>4. b * Base + z = (x * Base + z) + (b - x) * Base
      BY <1>6, <2>5
    <3> QED BY <2>6, <3>2, <3>3, <3>4
  <2>7. CASE k = j /\ i % 2 # 1
    <3>1. 2 * k - 1 # i /\ 2 * k = i
      BY <1>8, <2>7
    <3>2. z = x /\ Words(t)[k] = y * Base + b /\ Words(s)[k] = y * Base + x
      BY <1>5, <2>1, <2>2, <2>3, <2>4, <3>1
    <3>3. d = b - x
      BY <1>6, <1>7, <2>7 DEF Weight
    <3>4. PICK m \in Nat : m = y * Base
      BY <1>6, <2>5
    <3> QED BY <1>6, <2>7, <3>2, <3>3, <3>4
  <2>8. CASE k # j
    <3>1. 2 * k - 1 # i /\ 2 * k # i
      BY <1>8, <2>8
    <3> QED BY <2>1, <2>2, <2>3, <2>8, <3>1
  <2> QED BY <2>6, <2>7, <2>8
<1>10. PICK sums : Sums(Words(s), n, sums) /\ EvenOnly(s) = sums[n]
  BY <1>1, EvenIsASum DEF Half
<1>11. PICK other : Sums(Words(t), n, other) /\ EvenOnly(t) = other[n]
  BY <1>4, EvenIsASum DEF Half
<1>12. PICK top \in Nat : top = Word - 1
  BY WordSize
<1>13. \A k \in 1 .. n : Words(s)[k] \in 0 .. top /\ Words(t)[k] \in 0 .. top
  BY <1>1, <1>3, <1>4, <1>12, WordsAreWords
<1>14. EvenOnly(t) = EvenOnly(s) + (IF j \in 1 .. n THEN d ELSE 0)
  <2>1. \A k \in 0 .. n : other[k] = sums[k] + (IF j \in 1 .. k THEN d ELSE 0)
    <3>1. WordMoved(Words(s), Words(t), n, top, j, d)
      BY <1>9, <1>13 DEF WordMoved
    <3> QED BY <1>4, <1>10, <1>11, <3>1, SumsDiffer
  <2> QED BY <1>4, <1>10, <1>11, <2>1
<1>15. EvenOnly(s) \in Nat
  <2>1. \A k \in 1 .. n : Words(s)[k] \in 0 .. top
    BY <1>13
  <2>2. \A k \in 0 .. n : sums[k] \in 0 .. k * top
    BY <1>4, <1>10, <2>1, SumsAreBounded, Zenon
  <2>3. sums[n] \in 0 .. n * top
    BY <1>4, <2>2
  <2> QED BY <1>10, <2>3
<1>16. ASSUME Len(s) = 2 * n /\ Len(s) % 2 = 0
       PROVE  Sum(t) = Sum(s) + d
  <2>1. j \in 1 .. n
    BY <1>4, <1>8, <1>16
  <2>2. Sum(t) = EvenOnly(t) + 0 /\ Sum(s) = EvenOnly(s) + 0
    BY <1>3, <1>16 DEF Sum
  <2> QED BY <1>14, <1>15, <2>1, <2>2
<1>17. ASSUME Len(s) = 2 * n + 1 /\ Len(s) % 2 = 1
       PROVE  Sum(t) = Sum(s) + d
  <2>1. /\ Sum(t) = EvenOnly(t) + t[2 * n + 1] * Base
        /\ Sum(s) = EvenOnly(s) + s[2 * n + 1] * Base
        /\ 2 * n + 1 \in 1 .. Len(s)
    BY <1>3, <1>4, <1>17 DEF Sum, Last
  <2>2. PICK z : z = s[2 * n + 1]
    OBVIOUS
  <2>3. z \in Byte /\ z \in Nat /\ z * Base \in Nat
    BY <2>1, <2>2, <1>6, ElementOfSeq DEF Byte
  <2>4. CASE i = 2 * n + 1
    <3>1. i % 2 = 1 /\ j \notin 1 .. n
      BY <1>4, <1>8, <2>4
    <3>2. d = (b - x) * Base /\ z = x /\ t[2 * n + 1] = b
      BY <1>3, <1>5, <1>7, <2>1, <2>2, <2>4, <3>1 DEF Weight
    <3>3. PICK p \in Nat, o \in Nat : p = b * Base /\ o = x * Base
      BY <1>6
    <3>4. d = p - o
      BY <1>6, <3>2, <3>3, Distributes
    <3>5. Sum(t) = EvenOnly(s) + p
      BY <1>14, <1>15, <2>1, <3>1, <3>2, <3>3
    <3>6. Sum(s) = EvenOnly(s) + o
      BY <2>1, <2>2, <3>2, <3>3
    <3> QED BY <1>15, <3>3, <3>4, <3>5, <3>6
  <2>5. CASE i # 2 * n + 1
    <3>1. j \in 1 .. n
      BY <1>4, <1>8, <1>17, <2>5
    <3>2. t[2 * n + 1] = z
      BY <1>3, <2>1, <2>2, <2>5
    <3>3. PICK m \in Nat : m = z * Base
      BY <2>3
    <3>4. Sum(t) = (EvenOnly(s) + d) + m /\ Sum(s) = EvenOnly(s) + m
      BY <1>14, <2>1, <2>2, <3>1, <3>2, <3>3
    <3> QED BY <1>15, <3>3, <3>4
  <2> QED BY <2>4, <2>5
<1>18. Sum(t) = Sum(s) + d
  BY <1>1, <1>16, <1>17 DEF Half
<1>19. d = (b - s[i]) * Weight(i)
  BY <1>5, <1>7, Zenon
<1> QED BY <1>2, <1>18, <1>19, Zenon

(* Folding the carries in makes the sum smaller, never 0, and by a multiple *)
(* of all ones.                                                            *)
AllOnes == Word - 1
Multiple(z) == \E k \in Int : z = k * AllOnes

LEMMA CarryIn ==
  ASSUME NEW x \in Nat, x >= Word
  PROVE  /\ (x % Word) + (x \div Word) \in 1 .. x - 1
         /\ \E k \in Int : x = (x % Word) + (x \div Word) + k * AllOnes
<1>1. PICK w \in Nat : w = Word /\ w >= 4
  BY WordSize
<1>2. PICK q, r : q = x \div w /\ r = x % w
  OBVIOUS
<1>3. q \in Nat /\ r \in 0 .. w - 1 /\ x = q * w + r
  <2>1. q \in Nat /\ r \in 0 .. w - 1
    BY <1>1, <1>2
  <2>2. x = q * w + r
    BY <1>1, <1>2
  <2> QED BY <1>1, <1>2, <2>1, <2>2
<1>4. q >= 1
  <2>1. q = 0 => x = r
    BY <1>1, <1>3
  <2> QED BY <1>1, <1>3, <2>1
<1>5. x = r + q + q * (w - 1) /\ q * (w - 1) >= q
  <2>1. q * w = q + q * (w - 1)
    BY <1>1, <1>3
  <2>2. q * (w - 1) = q + q * (w - 2) /\ q * (w - 2) >= 0
    BY <1>1, <1>3
  <2> QED BY <1>1, <1>3, <2>1, <2>2
<1>6. PICK p \in Int : p = q * (w - 1)
  BY <1>1, <1>3
<1>7. r + q \in 1 .. x - 1
  BY <1>1, <1>3, <1>4, <1>5, <1>6
<1>8. x = r + q + q * AllOnes /\ q \in Int
  BY <1>1, <1>3, <1>5 DEF AllOnes
<1> QED BY <1>1, <1>2, <1>7, <1>8

Carries(m, sums) ==
  sums = [x \in 0 .. m |-> IF x < Word THEN x ELSE sums[(x % Word) + (x \div Word)]]

LEMMA CarriesExist == ASSUME NEW m \in Nat PROVE \E sums : Carries(m, sums)
<1> DEFINE Bad == {n \in Nat : ~ \E sums : Carries(n, sums)}
<1> SUFFICES ASSUME Bad # {} PROVE FALSE
  OBVIOUS
<1>1. PICK n \in Bad : \A j \in Bad : n <= j
  <2>1. Bad \in SUBSET Nat
    OBVIOUS
  <2> HIDE DEF Bad
  <2> QED BY <2>1, LeastNat
<1>2. n \in Nat /\ ~ \E sums : Carries(n, sums)
  OBVIOUS
<1>3. CASE n = 0
  <2>1. 0 < Word
    BY WordSize
  <2>2. Carries(0, [x \in 0 .. 0 |-> 0])
    BY <2>1 DEF Carries
  <2> QED BY <1>2, <1>3, <2>2
<1>4. CASE n > 0
  <2>1. n - 1 \in Nat /\ n - 1 \notin Bad
    BY <1>1, <1>2, <1>4
  <2>2. PICK sums : Carries(n - 1, sums)
    BY <2>1
  <2> DEFINE Folds1(x) == (x % Word) + (x \div Word)
  <2> DEFINE other == [x \in 0 .. n |-> IF x = n THEN IF n < Word THEN n ELSE sums[Folds1(n)] ELSE sums[x]]
  <2>3. ASSUME NEW x \in 0 .. n, x >= Word
        PROVE  Folds1(x) \in 0 .. n - 1 /\ Folds1(x) \in 0 .. x - 1
    <3>1. x \in Nat /\ Folds1(x) \in 1 .. x - 1
      BY <1>2, <2>3, CarryIn
    <3> QED BY <1>2, <3>1
  <2>4. ASSUME NEW x \in 0 .. n
        PROVE  other[x] = IF x < Word THEN x ELSE other[Folds1(x)]
    <3>1. x >= Word => Folds1(x) \in 0 .. n /\ Folds1(x) # n /\ other[Folds1(x)] = sums[Folds1(x)]
      <4>1. ASSUME x >= Word PROVE Folds1(x) \in 0 .. n /\ Folds1(x) # n
        BY <1>2, <2>3, <4>1
      <4> HIDE DEF Folds1
      <4> QED BY <4>1
    <3>2. x \in Nat /\ Word \in Nat
      BY <1>2, WordSize
    <3> HIDE DEF Folds1
    <3>3. CASE x = n
      BY <3>1, <3>2, <3>3
    <3>4. CASE x # n
      <4>1. x \in 0 .. n - 1 /\ other[x] = sums[x]
        BY <1>2, <3>4
      <4>2. sums[x] = IF x < Word THEN x ELSE sums[Folds1(x)]
        BY <2>2, <4>1 DEF Carries, Folds1
      <4> HIDE DEF other
      <4> QED BY <3>1, <3>2, <4>1, <4>2
    <3> QED BY <3>3, <3>4
  <2>5. Carries(n, other)
    <3>1. other = [x \in 0 .. n |-> other[x]]
      OBVIOUS
    <3> HIDE DEF other
    <3> QED BY <2>4, <3>1 DEF Carries
  <2> QED BY <1>2, <2>5
<1> QED BY <1>2, <1>3, <1>4

Largest == Word * (MaxSize + 4)

LEMMA FoldedCarries == Carries(Largest, Folded)
<1>1. Largest \in Nat
  BY WordSize DEF Largest
<1>2. \E sums : Carries(Largest, sums)
  BY <1>1, CarriesExist
<1>3. Folded = CHOOSE sums : Carries(Largest, sums)
  BY DEF Folded, Carries, Largest
<1> QED BY <1>2, <1>3, Zenon

(* What folding gives: a word, 0 only of 0, and all ones modulo away. *)
FoldOK(x) ==
  /\ Folded[x] \in 0 .. AllOnes
  /\ (x > 0 <=> Folded[x] > 0)
  /\ \E k \in Int : x = Folded[x] + k * AllOnes

LEMMA FoldedIs == \A x \in 0 .. Largest : FoldOK(x)
<1> DEFINE Bad == {x \in 0 .. Largest : ~ FoldOK(x)}
<1> SUFFICES ASSUME Bad # {} PROVE FALSE
  OBVIOUS
<1>1. PICK x \in Bad : \A j \in Bad : x <= j
  <2>1. Bad \in SUBSET Nat
    BY WordSize DEF Largest
  <2> HIDE DEF Bad
  <2> QED BY <2>1, LeastNat
<1>2. x \in 0 .. Largest /\ ~ FoldOK(x) /\ Largest \in Nat /\ x \in Nat
  BY WordSize DEF Largest
<1>3. Folded[x] = IF x < Word THEN x ELSE Folded[(x % Word) + (x \div Word)]
  BY <1>2, FoldedCarries DEF Carries
<1>4. AllOnes \in Nat /\ Word = AllOnes + 1
  BY WordSize DEF AllOnes
<1>5. CASE x < Word
  <2>1. Folded[x] = x /\ x = x + 0 * AllOnes
    BY <1>2, <1>3, <1>4, <1>5
  <2> QED BY <1>2, <1>4, <1>5, <2>1 DEF FoldOK
<1>6. CASE x >= Word
  <2>1. PICK y : y = (x % Word) + (x \div Word)
    OBVIOUS
  <2>2. y \in 1 .. x - 1 /\ \E k \in Int : x = y + k * AllOnes
    BY <1>2, <1>6, <2>1, CarryIn
  <2>3. y \in 0 .. Largest /\ y \notin Bad
    BY <1>1, <1>2, <2>2
  <2>4. FoldOK(y) /\ Folded[x] = Folded[y] /\ y > 0
    BY <1>2, <1>3, <1>4, <1>6, <2>1, <2>2, <2>3
  <2>5. PICK k \in Int : x = y + k * AllOnes
    BY <2>2
  <2>6. PICK l \in Int : y = Folded[y] + l * AllOnes
    BY <2>4 DEF FoldOK
  <2>7. PICK v : v = Folded[y]
    OBVIOUS
  <2>8. v \in 0 .. AllOnes /\ v > 0
    BY <2>4, <2>7 DEF FoldOK
  <2>9. x = v + (l + k) * AllOnes /\ l + k \in Int
    <3>1. (l + k) * AllOnes = l * AllOnes + k * AllOnes /\ l * AllOnes \in Int /\ k * AllOnes \in Int
      BY <1>4
    <3> QED BY <2>5, <2>6, <2>7, <2>8, <1>4, <3>1
  <2>10. Folded[x] = v
    BY <2>4, <2>7
  <2> QED BY <1>2, <1>4, <1>6, <2>8, <2>9, <2>10 DEF FoldOK
<1> QED BY <1>2, <1>4, <1>5, <1>6

Zeroed(s) == [s EXCEPT ![3] = 0, ![4] = 0]
Field(s) == s[3] * Base + s[4]
Correct(s) == Field(s) = calculate_checksum(Zeroed(s))
Bytes4 == {s \in Seq(Byte) : Len(s) \in 4 .. MaxSize + 4}

LEMMA ZeroedIs ==
  ASSUME NEW s \in Bytes4
  PROVE  /\ Zeroed(s) \in Bytes4 /\ Len(Zeroed(s)) = Len(s)
         /\ \A j \in 1 .. Len(s) : Zeroed(s)[j] = IF j \in {3, 4} THEN 0 ELSE s[j]
         /\ Field(s) \in 0 .. AllOnes
         /\ Sum(s) = Sum(Zeroed(s)) + Field(s)
<1>1. s \in Seq(Byte) /\ Len(s) \in 4 .. MaxSize + 4 /\ MaxSize \in Nat
  BY WordSize DEF Bytes4
<1>2. 0 \in Byte /\ 3 \in 1 .. Len(s) /\ 4 \in 1 .. Len(s)
  BY <1>1, WordSize DEF Byte
<1>3. PICK u : u = [s EXCEPT ![3] = 0]
  OBVIOUS
<1>4. /\ u \in Seq(Byte) /\ Len(u) = Len(s)
      /\ \A j \in 1 .. Len(s) : u[j] = IF j = 3 THEN 0 ELSE s[j]
      /\ Sum(u) = Sum(s) + (0 - s[3]) * Weight(3)
  <2>1. /\ u \in Seq(Byte) /\ Len(u) = Len(s)
        /\ \A j \in 1 .. Len(s) : u[j] = IF j = 3 THEN 0 ELSE s[j]
    BY <1>1, <1>2, <1>3, ExceptSeq
  <2>2. Sum(u) = Sum(s) + (0 - s[3]) * Weight(3)
    BY <1>1, <1>2, <1>3, SumDiffers, Zenon
  <2> QED BY <2>1, <2>2
<1>5. PICK v : v = [u EXCEPT ![4] = 0]
  OBVIOUS
<1>6. /\ v \in Seq(Byte) /\ Len(v) = Len(s)
      /\ \A j \in 1 .. Len(s) : v[j] = IF j = 4 THEN 0 ELSE u[j]
      /\ Sum(v) = Sum(u) + (0 - u[4]) * Weight(4)
  <2>1. u \in Seq(Byte) /\ Len(u) = Len(s) /\ 4 \in 1 .. Len(u)
    BY <1>2, <1>4
  <2>2. /\ v \in Seq(Byte) /\ Len(v) = Len(u)
        /\ \A j \in 1 .. Len(u) : v[j] = IF j = 4 THEN 0 ELSE u[j]
    BY <1>2, <1>5, <2>1, ExceptSeq
  <2>3. Sum(v) = Sum(u) + (0 - u[4]) * Weight(4)
    BY <1>2, <1>5, <2>1, SumDiffers, Zenon
  <2> QED BY <2>1, <2>2, <2>3
<1>7. Zeroed(s) = v
  BY <1>3, <1>5 DEF Zeroed
<1>8. PICK x, y : x = s[3] /\ y = s[4]
  OBVIOUS
<1>9. x \in Byte /\ y \in Byte /\ x \in Nat /\ y \in Nat
  <2>1. x \in Byte /\ y \in Byte
    BY <1>1, <1>2, <1>8, ElementOfSeq
  <2> QED BY <2>1 DEF Byte
<1>10. Field(s) \in 0 .. AllOnes /\ Field(s) = x * Base + y /\ x * Base \in Nat
  BY <1>8, <1>9, WordIsAWord, WordSize DEF Field, AllOnes
<1>11. Weight(3) = Base /\ Weight(4) = 1
  BY DEF Weight
<1>12. u[4] = y
  BY <1>2, <1>4, <1>8
<1>13. Sum(v) \in Nat
  <2>1. PICK n : Half(v, n)
    BY <1>6, Halves
  <2>2. Sum(v) \in 0 .. (n + 1) * (Word - 1)
    BY <1>6, <2>1, SumIsBounded
  <2> QED BY <2>2
<1>14. Sum(s) \in Nat
  <2>1. PICK n : Half(s, n)
    BY <1>1, Halves
  <2>2. Sum(s) \in 0 .. (n + 1) * (Word - 1)
    BY <1>1, <2>1, SumIsBounded
  <2> QED BY <2>2
<1>15. PICK m \in Nat : m = x * Base
  BY <1>10
<1>16. Sum(v) = (Sum(s) - m) - y
  <2>1. (0 - x) * Base = 0 - m /\ (0 - y) * 1 = 0 - y
    BY <1>9, <1>15, WordSize
  <2>2. Sum(u) = Sum(s) + (0 - m) /\ Sum(v) = Sum(u) + (0 - y)
    BY <1>4, <1>6, <1>8, <1>11, <1>12, <2>1
  <2> QED BY <1>9, <1>14, <2>2
<1>17. Sum(s) = Sum(v) + (m + y)
  BY <1>9, <1>13, <1>14, <1>16
<1>18. v \in Bytes4
  BY <1>1, <1>6 DEF Bytes4
<1>19. \A j \in 1 .. Len(s) : v[j] = IF j \in {3, 4} THEN 0 ELSE s[j]
  BY <1>4, <1>6
<1> QED BY <1>6, <1>7, <1>10, <1>15, <1>17, <1>18, <1>19

LEMMA SumFits == ASSUME NEW s \in Bytes4 PROVE Sum(s) \in 0 .. Largest
<1>1. s \in Seq(Byte) /\ Len(s) \in 4 .. MaxSize + 4 /\ MaxSize \in Nat
  BY WordSize DEF Bytes4
<1>2. PICK n : Half(s, n)
  BY <1>1, Halves
<1>3. n \in Nat /\ n + 1 <= MaxSize + 4
  BY <1>1, <1>2 DEF Half
<1>4. Sum(s) \in 0 .. (n + 1) * (Word - 1)
  BY <1>1, <1>2, SumIsBounded
<1>5. PICK w \in Nat : w = Word - 1
  BY WordSize
<1>6. (n + 1) * w <= (MaxSize + 4) * (w + 1)
  <2>1. PICK k \in Nat : MaxSize + 4 = n + 1 + k
    <3>1. (MaxSize + 4) - (n + 1) \in Nat /\ MaxSize + 4 = n + 1 + ((MaxSize + 4) - (n + 1))
      BY <1>1, <1>3
    <3> QED BY <3>1
  <2>2. (n + 1 + k) * (w + 1) = (n + 1) * w + (n + 1) + k * (w + 1) /\ k * (w + 1) >= 0
    BY <1>3
  <2>3. (n + 1) * w \in Nat
    BY <1>3
  <2> QED BY <1>3, <2>1, <2>2, <2>3
<1>7. Largest = (MaxSize + 4) * (w + 1)
  <2>1. Word = w + 1 /\ w + 1 \in Nat
    BY <1>5, WordSize
  <2> QED BY <1>1, <2>1 DEF Largest
<1>8. Largest \in Nat /\ (n + 1) * (Word - 1) <= Largest
  BY <1>1, <1>5, <1>6, <1>7
<1>9. PICK z, p : z = Sum(s) /\ p = (n + 1) * (Word - 1)
  OBVIOUS
<1>10. p \in Nat
  BY <1>3, <1>5, <1>9
<1> QED BY <1>4, <1>8, <1>9, <1>10

LEMMA Multiples ==
  ASSUME NEW x \in Int, NEW y \in Int, Multiple(x)
  PROVE  /\ Multiple(y) => Multiple(x - y) /\ Multiple(x + y)
         /\ x \in 1 - AllOnes .. AllOnes - 1 => x = 0
         /\ x \in 1 .. AllOnes => x = AllOnes
<1>1. PICK a \in Nat : a = AllOnes /\ a >= 3
  BY WordSize DEF AllOnes
<1>2. PICK k \in Int : x = k * a
  BY <1>1 DEF Multiple
<1>3. ASSUME Multiple(y) PROVE Multiple(x - y) /\ Multiple(x + y)
  <2>1. PICK l \in Int : y = l * a
    BY <1>1, <1>3 DEF Multiple
  <2>2. x - y = (k - l) * a /\ x + y = (k + l) * a /\ k - l \in Int /\ k + l \in Int
    BY <1>1, <1>2, <2>1
  <2> QED BY <1>1, <2>2 DEF Multiple
<1>4. k >= 1 => x >= a /\ (k # 1 => x > a)
  <2>1. ASSUME k >= 1 PROVE x >= a /\ (k # 1 => x > a)
    <3>1. k * a = a + (k - 1) * a /\ (k - 1) * a >= 0
      BY <1>1, <2>1
    <3>2. k # 1 => (k - 1) * a >= a
      <4>1. ASSUME k # 1 PROVE (k - 1) * a >= a
        <5>1. (k - 1) * a = a + (k - 2) * a /\ (k - 2) * a >= 0
          BY <1>1, <2>1, <4>1
        <5> QED BY <1>1, <5>1
      <4> QED BY <4>1
    <3>3. PICK p \in Int : p = (k - 1) * a
      BY <1>1
    <3> QED BY <1>1, <1>2, <3>1, <3>2, <3>3
  <2> QED BY <2>1
<1>5. k <= -1 => x <= -a
  <2>1. ASSUME k <= -1 PROVE x <= -a
    <3>1. k * a = (-a) + (k + 1) * a /\ (k + 1) * a <= 0
      BY <1>1, <2>1
    <3> QED BY <1>1, <1>2, <3>1
  <2> QED BY <2>1
<1>6. k = 0 => x = 0
  BY <1>1, <1>2
<1>7. k = 1 => x = a
  BY <1>1, <1>2
<1> QED BY <1>1, <1>3, <1>4, <1>5, <1>6, <1>7

(* The checksum of a datagram: with it the sum is a multiple of all ones,  *)
(* and not 0; such a sum folds to all ones.                                *)
LEMMA ChecksumIs ==
  ASSUME NEW s \in Bytes4
  PROVE  /\ calculate_checksum(s) \in 0 .. AllOnes
         /\ Multiple(Sum(s) + calculate_checksum(s))
         /\ Sum(s) + calculate_checksum(s) > 0
<1>1. PICK x : x = Sum(s)
  OBVIOUS
<1>2. x \in 0 .. Largest /\ FoldOK(x) /\ x \in Nat
  BY <1>1, SumFits, FoldedIs
<1>3. PICK a \in Nat : a = AllOnes /\ a >= 3
  BY WordSize DEF AllOnes
<1>4. PICK v, c : v = Folded[x] /\ c = calculate_checksum(s)
  OBVIOUS
<1>5. c = a - v /\ v \in 0 .. a /\ (x > 0 <=> v > 0)
  BY <1>1, <1>2, <1>3, <1>4 DEF calculate_checksum, FoldOK, AllOnes
<1>6. PICK k \in Int : x = v + k * a
  BY <1>2, <1>3, <1>4 DEF FoldOK
<1>7. x + c = (k + 1) * a /\ k + 1 \in Int
  <2>1. (k + 1) * a = k * a + a /\ k * a \in Int
    BY <1>3, <1>6
  <2> QED BY <1>2, <1>3, <1>5, <1>6, <2>1
<1>8. c \in 0 .. a /\ x + c > 0
  BY <1>2, <1>3, <1>5
<1> QED BY <1>1, <1>3, <1>4, <1>7, <1>8 DEF Multiple

LEMMA CorrectSum ==
  ASSUME NEW s \in Bytes4, Correct(s)
  PROVE  Multiple(Sum(s)) /\ Folded[Sum(s)] = AllOnes
<1>1. Multiple(Sum(s)) /\ Sum(s) > 0
  BY ZeroedIs, ChecksumIs DEF Correct
<1>2. PICK x : x = Sum(s)
  OBVIOUS
<1>3. x \in 0 .. Largest /\ FoldOK(x) /\ x \in Nat /\ x > 0 /\ Multiple(x)
  BY <1>1, <1>2, SumFits, FoldedIs
<1>4. PICK v : v = Folded[x]
  OBVIOUS
<1>5. v \in 1 .. AllOnes /\ AllOnes \in Nat
  BY <1>3, <1>4, WordSize DEF FoldOK, AllOnes
<1>6. PICK k \in Int : x = v + k * AllOnes
  BY <1>3, <1>4 DEF FoldOK
<1>7. PICK y \in Int : y = k * AllOnes
  BY <1>5
<1>8. Multiple(y) /\ v = x - y
  BY <1>3, <1>5, <1>6, <1>7 DEF Multiple
<1>9. Multiple(v)
  BY <1>3, <1>7, <1>8, Multiples
<1> QED BY <1>1, <1>2, <1>4, <1>5, <1>9, Multiples

(* One byte of a correct datagram changed makes it incorrect. *)
LEMMA DamageShows ==
  ASSUME NEW s \in Bytes4, Correct(s), NEW i \in 1 .. Len(s), NEW b \in Byte, b # s[i]
  PROVE  [s EXCEPT ![i] = b] \in Bytes4 /\ ~ Correct([s EXCEPT ![i] = b])
<1>1. PICK t : t = [s EXCEPT ![i] = b]
  OBVIOUS
<1>2. s \in Seq(Byte) /\ t \in Bytes4
  BY <1>1, ExceptSeq DEF Bytes4
<1>3. Sum(t) = Sum(s) + (b - s[i]) * Weight(i)
  BY <1>1, <1>2, SumDiffers
<1>4. PICK x, d : x = s[i] /\ d = (b - s[i]) * Weight(i)
  OBVIOUS
<1>5. x \in Byte /\ x # b
  BY <1>2, <1>4, ElementOfSeq
<1>6. PICK m \in Nat : m = Base /\ m >= 2 /\ AllOnes = m * m - 1
  BY WordSize DEF AllOnes
<1>7. x \in 0 .. m - 1 /\ b \in 0 .. m - 1 /\ x # b
  BY <1>5, <1>6 DEF Byte
<1>8. d # 0 /\ d \in 1 - AllOnes .. AllOnes - 1 /\ d \in Int
  <2>1. m * m >= 2 * m /\ m * m = (m - 1) * m + m
    <3>1. m * m = 2 * m + (m - 2) * m /\ (m - 2) * m >= 0
      BY <1>6
    <3> QED BY <1>6, <3>1
  <2>2. PICK w \in Nat : w = m * m
    BY <1>6
  <2>3. CASE i % 2 = 1
    <3>1. d = (b - x) * m
      BY <1>4, <1>6, <2>3 DEF Weight
    <3>2. b - x \in 1 - m .. m - 1 /\ b - x # 0
      BY <1>6, <1>7
    <3>3. PICK e \in Int : e = b - x
      BY <3>2
    <3>4. (m - 1 - e) * m >= 0 /\ (m - 1 + e) * m >= 0
      BY <1>6, <3>2, <3>3
    <3>5. (m - 1 - e) * m = (m - 1) * m - e * m /\ (m - 1 + e) * m = (m - 1) * m + e * m
      BY <1>6, <3>3
    <3>6. e * m # 0
      BY <1>6, <3>2, <3>3
    <3>7. PICK p \in Int, q \in Int : p = e * m /\ q = (m - 1) * m
      BY <1>6, <3>3
    <3>8. p <= q /\ p >= -q /\ p # 0 /\ w = q + m
      BY <1>6, <2>1, <2>2, <3>4, <3>5, <3>6, <3>7
    <3> QED BY <1>6, <2>2, <3>1, <3>3, <3>7, <3>8
  <2>4. CASE i % 2 # 1
    <3>1. d = b - x
      BY <1>4, <1>7, <2>4 DEF Weight
    <3> QED BY <1>6, <1>7, <2>1, <2>2, <3>1
  <2> QED BY <2>3, <2>4
<1>9. ASSUME Correct(t) PROVE FALSE
  <2>1. Multiple(Sum(t)) /\ Multiple(Sum(s))
    BY <1>2, <1>9, CorrectSum
  <2>2. Sum(s) \in Int /\ Sum(t) \in Int
    BY <1>2, SumFits
  <2>3. d = Sum(t) - Sum(s)
    BY <1>3, <1>4, <1>8, <2>2
  <2>4. Multiple(d)
    BY <2>1, <2>2, <2>3, Multiples
  <2> QED BY <1>8, <2>4, Multiples
<1> QED BY <1>1, <1>2, <1>9

(* A word is in memory as its two bytes, high byte first. *)
LEMMA InMemoryIs ==
  ASSUME NEW v \in 0 .. AllOnes
  PROVE  \E x \in Byte, y \in Byte : InMemory(v) = <<x, y>> /\ v = x * Base + y
<1>1. PICK b \in Nat : b = Base /\ b >= 2 /\ Word = b * b
  BY WordSize
<1>2. PICK q, r : q = v \div b /\ r = v % b
  OBVIOUS
<1>3. v \in Nat /\ v < b * b
  BY <1>1 DEF AllOnes
<1>4. q \in Nat /\ r \in 0 .. b - 1
  BY <1>1, <1>2, <1>3
<1>5. v = q * b + r
  BY <1>1, <1>2, <1>3
<1>6. q <= b - 1
  <2>1. ASSUME q >= b PROVE FALSE
    <3>1. q * b = b * b + (q - b) * b /\ (q - b) * b >= 0
      BY <1>1, <1>4, <2>1
    <3>2. PICK p \in Nat, w \in Nat : p = q * b /\ w = b * b
      BY <1>1, <1>4
    <3> QED BY <1>3, <1>4, <1>5, <3>1, <3>2
  <2> QED BY <1>1, <1>4, <2>1
<1>7. q \in Byte /\ r \in Byte /\ InMemory(v) = <<q, r>>
  BY <1>1, <1>2, <1>4, <1>6 DEF Byte, InMemory
<1> QED BY <1>1, <1>5, <1>7

LEMMA SameWord ==
  ASSUME NEW x \in Byte, NEW y \in Byte, NEW u \in Byte, NEW v \in Byte,
         x * Base + y = u * Base + v
  PROVE  x = u /\ y = v
<1>1. PICK b \in Nat : b = Base /\ b >= 2
  BY WordSize
<1>2. /\ x \in 0 .. b - 1 /\ y \in 0 .. b - 1 /\ u \in 0 .. b - 1 /\ v \in 0 .. b - 1
      /\ x * b + y = u * b + v
  BY <1>1 DEF Byte
<1>3. PICK d \in Int : d = x - u
  BY <1>2
<1>4. d * b = v - y
  <2>1. d * b = x * b - u * b /\ x * b \in Nat /\ u * b \in Nat
    BY <1>1, <1>2, <1>3
  <2>2. PICK p \in Nat, q \in Nat : p = x * b /\ q = u * b
    BY <2>1
  <2> QED BY <1>2, <2>1, <2>2
<1>5. d >= 1 => d * b >= b
  <2>1. d * b = b + (d - 1) * b /\ (d >= 1 => (d - 1) * b >= 0)
    BY <1>1, <1>3
  <2> QED BY <1>1, <1>3, <2>1
<1>6. d <= -1 => d * b <= -b
  <2>1. d * b = (d + 1) * b - b /\ (d <= -1 => (d + 1) * b <= 0)
    BY <1>1, <1>3
  <2> QED BY <1>1, <1>3, <2>1
<1>7. v - y < b /\ v - y > -b
  BY <1>1, <1>2
<1>8. d = 0
  <2>1. PICK p \in Int : p = d * b
    BY <1>1, <1>3
  <2> QED BY <1>1, <1>2, <1>3, <1>4, <1>5, <1>6, <1>7, <2>1
<1>9. v - y = 0
  BY <1>1, <1>4, <1>8
<1> QED BY <1>2, <1>3, <1>8, <1>9

(* The check of the receiver is whether the checksum in the datagram is its *)
(* own, and a datagram as it was sent passes it.                           *)
LEMMA CheckIs ==
  ASSUME NEW s \in Bytes4
  PROVE  SubSeq(s, 3, 4) = InMemory(calculate_checksum([s EXCEPT ![3] = 0, ![4] = 0])) <=> Correct(s)
<1>1. PICK c : c = calculate_checksum(Zeroed(s))
  OBVIOUS
<1>2. c \in 0 .. AllOnes
  BY <1>1, ZeroedIs, ChecksumIs
<1>3. PICK x \in Byte, y \in Byte : InMemory(c) = <<x, y>> /\ c = x * Base + y
  BY <1>2, InMemoryIs
<1>4. s \in Seq(Byte) /\ 3 \in 1 .. Len(s) /\ 4 \in 1 .. Len(s) /\ Len(s) \in Nat
  BY WordSize DEF Bytes4
<1>5. PICK u, v : u = s[3] /\ v = s[4]
  OBVIOUS
<1>6. u \in Byte /\ v \in Byte
  BY <1>4, <1>5, ElementOfSeq
<1>7. SubSeq(s, 3, 4) = <<u, v>>
  <2>1. PICK r : r = SubSeq(s, 3, 4)
    OBVIOUS
  <2>2. \A i \in 3 .. 4 : s[i] \in Byte
    BY <1>4, ElementOfSeq
  <2>3. /\ r \in Seq(Byte) /\ Len(r) = 2
        /\ \A i \in 1 .. 2 : r[i] = s[2 + i]
    <3>1. /\ r \in Seq(Byte)
          /\ Len(r) = IF 3 <= 4 THEN 4 - 3 + 1 ELSE 0
          /\ \A i \in 1 .. 4 - 3 + 1 : r[i] = s[3 + i - 1]
      BY <2>1, <2>2, SubSeqProperties
    <3> QED BY <3>1
  <2>4. r[1] = u /\ r[2] = v
    BY <1>5, <2>3
  <2>5. \A w \in Seq(Byte) : Len(w) = 2 => w = <<w[1], w[2]>>
    OBVIOUS
  <2> QED BY <2>1, <2>3, <2>4, <2>5
<1>8. Field(s) = u * Base + v
  BY <1>5 DEF Field
<1>9. Correct(s) <=> u * Base + v = x * Base + y
  BY <1>1, <1>3, <1>8 DEF Correct
<1>10. Correct(s) <=> (u = x /\ v = y)
  BY <1>3, <1>6, <1>9, SameWord
<1>11. <<u, v>> = <<x, y>> <=> (u = x /\ v = y)
  OBVIOUS
<1> QED BY <1>1, <1>3, <1>7, <1>10, <1>11 DEF Zeroed

LEMMA AssembledIs ==
  ASSUME NEW head \in Seq(Byte), Len(head) = 2, NEW data \in Seq(Byte), Len(data) <= MaxSize,
         NEW x \in Byte, NEW y \in Byte
  PROVE  /\ Assembled(head, data, <<x, y>>) \in Bytes4
         /\ Field(Assembled(head, data, <<x, y>>)) = x * Base + y
         /\ Zeroed(Assembled(head, data, <<x, y>>)) = Assembled(head, data, <<0, 0>>)
<1>1. PICK n \in Nat : n = Len(data)
  BY LenProperties
<1>2. PICK s, t : s = Assembled(head, data, <<x, y>>) /\ t = Assembled(head, data, <<0, 0>>)
  OBVIOUS
<1>3. 0 \in Byte /\ MaxSize \in Nat
  BY WordSize DEF Byte
<1>4. ASSUME NEW a \in Byte, NEW b \in Byte, NEW w, w = Assembled(head, data, <<a, b>>)
      PROVE  /\ w \in Seq(Byte) /\ Len(w) = n + 4 /\ w[3] = a /\ w[4] = b
             /\ \A j \in 1 .. n + 4 : j \notin {3, 4} => w[j] = IF j <= 2 THEN head[j] ELSE data[j - 4]
  <2>1. PICK sums : sums = <<a, b>>
    OBVIOUS
  <2>2. sums \in Seq(Byte) /\ Len(sums) = 2 /\ sums[1] = a /\ sums[2] = b
    BY <2>1
  <2>3. PICK half : half = head \o sums
    OBVIOUS
  <2>4. half \in Seq(Byte) /\ Len(half) = 4 /\ half[3] = a /\ half[4] = b /\ half[1] = head[1] /\ half[2] = head[2]
    <3>1. /\ half \in Seq(Byte) /\ Len(half) = Len(head) + Len(sums)
          /\ \A j \in 1 .. Len(head) + Len(sums) :
               half[j] = IF j <= Len(head) THEN head[j] ELSE sums[j - Len(head)]
      BY <2>2, <2>3, ConcatProperties
    <3>2. \A j \in 1 .. 4 : half[j] = IF j <= 2 THEN head[j] ELSE sums[j - 2]
      BY <2>2, <3>1
    <3>3. half[1] = head[1] /\ half[2] = head[2] /\ half[3] = sums[1] /\ half[4] = sums[2]
      BY <3>2
    <3> QED BY <2>2, <3>1, <3>3
  <2>5. w = half \o data
    BY <1>4, <2>1, <2>3 DEF Assembled
  <2>6. /\ w \in Seq(Byte) /\ Len(w) = n + 4
        /\ \A j \in 1 .. n + 4 : w[j] = IF j <= 4 THEN half[j] ELSE data[j - 4]
    <3>1. /\ w \in Seq(Byte) /\ Len(w) = Len(half) + Len(data)
          /\ \A j \in 1 .. Len(half) + Len(data) :
               w[j] = IF j <= Len(half) THEN half[j] ELSE data[j - Len(half)]
      BY <2>4, <2>5, ConcatProperties
    <3> QED BY <1>1, <2>4, <3>1
  <2> QED BY <1>1, <2>4, <2>6
<1>5. /\ s \in Seq(Byte) /\ Len(s) = n + 4 /\ s[3] = x /\ s[4] = y
      /\ \A j \in 1 .. n + 4 : j \notin {3, 4} => s[j] = IF j <= 2 THEN head[j] ELSE data[j - 4]
  BY <1>2, <1>4
<1>6. /\ t \in Seq(Byte) /\ Len(t) = n + 4 /\ t[3] = 0 /\ t[4] = 0
      /\ \A j \in 1 .. n + 4 : j \notin {3, 4} => t[j] = IF j <= 2 THEN head[j] ELSE data[j - 4]
  BY <1>2, <1>3, <1>4
<1>7. s \in Bytes4
  BY <1>1, <1>3, <1>5 DEF Bytes4
<1>8. Field(s) = x * Base + y
  BY <1>5 DEF Field
<1>9. Zeroed(s) = t
  <2>1. PICK z : z = Zeroed(s)
    OBVIOUS
  <2>2. /\ z \in Seq(Byte) /\ Len(z) = n + 4
        /\ \A j \in 1 .. n + 4 : z[j] = IF j \in {3, 4} THEN 0 ELSE s[j]
    BY <1>5, <1>7, <2>1, ZeroedIs DEF Bytes4
  <2>3. \A j \in 1 .. Len(z) : z[j] = t[j]
    BY <1>5, <1>6, <2>2
  <2> QED BY <1>6, <2>1, <2>2, <2>3, SeqEqual
<1> QED BY <1>2, <1>7, <1>8, <1>9

LEMMA SentIsCorrect ==
  ASSUME NEW head \in Seq(Byte), Len(head) = 2, NEW data \in Seq(Byte), Len(data) <= MaxSize
  PROVE  Sent(head, data) \in Bytes4 /\ Correct(Sent(head, data))
<1>1. PICK t : t = Assembled(head, data, <<0, 0>>)
  OBVIOUS
<1>2. 0 \in Byte
  BY WordSize DEF Byte
<1>3. t \in Bytes4
  BY <1>1, <1>2, AssembledIs
<1>4. PICK c : c = calculate_checksum(t)
  OBVIOUS
<1>5. c \in 0 .. AllOnes
  BY <1>3, <1>4, ChecksumIs
<1>6. PICK x \in Byte, y \in Byte : InMemory(c) = <<x, y>> /\ c = x * Base + y
  BY <1>5, InMemoryIs
<1>7. PICK s : s = Assembled(head, data, <<x, y>>)
  OBVIOUS
<1>8. Sent(head, data) = s
  BY <1>1, <1>4, <1>6, <1>7 DEF Sent
<1>9. s \in Bytes4 /\ Field(s) = c /\ Zeroed(s) = t
  BY <1>1, <1>6, <1>7, AssembledIs
<1> QED BY <1>4, <1>8, <1>9 DEF Correct

Packets == [bytes : Bytes4, at : {"line", "accepted", "refused"}, damaged : BOOLEAN]

PacketOK(p) ==
  /\ p \in Packets
  /\ p.damaged <=> ~ Correct(p.bytes)
  /\ p.at = "accepted" => ~ p.damaged
  /\ p.at = "refused" => p.damaged

PacketInv == PacketOK(packet)

LEMMA PacketStarts ==
  ASSUME NEW head \in Seq(Byte), Len(head) = 2, NEW data \in Seq(Byte), Len(data) <= MaxSize
  PROVE  PacketOK([bytes |-> Sent(head, data), at |-> "line", damaged |-> FALSE])
<1>1. PICK s : s = Sent(head, data)
  OBVIOUS
<1>2. s \in Bytes4 /\ Correct(s)
  BY <1>1, SentIsCorrect
<1> QED BY <1>1, <1>2 DEF PacketOK, Packets

LEMMA ChecksumStarts == ChecksumInit => PacketInv
<1> SUFFICES ASSUME ChecksumInit PROVE PacketInv
  OBVIOUS
<1>1. PICK head \in [1 .. 2 -> Byte], n \in 0 .. MaxSize :
        \E data \in [1 .. n -> Byte] :
          packet = [bytes |-> Sent(head, data), at |-> "line", damaged |-> FALSE]
  BY DEF ChecksumInit
<1>2. PICK data \in [1 .. n -> Byte] :
        packet = [bytes |-> Sent(head, data), at |-> "line", damaged |-> FALSE]
  BY <1>1
<1>3. MaxSize \in Nat
  BY WordSize
<1>4. head \in Seq(Byte) /\ Len(head) = 2
  <2>1. \A m \in Nat : \A half \in [1 .. m -> Byte] : half \in Seq(Byte) /\ Len(half) = m
    OBVIOUS
  <2> QED BY <2>1, Zenon
<1>5. data \in Seq(Byte) /\ Len(data) = n
  BY <1>3
<1> QED BY <1>2, <1>3, <1>4, <1>5, PacketStarts DEF PacketInv

LEMMA ChecksumSteps == PacketInv /\ (ChecksumNext \/ UNCHANGED packet) => PacketInv'
<1> SUFFICES ASSUME PacketInv, ChecksumNext \/ UNCHANGED packet PROVE PacketInv'
  OBVIOUS
<1>1. PICK p : p = packet
  OBVIOUS
<1>2. PICK q : q = packet'
  OBVIOUS
<1>3. PacketOK(p) /\ p \in Packets /\ p.bytes \in Bytes4 /\ p.bytes \in Seq(Byte)
  BY <1>1 DEF PacketInv, PacketOK, Packets, Bytes4
<1>4. CASE Damage
  <2>1. p.at = "line" /\ ~ p.damaged
    BY <1>1, <1>4 DEF Damage
  <2>2. PICK i \in DOMAIN p.bytes, b \in Byte :
          b # p.bytes[i] /\ q = [p EXCEPT !.bytes[i] = b, !.damaged = TRUE]
    BY <1>1, <1>2, <1>4 DEF Damage
  <2>3. i \in 1 .. Len(p.bytes)
    BY <1>3, LenProperties
  <2>4. PICK t : t = [p.bytes EXCEPT ![i] = b]
    OBVIOUS
  <2>5. t \in Bytes4 /\ ~ Correct(t)
    BY <1>3, <2>1, <2>2, <2>3, <2>4, DamageShows DEF PacketOK
  <2>6. q = [bytes |-> t, at |-> "line", damaged |-> TRUE]
    BY <1>3, <2>1, <2>2, <2>4 DEF Packets
  <2>7. PacketOK(q)
    BY <2>5, <2>6 DEF PacketOK, Packets
  <2> QED BY <1>2, <2>7 DEF PacketInv
<1>5. CASE Accept
  <2>1. /\ p.at = "line"
        /\ q = [p EXCEPT !.at =
                  IF SubSeq(p.bytes, 3, 4) =
                     InMemory(calculate_checksum([p.bytes EXCEPT ![3] = 0, ![4] = 0]))
                    THEN "accepted" ELSE "refused"]
    BY <1>1, <1>2, <1>5 DEF Accept
  <2>2. q = [p EXCEPT !.at = IF Correct(p.bytes) THEN "accepted" ELSE "refused"]
    BY <1>3, <2>1, CheckIs
  <2>3. q \in Packets /\ q.bytes = p.bytes /\ q.damaged = p.damaged
        /\ q.at = IF Correct(p.bytes) THEN "accepted" ELSE "refused"
    BY <1>3, <2>2 DEF Packets
  <2>4. PacketOK(q)
    BY <1>3, <2>3 DEF PacketOK
  <2> QED BY <1>2, <2>4 DEF PacketInv
<1>6. CASE UNCHANGED packet
  BY <1>1, <1>3, <1>6 DEF PacketInv
<1> QED BY <1>4, <1>5, <1>6 DEF ChecksumNext

LEMMA ChecksumGives == PacketInv => OneByteIsCaught
<1> SUFFICES ASSUME PacketInv PROVE OneByteIsCaught
  OBVIOUS
<1>1. PICK p : p = packet
  OBVIOUS
<1>2. PacketOK(p) /\ p.bytes \in Bytes4
  BY <1>1 DEF PacketInv, PacketOK, Packets
<1>3. ~ p.damaged => Folded[Sum(p.bytes)] = Word - 1
  BY <1>2, CorrectSum DEF PacketOK, AllOnes
<1> QED BY <1>1, <1>2, <1>3 DEF PacketOK, OneByteIsCaught

(***************************************************************************)
(* FTP: what was read off the wire the server has said, and the deadline   *)
(* of the connection lies behind the last wait of a login.                 *)
(***************************************************************************)
Codes == {"ready", "no", "password", "logged_in", "bye"}
FtpStates == {"DISCONNECTED", "CONNECTING", "CONNECTED", "AUTHENTICATED", "ERROR"}
FtpRecord == [state : FtpStates, at : {"idle", "banner", "user", "pass", "in", "quit"},
              timer : Nat, until : Nat, wire : Seq(Codes), accepted : BOOLEAN]

WireSays(s) == \A i \in 1 .. Len(s.wire) : s.wire[i] = "logged_in" => s.accepted

Waited(s) ==
  CASE s.at = "banner" -> s.until <= Wait
    [] s.at = "user" -> s.until <= 2 * Wait
    [] s.at = "pass" -> s.until <= 3 * Wait
    [] OTHER -> TRUE

FtpOK(s) ==
  /\ s \in FtpRecord /\ WireSays(s) /\ Waited(s)
  /\ s.at \in {"banner", "user", "pass"} => s.timer <= s.until
  /\ s.at \in {"banner", "user", "pass", "in"} => s.state # "ERROR"
  /\ s.at \in {"banner", "user", "pass"} => s.state # "AUTHENTICATED"
  /\ s.state = "AUTHENTICATED" => s.accepted

FtpInv == FtpOK(ftp)

LEMMA FtpStarts == FtpInit => FtpInv
<1> SUFFICES ASSUME FtpInit PROVE FtpInv
  OBVIOUS
<1>1. ftp = Closed /\ Closed \in FtpRecord
  BY DEF FtpInit, Closed, FtpRecord, FtpStates
<1>2. WireSays(Closed) /\ Waited(Closed)
  BY DEF WireSays, Waited, Closed
<1> QED BY <1>1, <1>2 DEF FtpInv, FtpOK, Closed

LEMMA FtpParts ==
  ASSUME NEW s \in FtpRecord
  PROVE  /\ s.state \in FtpStates /\ s.at \in {"idle", "banner", "user", "pass", "in", "quit"}
         /\ s.timer \in Nat /\ s.until \in Nat /\ s.wire \in Seq(Codes) /\ s.accepted \in BOOLEAN
BY DEF FtpRecord

(* A wait that begins: its lines are of this connection. *)
Begun(s, v, where) ==
  /\ v \in FtpRecord /\ WireSays(v) /\ v.at = where /\ v.state = s.state
  /\ v.timer = s.timer /\ v.until = s.timer + Wait /\ (s.accepted => v.accepted)

LEMMA AwaitsBegins ==
  ASSUME NEW s \in FtpRecord, WireSays(s), NEW C \in SUBSET Codes,
         NEW where \in {"banner", "user", "pass", "quit"}, NEW v \in Awaits(s, where, C)
  PROVE  Begun(s, v, where)
<1>1. PICK c \in C, n \in 1 .. Lines : v = Awaiting(s, where, c, n)
  BY DEF Awaits
<1>2. n \in Nat /\ Wait \in Nat
  BY FtpAssumption
<1>3. PICK w, z, b : w = [i \in 1 .. n |-> c] /\ z = s.wire \o w
                     /\ b = (s.accepted \/ c = "logged_in")
  OBVIOUS
<1>4. w \in Seq(Codes) /\ Len(w) = n /\ \A i \in 1 .. n : w[i] = c
  BY <1>2, <1>3
<1>5. s.wire \in Seq(Codes) /\ s.timer \in Nat /\ s.accepted \in BOOLEAN
  BY FtpParts
<1>6. /\ z \in Seq(Codes) /\ Len(z) = Len(s.wire) + n
      /\ \A i \in 1 .. Len(z) : z[i] = IF i <= Len(s.wire) THEN s.wire[i] ELSE w[i - Len(s.wire)]
  BY <1>3, <1>4, <1>5
<1>7. v = [s EXCEPT !.at = where, !.until = s.timer + Wait, !.wire = z, !.accepted = b]
  BY <1>1, <1>3, Zenon DEF Awaiting
<1>8. /\ v.at = where /\ v.until = s.timer + Wait /\ v.wire = z /\ v.accepted = b
      /\ v.state = s.state /\ v.timer = s.timer /\ v \in FtpRecord
  <2>1. v = [state |-> s.state, at |-> where, timer |-> s.timer, until |-> s.timer + Wait,
             wire |-> z, accepted |-> b]
    BY <1>7, Zenon DEF FtpRecord
  <2>2. b \in BOOLEAN
    BY <1>3
  <2>3. s.state \in FtpStates /\ s.timer \in Nat /\ s.timer + Wait \in Nat
    BY <1>2, FtpParts
  <2> QED BY <1>6, <2>1, <2>2, <2>3, Zenon DEF FtpRecord
<1>9. WireSays(v)
  <2> SUFFICES ASSUME NEW i \in 1 .. Len(z), z[i] = "logged_in" PROVE b
    BY <1>8 DEF WireSays
  <2>1. CASE i <= Len(s.wire)
    <3>1. s.wire[i] = "logged_in" /\ i \in 1 .. Len(s.wire)
      BY <1>5, <1>6, <2>1
    <3> QED BY <1>3, <3>1 DEF WireSays
  <2>2. CASE ~ (i <= Len(s.wire))
    <3>1. z[i] = w[i - Len(s.wire)] /\ i - Len(s.wire) \in 1 .. n
      BY <1>2, <1>5, <1>6, <2>2
    <3> QED BY <1>3, <1>4, <3>1
  <2> QED BY <2>1, <2>2
<1>10. s.accepted => v.accepted
  BY <1>3, <1>8
<1> QED BY <1>8, <1>9, <1>10 DEF Begun

LEMMA QuitIsOK ==
  ASSUME NEW s \in FtpRecord, WireSays(s), s.state = "AUTHENTICATED" => s.accepted,
         NEW v \in Disconnect(s)
  PROVE  FtpOK(v)
<1>1. CASE v \in Awaits(s, "quit", {"bye"})
  <2>1. Begun(s, v, "quit")
    BY <1>1, AwaitsBegins DEF Codes
  <2> QED BY <2>1 DEF Begun, FtpOK, Waited
<1>2. CASE v = [s EXCEPT !.at = "quit", !.until = s.timer + Wait]
  <2>1. /\ v \in FtpRecord /\ v.at = "quit" /\ v.wire = s.wire /\ v.accepted = s.accepted
        /\ v.state = s.state
    <3>1. v = [state |-> s.state, at |-> "quit", timer |-> s.timer, until |-> s.timer + Wait,
               wire |-> s.wire, accepted |-> s.accepted]
      BY <1>2, Zenon DEF FtpRecord
    <3>2. s.state \in FtpStates /\ s.timer \in Nat /\ s.timer + Wait \in Nat
      BY FtpAssumption, FtpParts
    <3> QED BY <3>1, <3>2, FtpParts, Zenon DEF FtpRecord
  <2> QED BY <2>1 DEF FtpOK, Waited, WireSays
<1> QED BY <1>1, <1>2 DEF Disconnect

(* USER or PASS, at a moment when its wait ends in time. *)
LEMMA CommandIsOK ==
  ASSUME NEW s \in FtpRecord, WireSays(s), s.state \notin {"ERROR", "AUTHENTICATED"},
         NEW v, \/ v \in User(s) /\ s.timer <= Wait
                \/ v \in Pass(s) /\ s.timer <= 2 * Wait
  PROVE  FtpOK(v)
<1>1. CASE v \in Disconnect(s)
  BY <1>1, QuitIsOK
<1>2. CASE v \in Awaits(s, "user", {"password", "logged_in", "no"}) /\ s.timer <= Wait
  <2>1. Begun(s, v, "user")
    BY <1>2, AwaitsBegins DEF Codes
  <2>2. v.until <= 2 * Wait /\ v.timer <= v.until
    BY <1>2, <2>1, FtpAssumption, FtpParts DEF Begun
  <2> QED BY <2>1, <2>2 DEF Begun, FtpOK, Waited
<1>3. CASE v \in Awaits(s, "pass", {"logged_in", "no"}) /\ s.timer <= 2 * Wait
  <2>1. Begun(s, v, "pass")
    BY <1>3, AwaitsBegins DEF Codes
  <2>2. v.until <= 3 * Wait /\ v.timer <= v.until
    BY <1>3, <2>1, FtpAssumption, FtpParts DEF Begun
  <2> QED BY <2>1, <2>2 DEF Begun, FtpOK, Waited
<1> QED BY <1>1, <1>2, <1>3 DEF User, Pass

LEMMA ReplyIsOK ==
  ASSUME NEW s, FtpOK(s), s.at \notin {"idle", "in"}, NEW code,
         code = "logged_in" => s.accepted,
         s.at \in {"banner", "user", "pass"} => s.timer <= s.until,
         NEW v \in Got(s, code)
  PROVE  FtpOK(v)
<1>1. /\ s \in FtpRecord /\ WireSays(s) /\ Waited(s)
      /\ s.at \in {"banner", "user", "pass"} => s.state \notin {"ERROR", "AUTHENTICATED"}
      /\ s.state = "AUTHENTICATED" => s.accepted
  BY DEF FtpOK
<1>2. CASE s.at = "banner" /\ code = "ready"
  <2>1. PICK c : c = [s EXCEPT !.state = "CONNECTED"]
    OBVIOUS
  <2>2. c = [state |-> "CONNECTED", at |-> s.at, timer |-> s.timer, until |-> s.until,
             wire |-> s.wire, accepted |-> s.accepted]
    BY <1>1, <2>1, Zenon DEF FtpRecord
  <2>3. c \in FtpRecord /\ WireSays(c) /\ c.state = "CONNECTED" /\ c.timer = s.timer
    BY <1>1, <2>2, FtpParts, Zenon DEF FtpRecord, FtpStates, WireSays
  <2>4. v \in User(c)
    BY <1>2, <2>1, Zenon DEF Got, LoggedIn
  <2>5. c.timer <= Wait
    BY <1>1, <1>2, <2>3, FtpParts, FtpAssumption DEF Waited
  <2> QED BY <2>3, <2>4, <2>5, CommandIsOK
<1>3. CASE s.at = "banner" /\ code # "ready"
  <2>1. v = [s EXCEPT !.state = "ERROR", !.at = "idle"]
    BY <1>3, Zenon DEF Got, LoggedIn
  <2>2. v = [state |-> "ERROR", at |-> "idle", timer |-> s.timer, until |-> s.until,
             wire |-> s.wire, accepted |-> s.accepted]
    BY <1>1, <2>1, Zenon DEF FtpRecord
  <2>3. v \in FtpRecord
    BY <1>1, <2>2, FtpParts, Zenon DEF FtpRecord, FtpStates
  <2> QED BY <1>1, <2>2, <2>3 DEF FtpOK, WireSays, Waited
<1>4. CASE s.at = "user" /\ code = "password"
  <2>1. v \in Pass(s)
    BY <1>4, Zenon DEF Got, LoggedIn
  <2>2. s.timer <= 2 * Wait
    BY <1>1, <1>4, FtpParts, FtpAssumption DEF Waited
  <2> QED BY <1>1, <1>4, <2>1, <2>2, CommandIsOK
<1>5. CASE LoggedIn(s, code)
  <2>1. v = [s EXCEPT !.state = "AUTHENTICATED", !.at = "in"]
    BY <1>5, Zenon DEF Got, LoggedIn, Authenticated
  <2>2. v = [state |-> "AUTHENTICATED", at |-> "in", timer |-> s.timer, until |-> s.until,
             wire |-> s.wire, accepted |-> s.accepted]
    BY <1>1, <2>1, Zenon DEF FtpRecord
  <2>3. v \in FtpRecord /\ s.accepted
    BY <1>1, <1>5, <2>2, FtpParts, Zenon DEF FtpRecord, FtpStates, LoggedIn
  <2> QED BY <1>1, <2>2, <2>3 DEF FtpOK, WireSays, Waited
<1>6. CASE s.at = "quit"
  <2>1. v = [s EXCEPT !.state = "DISCONNECTED", !.at = "idle"]
    BY <1>6, Zenon DEF Got, LoggedIn
  <2>2. v = [state |-> "DISCONNECTED", at |-> "idle", timer |-> s.timer, until |-> s.until,
             wire |-> s.wire, accepted |-> s.accepted]
    BY <1>1, <2>1, Zenon DEF FtpRecord
  <2>3. v \in FtpRecord
    BY <1>1, <2>2, FtpParts, Zenon DEF FtpRecord, FtpStates
  <2> QED BY <1>1, <2>2, <2>3 DEF FtpOK, WireSays, Waited
<1>7. CASE /\ ~ (s.at = "banner") /\ ~ (s.at = "user" /\ code = "password")
           /\ ~ LoggedIn(s, code) /\ s.at # "quit"
  <2>1. v \in Disconnect(s)
    BY <1>7, Zenon DEF Got
  <2> QED BY <1>1, <2>1, QuitIsOK
<1> QED BY <1>2, <1>3, <1>4, <1>5, <1>6, <1>7

LEMMA FtpSteps == FtpInv /\ FtpNext => FtpInv'
<1> SUFFICES ASSUME FtpInv, FtpNext PROVE FtpInv'
  OBVIOUS
<1>1. PICK s, v : s = ftp /\ v = ftp'
  OBVIOUS
<1>2. FtpOK(s) /\ s \in FtpRecord /\ WireSays(s) /\ Waited(s)
  BY <1>1 DEF FtpInv, FtpOK
<1>3. /\ s.timer \in Nat /\ s.until \in Nat /\ s.state \in FtpStates
      /\ s.wire \in Seq(Codes) /\ s.accepted \in BOOLEAN
  BY <1>2, FtpParts
<1> SUFFICES FtpOK(v)
  BY <1>1 DEF FtpInv
<1>4. CASE Connect
  <2>1. CASE v = [s EXCEPT !.state = "ERROR"] /\ s.at = "idle"
    <3>1. v = [state |-> "ERROR", at |-> s.at, timer |-> s.timer, until |-> s.until,
               wire |-> s.wire, accepted |-> s.accepted]
      BY <1>2, <2>1, Zenon DEF FtpRecord
    <3>2. v \in FtpRecord
      BY <1>2, <3>1, FtpParts, Zenon DEF FtpRecord, FtpStates
    <3>3. v.state = "ERROR" /\ v.at = "idle" /\ WireSays(v) /\ Waited(v)
      BY <1>2, <2>1, <3>1 DEF WireSays, Waited
    <3> QED BY <3>2, <3>3 DEF FtpOK
  <2>2. CASE v \in Awaits([Closed EXCEPT !.state = "CONNECTING"], "banner", {"ready", "no"})
    <3>1. PICK c : c = [Closed EXCEPT !.state = "CONNECTING"]
      OBVIOUS
    <3>2. c = [state |-> "CONNECTING", at |-> "idle", timer |-> 0, until |-> 0,
               wire |-> <<>>, accepted |-> FALSE]
      BY <3>1 DEF Closed
    <3>3. c \in FtpRecord /\ WireSays(c) /\ c.timer = 0 /\ c.state = "CONNECTING"
      BY <3>2 DEF FtpRecord, FtpStates, WireSays
    <3>4. Begun(c, v, "banner")
      BY <2>2, <3>1, <3>3, AwaitsBegins DEF Codes
    <3>5. v.until <= Wait /\ v.timer <= v.until
      BY <3>3, <3>4, FtpAssumption DEF Begun
    <3>6. Waited(v)
      BY <3>4, <3>5 DEF Begun, Waited
    <3> QED BY <3>3, <3>4, <3>5, <3>6 DEF Begun, FtpOK
  <2>3. s.at = "idle" /\ \/ v = [s EXCEPT !.state = "ERROR"]
                         \/ v \in Awaits([Closed EXCEPT !.state = "CONNECTING"], "banner", {"ready", "no"})
    BY <1>1, <1>4 DEF Connect
  <2> QED BY <2>1, <2>2, <2>3
<1>5. CASE Poll
  <2>1. s.at \notin {"idle", "in"} /\ s.timer < s.until
    BY <1>1, <1>5 DEF Poll, Waiting
  <2>2. PICK now, st : /\ now = s.timer + 1
                       /\ st = IF s.state # "DISCONNECTED" /\ now > Timeout THEN "ERROR" ELSE s.state
    OBVIOUS
  <2>3. v = [s EXCEPT !.timer = now, !.state = st]
    BY <1>1, <1>5, <2>2 DEF Poll, Tick
  <2>4. v = [state |-> st, at |-> s.at, timer |-> now, until |-> s.until,
             wire |-> s.wire, accepted |-> s.accepted]
    BY <1>2, <2>3, Zenon DEF FtpRecord
  <2>5. st \in FtpStates /\ now \in Nat
    BY <1>3, <2>2 DEF FtpStates
  <2>6. v \in FtpRecord
    BY <1>2, <2>4, <2>5, FtpParts, Zenon DEF FtpRecord
  <2>7. WireSays(v) /\ Waited(v)
    BY <1>2, <2>4 DEF WireSays, Waited
  <2>8. s.at \in {"banner", "user", "pass"} => now <= s.until /\ now <= Timeout
    BY <1>2, <1>3, <2>1, <2>2, FtpAssumption DEF Waited
  <2>9. ~ (now > Timeout) => st = s.state
    BY <2>2
  <2>10. s.at \in {"banner", "user", "pass"} => st = s.state
    <3>1. now \in Nat /\ Timeout \in Nat
      BY <2>5, FtpAssumption
    <3> QED BY <2>8, <2>9, <3>1
  <2>11. st = "AUTHENTICATED" => s.state = "AUTHENTICATED"
    BY <2>2
  <2> QED BY <1>2, <2>1, <2>4, <2>6, <2>7, <2>8, <2>10, <2>11 DEF FtpOK
<1>6. CASE Answered
  <2>1. s.at \notin {"idle", "in"} /\ s.timer < s.until
    BY <1>1, <1>6 DEF Answered, Waiting
  <2>2. PICK n \in 1 .. Len(s.wire) : v \in Got([s EXCEPT !.wire = SubSeq(s.wire, n + 1, Len(s.wire))], s.wire[1])
    <3>1. DOMAIN s.wire = 1 .. Len(s.wire)
      BY <1>3
    <3> QED BY <1>1, <1>6, <3>1 DEF Answered
  <2>3. PICK z, c : z = SubSeq(s.wire, n + 1, Len(s.wire)) /\ c = [s EXCEPT !.wire = z]
    OBVIOUS
  <2>4. PICK m \in Nat : m = Len(s.wire)
    BY <1>3
  <2>5. /\ z \in Seq(Codes) /\ Len(z) = m - n
        /\ \A i \in 1 .. Len(z) : z[i] = s.wire[i + n] /\ i + n \in 1 .. Len(s.wire)
    <3>1. n \in 1 .. m /\ z = SubSeq(s.wire, n + 1, m)
      BY <2>3, <2>4
    <3>4. \A i \in 1 .. m - n : i + n \in 1 .. m
      BY <2>4, <3>1
    <3>2. z \in Seq(Codes) /\ Len(z) = m - n
      BY <1>3, <2>4, <3>1
    <3>3. \A i \in 1 .. m - n : z[i] = s.wire[i + n]
      BY <1>3, <2>4, <3>1
    <3> QED BY <2>4, <3>2, <3>3, <3>4
  <2>6. c = [state |-> s.state, at |-> s.at, timer |-> s.timer, until |-> s.until,
             wire |-> z, accepted |-> s.accepted]
    BY <1>2, <2>3, Zenon DEF FtpRecord
  <2>7. c \in FtpRecord
    BY <1>2, <2>5, <2>6, FtpParts, Zenon DEF FtpRecord
  <2>8. WireSays(c)
    BY <1>2, <2>5, <2>6 DEF WireSays
  <2>9. FtpOK(c)
    BY <1>2, <2>6, <2>7, <2>8 DEF FtpOK, Waited
  <2>10. s.wire[1] = "logged_in" => c.accepted
    <3>1. 1 \in 1 .. Len(s.wire)
      BY <2>4
    <3> QED BY <1>2, <2>6, <3>1 DEF WireSays
  <2>11. v \in Got(c, s.wire[1])
    BY <2>2, <2>3
  <2>12. c.at \in {"banner", "user", "pass"} => c.timer <= c.until
    BY <1>3, <2>1, <2>6
  <2> QED BY <2>1, <2>6, <2>9, <2>10, <2>11, <2>12, ReplyIsOK
<1>7. CASE GiveUp
  <2>1. s.at \notin {"idle", "in"} /\ v \in Got(s, "timeout")
    BY <1>1, <1>7 DEF GiveUp
  <2>2. s.at \in {"banner", "user", "pass"} => s.timer <= s.until
    BY <1>2 DEF FtpOK
  <2> QED BY <1>2, <2>1, <2>2, ReplyIsOK
<1>8. CASE Transfer
  <2>1. v \in Disconnect(s)
    BY <1>1, <1>8 DEF Transfer
  <2>2. s.state = "AUTHENTICATED" => s.accepted
    BY <1>2 DEF FtpOK
  <2> QED BY <1>2, <2>1, <2>2, QuitIsOK
<1> QED BY <1>4, <1>5, <1>6, <1>7, <1>8 DEF FtpNext

LEMMA FtpGives == FtpInv => LoginStands
BY DEF FtpInv, FtpOK, LoginStands

-----------------------------------------------------------------------------
(***************************************************************************)
(* DHCP: the numbers of the transactions rise.                             *)
(***************************************************************************)
Bytes == [1 .. 4 -> 0 .. 255]

LEMMA Digits ==
  ASSUME NEW x, NEW a \in Nat, NEW b \in Nat, NEW c \in Nat, NEW d \in Nat,
         x[1] = a, x[2] = b, x[3] = c, x[4] = d
  PROVE  Number(x) = 16777216 * a + 65536 * b + 256 * c + d
BY SMT DEF Number

LEMMA NumberIs ==
  ASSUME NEW x \in Bytes
  PROVE  Number(x) \in Nat
<1>1. PICK a \in Nat, b \in Nat, c \in Nat, d \in Nat :
        x[1] = a /\ x[2] = b /\ x[3] = c /\ x[4] = d
  <2>1. x[1] \in 0 .. 255 /\ x[2] \in 0 .. 255 /\ x[3] \in 0 .. 255 /\ x[4] \in 0 .. 255
    BY DEF Bytes
  <2>2. x[1] \in Nat /\ x[2] \in Nat /\ x[3] \in Nat /\ x[4] \in Nat
    BY <2>1
  <2> QED BY <2>2, Zenon
<1>2. Number(x) = 16777216 * a + 65536 * b + 256 * c + d
  BY <1>1, Digits, SMT
<1> QED BY <1>2, SMT

LEMMA Plus1Is ==
  ASSUME NEW x \in Bytes, x[1] < 255
  PROVE  Plus1(x) \in Bytes /\ Number(Plus1(x)) = Number(x) + 1
<1> DEFINE I == {i \in 1 .. Len(x) : x[i] < 255}
<1>1. Len(x) = 4 /\ x[1] \in 0 .. 255 /\ x[2] \in 0 .. 255 /\ x[3] \in 0 .. 255 /\ x[4] \in 0 .. 255
  BY DEF Bytes
<1>a. x[1] \in Nat /\ x[2] \in Nat /\ x[3] \in Nat /\ x[4] \in Nat
  BY <1>1
<1>2. I = {i \in 1 .. 4 : x[i] < 255}
  BY <1>1
<1>3. I # {}
  <2>1. 1 \in 1 .. 4 /\ (x[1] < 255 => 1 \in I)
    BY <1>2
  <2> QED BY <2>1
<1>4. Max(I) \in I /\ \A i \in I : i <= Max(I)
  <2>1. I \in SUBSET Nat /\ \A i \in I : i <= 4
    BY <1>2
  <2> HIDE DEF I
  <2>2. PICK n \in Nat : n = 4
    OBVIOUS
  <2> QED BY <1>3, <2>1, <2>2, MaxOfNats
<1>5. PICK last \in 1 .. 4 : /\ last = Max(I) /\ x[last] < 255
                             /\ \A i \in 1 .. 4 : i > last => x[i] = 255
  <2>1. Max(I) \in 1 .. 4 /\ x[Max(I)] < 255
    BY <1>2, <1>4
  <2>2. ASSUME NEW i \in 1 .. 4, i > Max(I) PROVE x[i] = 255
    <3>1. i \notin I
      BY <1>4, <2>1, <2>2
    <3>2. x[i] \in 0 .. 255 /\ ~ (x[i] < 255)
      BY <1>2, <3>1 DEF Bytes
    <3> QED BY <3>2
  <2> QED BY <2>1, <2>2
<1>6. PICK y : y = Plus1(x)
  OBVIOUS
<1>7. y = [i \in 1 .. 4 |-> IF i < last THEN x[i] ELSE IF i = last THEN x[i] + 1 ELSE 0]
  BY <1>3, <1>5, <1>6, SMT DEF Plus1, SelectLastInSeq
<1>8. y \in Bytes
  <2>1. ASSUME NEW i \in 1 .. 4 PROVE y[i] \in 0 .. 255
    <3>1. x[i] \in 0 .. 255
      BY DEF Bytes
    <3>2. y[i] = IF i < last THEN x[i] ELSE IF i = last THEN x[i] + 1 ELSE 0
      BY <1>7
    <3>3. PICK z \in 0 .. 255 : z = x[i]
      BY <3>1
    <3>4. i = last => z < 255
      BY <1>5, <3>3
    <3> QED BY <3>2, <3>3, <3>4
  <2> QED BY <1>7, <2>1 DEF Bytes
<1>9. /\ \A i \in 1 .. 4 : i < last => y[i] = x[i]
      /\ y[last] = x[last] + 1
      /\ \A i \in 1 .. 4 : i > last => y[i] = 0 /\ x[i] = 255
  BY <1>5, <1>7
<1>10. Number(y) = Number(x) + 1
  <2>1. CASE last = 1
    <3>1. PICK a \in Nat :
            x[1] = a
      BY <1>a, Zenon
    <3>2. x[1] = a /\ x[2] = 255 /\ x[3] = 255 /\ x[4] = 255
      BY <1>9, <2>1, <3>1
    <3>3. y[1] = a + 1 /\ y[2] = 0 /\ y[3] = 0 /\ y[4] = 0
      BY <1>9, <2>1, <3>1
    <3>4. Number(x) = 16777216 * a + 65536 * 255 + 256 * 255 + 255
      BY <3>2, SMT DEF Number
    <3>5. Number(y) = 16777216 * (a + 1) + 65536 * 0 + 256 * 0 + 0
      BY <3>3, SMT DEF Number
    <3> QED BY <3>4, <3>5, SMT
  <2>2. CASE last = 2
    <3>1. PICK a \in Nat, b \in Nat :
            x[1] = a /\ x[2] = b
      BY <1>a, Zenon
    <3>2. x[1] = a /\ x[2] = b /\ x[3] = 255 /\ x[4] = 255
      BY <1>9, <2>2, <3>1
    <3>3. y[1] = a /\ y[2] = b + 1 /\ y[3] = 0 /\ y[4] = 0
      BY <1>9, <2>2, <3>1
    <3>4. Number(x) = 16777216 * a + 65536 * b + 256 * 255 + 255
      BY <3>2, SMT DEF Number
    <3>5. Number(y) = 16777216 * a + 65536 * (b + 1) + 256 * 0 + 0
      BY <3>3, SMT DEF Number
    <3> QED BY <3>4, <3>5, SMT
  <2>3. CASE last = 3
    <3>1. PICK a \in Nat, b \in Nat, c \in Nat :
            x[1] = a /\ x[2] = b /\ x[3] = c
      BY <1>a, Zenon
    <3>2. x[1] = a /\ x[2] = b /\ x[3] = c /\ x[4] = 255
      BY <1>9, <2>3, <3>1
    <3>3. y[1] = a /\ y[2] = b /\ y[3] = c + 1 /\ y[4] = 0
      BY <1>9, <2>3, <3>1
    <3>4. Number(x) = 16777216 * a + 65536 * b + 256 * c + 255
      BY <3>2, SMT DEF Number
    <3>5. Number(y) = 16777216 * a + 65536 * b + 256 * (c + 1) + 0
      BY <3>3, SMT DEF Number
    <3> QED BY <3>4, <3>5, SMT
  <2>4. CASE last = 4
    <3>1. PICK a \in Nat, b \in Nat, c \in Nat, d \in Nat :
            x[1] = a /\ x[2] = b /\ x[3] = c /\ x[4] = d
      BY <1>a, Zenon
    <3>2. x[1] = a /\ x[2] = b /\ x[3] = c /\ x[4] = d
      BY <1>9, <2>4, <3>1
    <3>3. y[1] = a /\ y[2] = b /\ y[3] = c /\ y[4] = d + 1
      BY <1>9, <2>4, <3>1
    <3>4. Number(x) = 16777216 * a + 65536 * b + 256 * c + d
      BY <3>2, SMT DEF Number
    <3>5. Number(y) = 16777216 * a + 65536 * b + 256 * c + (d + 1)
      BY <3>3, SMT DEF Number
    <3> QED BY <3>4, <3>5, SMT
  <2> QED BY <2>1, <2>2, <2>3, <2>4
<1> QED BY <1>6, <1>8, <1>10

-----------------------------------------------------------------------------
(* The numbers of the transactions an offer was taken in rise, up to that  *)
(* of the transaction that is going on; the next one is beyond all of them. *)
Rising(t, c, n) ==
  /\ t \in Seq(Bytes) /\ c.xid \in Bytes /\ n \in Bytes
  /\ Number(c.xid) < Number(n)
  /\ \A i \in 1 .. Len(t) : Number(t[i]) < Number(c.xid)
  /\ \A i, j \in 1 .. Len(t) : i < j => Number(t[i]) < Number(t[j])

ClientShape(c) ==
  c = [state |-> c.state, xid |-> c.xid, ip |-> c.ip, server |-> c.server, from |-> c.from,
       configured |-> c.configured, renewal |-> c.renewal, last |-> c.last]

Renewing(c, now) ==
  /\ now \in Nat /\ c.last \in Nat /\ c.renewal \in Nat
  /\ c.state = "BOUND" => c.configured /\ (now - c.last < c.renewal \/ now = c.last)

BoundByAck(c, x) == c.state = "BOUND" => x = c.xid

DhcpInv ==
  /\ Rising(taken, client, next_xid) /\ ClientShape(client)
  /\ Renewing(client, dhcp_timer) /\ BoundByAck(client, acked)

LEMMA ZeroIs == Zero \in Bytes /\ Number(Zero) = 0
<1>1. Zero[1] = 0 /\ Zero[2] = 0 /\ Zero[3] = 0 /\ Zero[4] = 0
  BY DEF Zero
<1>2. Number(Zero) = 0
  BY <1>1, SMT DEF Number
<1> QED BY <1>2 DEF Zero, Bytes

LEMMA DhcpStarts == DhcpInit => DhcpInv
<1> SUFFICES ASSUME DhcpInit PROVE DhcpInv
  OBVIOUS
<1>1. /\ client = Unset /\ next_xid = FirstXid /\ dhcp_timer = 0 /\ taken = << >>
  BY DEF DhcpInit
<1>2. /\ Unset.xid = Zero /\ Unset.last = 0 /\ Unset.renewal = 0 /\ Unset.state = "INIT"
      /\ ClientShape(Unset) /\ BoundByAck(Unset, acked)
  BY DEF Unset, ClientShape, BoundByAck
<1>3. FirstXid \in Bytes /\ 0 < Number(FirstXid)
  BY DhcpAssumption DEF Bytes
<1>a. PICK t : t = << >>
  OBVIOUS
<1>4. t = taken /\ t \in Seq(Bytes) /\ Len(t) = 0 /\ 1 .. 0 = {}
  BY <1>1, <1>a
<1>5. Rising(t, Unset, FirstXid)
  BY <1>2, <1>3, <1>4, ZeroIs DEF Rising
<1>6. Renewing(Unset, 0)
  BY <1>2 DEF Renewing
<1> QED BY <1>1, <1>2, <1>4, <1>5, <1>6 DEF DhcpInv

(* While there is room for two more numbers, the counter does not wrap.    *)
LEMMA RoomForTwo ==
  ASSUME Room, next_xid \in Bytes
  PROVE  /\ Plus1(next_xid) \in Bytes /\ Number(Plus1(next_xid)) = Number(next_xid) + 1
         /\ Plus1(Plus1(next_xid)) \in Bytes
         /\ Number(Plus1(Plus1(next_xid))) = Number(next_xid) + 2
<1>1. PICK top : top = <<127, 255, 255, 255>>
  OBVIOUS
<1>2. top[1] = 127 /\ top[2] = 255 /\ top[3] = 255 /\ top[4] = 255
  BY <1>1
<1>3. Number(next_xid) + 2 <= Number(top)
  <2>1. Number(FirstXid) + MaxSent <= Number(top) /\ MaxSent \in Nat /\ FirstXid \in Bytes
    BY <1>1, DhcpAssumption DEF Bytes
  <2>2. Number(FirstXid) \in Nat /\ Number(next_xid) \in Nat
    BY <2>1, NumberIs
  <2>3. top \in Bytes
    BY <1>1 DEF Bytes
  <2>4. Number(top) \in Nat
    BY <2>3, NumberIs
  <2>5. Number(next_xid) + 2 <= Number(FirstXid) + MaxSent
    BY DEF Room
  <2> QED BY <2>1, <2>2, <2>4, <2>5
<1>4. ASSUME NEW x \in Bytes, Number(x) < Number(top) PROVE x[1] < 255
  <2>1. PICK a \in Nat, b \in Nat, c \in Nat, d \in Nat :
          x[1] = a /\ x[2] = b /\ x[3] = c /\ x[4] = d
    <3>1. x[1] \in Nat /\ x[2] \in Nat /\ x[3] \in Nat /\ x[4] \in Nat
      BY DEF Bytes
    <3> QED BY <3>1, Zenon
  <2>2. /\ Number(x) = 16777216 * a + 65536 * b + 256 * c + d
        /\ Number(top) = 16777216 * 127 + 65536 * 255 + 256 * 255 + 255
    BY <1>2, <2>1, Digits, SMT
  <2>3. a < 255
    BY <1>4, <2>2, SMT
  <2> QED BY <2>1, <2>3
<1>5. Number(next_xid) \in Nat
  BY NumberIs
<1>6. Plus1(next_xid) \in Bytes /\ Number(Plus1(next_xid)) = Number(next_xid) + 1
  <2>1. Number(next_xid) < Number(top)
    <3>1. top \in Bytes
      BY <1>1 DEF Bytes
    <3>2. Number(top) \in Nat
      BY <3>1, NumberIs
    <3> QED BY <1>3, <1>5, <3>2
  <2>2. next_xid[1] < 255
    BY <1>4, <2>1
  <2> QED BY <2>2, Plus1Is
<1>7. PICK y \in Bytes : y = Plus1(next_xid)
  BY <1>6
<1>8. Plus1(y) \in Bytes /\ Number(Plus1(y)) = Number(y) + 1
  <2>1. Number(y) < Number(top)
    <3>1. top \in Bytes
      BY <1>1 DEF Bytes
    <3>2. Number(top) \in Nat
      BY <3>1, NumberIs
    <3> QED BY <1>3, <1>5, <1>6, <1>7, <3>2
  <2>2. y[1] < 255
    BY <1>4, <2>1
  <2> QED BY <2>2, Plus1Is
<1> QED BY <1>5, <1>6, <1>7, <1>8

LEMMA NextNumber ==
  ASSUME NEW t, NEW c, NEW n, Rising(t, c, n), NEW d, d.xid = n,
         NEW k \in Bytes, Number(k) = Number(n) + 1
  PROVE  Rising(t, d, k) /\ Rising(Append(t, c.xid), d, k)
<1>1. /\ t \in Seq(Bytes) /\ c.xid \in Bytes /\ n \in Bytes /\ Number(c.xid) < Number(n)
      /\ \A i \in 1 .. Len(t) : Number(t[i]) < Number(c.xid)
      /\ \A i, j \in 1 .. Len(t) : i < j => Number(t[i]) < Number(t[j])
  BY DEF Rising
<1>2. Number(c.xid) \in Nat /\ Number(n) \in Nat /\ \A i \in 1 .. Len(t) : Number(t[i]) \in Nat
  <2>1. \A i \in 1 .. Len(t) : t[i] \in Bytes
    BY <1>1
  <2> QED BY <1>1, <2>1, NumberIs
<1>3. Number(n) < Number(k)
  BY <1>2
<1>4. \A i \in 1 .. Len(t) : Number(t[i]) < Number(n)
  BY <1>1, <1>2
<1>5. Rising(t, d, k)
  BY <1>1, <1>3, <1>4 DEF Rising
<1>a. PICK x : x = c.xid
  OBVIOUS
<1>b. PICK u : u = Append(t, x)
  OBVIOUS
<1>c. PICK l \in Nat : l = Len(t)
  BY <1>1
<1>6. u = Append(t, x) /\ x = c.xid /\ l = Len(t) /\ x \in Bytes
  BY <1>1, <1>a, <1>b, <1>c
<1>7. u \in Seq(Bytes) /\ Len(u) = l + 1 /\ u[l + 1] = x /\ \A i \in 1 .. l : u[i] = t[i]
  BY <1>1, <1>6
<1>8. \A i \in 1 .. l + 1 : i # l + 1 => i \in 1 .. l
  OBVIOUS
<1>9. \A i \in 1 .. Len(u) : Number(u[i]) < Number(n)
  BY <1>1, <1>4, <1>6, <1>7, <1>8
<1>10. ASSUME NEW i \in 1 .. Len(u), NEW j \in 1 .. Len(u), i < j
       PROVE  Number(u[i]) < Number(u[j])
  <2>1. i \in 1 .. l /\ (j \in 1 .. l \/ j = l + 1)
    BY <1>7, <1>10
  <2>2. CASE j = l + 1
    BY <1>1, <1>6, <1>7, <2>1, <2>2
  <2>3. CASE j \in 1 .. l
    <3>1. Number(t[i]) < Number(t[j])
      BY <1>1, <1>6, <1>10, <2>1, <2>3
    <3> QED BY <1>7, <2>1, <2>3, <3>1
  <2> QED BY <2>1, <2>2, <2>3
<1>11. Rising(u, d, k)
  BY <1>1, <1>3, <1>7, <1>9, <1>10 DEF Rising
<1> QED BY <1>5, <1>6, <1>11

(* dhcp_discover and dhcp_request. *)
LEMMA NewTransaction ==
  ASSUME NEW c, ClientShape(c), Discover(c) \/ Request(c)
  PROVE  /\ client'.xid = next_xid /\ ClientShape(client') /\ client'.state # "BOUND"
         /\ client'.last = c.last /\ client'.renewal = c.renewal
         /\ next_xid' = Plus1(next_xid)
<1>1. PICK v : v = client'
  OBVIOUS
<1>2. PICK st \in {"SELECTING", "REQUESTING"} : v = [c EXCEPT !.state = st, !.xid = next_xid]
  BY <1>1 DEF Discover, Request, NewXid
<1>3. v = [state |-> st, xid |-> next_xid, ip |-> c.ip, server |-> c.server, from |-> c.from,
           configured |-> c.configured, renewal |-> c.renewal, last |-> c.last]
  BY <1>2, Zenon DEF ClientShape
<1>4. ClientShape(v) /\ v.xid = next_xid /\ v.state # "BOUND" /\ v.last = c.last
      /\ v.renewal = c.renewal
  BY <1>3 DEF ClientShape
<1> QED BY <1>1, <1>4 DEF Discover, Request

LEMMA DhcpSteps == DhcpInv /\ DhcpNext => DhcpInv'
<1> SUFFICES ASSUME DhcpInv, DhcpNext PROVE DhcpInv'
  OBVIOUS
<1>1. /\ Rising(taken, client, next_xid) /\ ClientShape(client) /\ Renewing(client, dhcp_timer)
      /\ BoundByAck(client, acked) /\ next_xid \in Bytes /\ Room
  BY DEF DhcpInv, Rising, DhcpNext
<1>2. /\ Plus1(next_xid) \in Bytes /\ Number(Plus1(next_xid)) = Number(next_xid) + 1
      /\ Plus1(Plus1(next_xid)) \in Bytes
      /\ Number(Plus1(Plus1(next_xid))) = Number(next_xid) + 2
  BY <1>1, RoomForTwo
<1>3. /\ dhcp_timer \in Nat /\ client.last \in Nat /\ client.renewal \in Nat
      /\ Number(next_xid) \in Nat
  BY <1>1, NumberIs DEF Renewing
<1>4. CASE DhcpYenile
  <2>1. PICK v, k : v = client' /\ k = Plus1(next_xid)
    OBVIOUS
  <2>2. /\ v = [Unset EXCEPT !.state = "SELECTING", !.xid = k]
        /\ next_xid' = Plus1(k) /\ taken' = taken /\ dhcp_timer' = dhcp_timer
    BY <1>4, <2>1 DEF DhcpYenile
  <2>3. ClientShape(v) /\ v.xid = k /\ v.state = "SELECTING" /\ v.last = 0 /\ v.renewal = 0
    BY <2>2 DEF Unset, ClientShape
  <2>4. Renewing(v, dhcp_timer)
    BY <1>3, <2>3 DEF Renewing
  <2>5. PICK d : d.xid = next_xid /\ Rising(taken, d, k)
    <3>1. PICK d : d = [xid |-> next_xid]
      OBVIOUS
    <3>2. d.xid = next_xid
      BY <3>1
    <3> QED BY <1>1, <1>2, <2>1, <3>2, NextNumber
  <2>6. Number(Plus1(k)) = Number(k) + 1 /\ Plus1(k) \in Bytes
    BY <1>2, <1>3, <2>1
  <2>7. Rising(taken, v, Plus1(k))
    BY <2>3, <2>5, <2>6, NextNumber
  <2> QED BY <2>1, <2>2, <2>3, <2>4, <2>7 DEF DhcpInv, BoundByAck
<1>5. CASE Release
  BY <1>1, <1>5 DEF Release, DhcpInv
<1>6. ASSUME NEW c, ClientShape(c), c.xid = client.xid, c.last = client.last,
             c.renewal = client.renewal, Discover(c) \/ Request(c), dhcp_timer' \in Nat,
             taken' = taken \/ taken' = Append(taken, client.xid)
      PROVE  DhcpInv'
  <2>1. PICK v, n : v = client' /\ n = next_xid'
    OBVIOUS
  <2>2. /\ v.xid = next_xid /\ ClientShape(v) /\ v.state # "BOUND"
        /\ v.last = client.last /\ v.renewal = client.renewal /\ n = Plus1(next_xid)
    BY <1>6, <2>1, NewTransaction
  <2>3. Rising(taken, v, n) /\ Rising(Append(taken, client.xid), v, n)
    BY <1>1, <1>2, <2>2, NextNumber
  <2>4. Renewing(v, dhcp_timer')
    BY <1>3, <1>6, <2>2 DEF Renewing
  <2> QED BY <1>6, <2>1, <2>2, <2>3, <2>4 DEF DhcpInv, BoundByAck
<1>7. CASE DhcpTick
  <2>1. dhcp_timer' = dhcp_timer + 1 /\ taken' = taken /\ acked' = acked /\ dhcp_timer' \in Nat
    BY <1>3, <1>7 DEF DhcpTick
  <2>2. CASE Due
    <3>1. Discover(client) \/ Request(client)
      BY <1>7, <2>2 DEF DhcpTick, Renew
    <3> QED BY <1>1, <1>6, <2>1, <3>1
  <2>3. CASE ~ Due
    <3>1. client' = client /\ next_xid' = next_xid
      BY <1>7, <2>3 DEF DhcpTick
    <3>2. Renewing(client, dhcp_timer + 1)
      <4>1. client.state = "BOUND" => dhcp_timer + 1 - client.last < client.renewal
        BY <1>1, <1>3, <2>3 DEF Due, Renewing
      <4>2. client.state = "BOUND" => client.configured
        BY <1>1 DEF Renewing
      <4> QED BY <1>3, <4>1, <4>2 DEF Renewing
    <3> QED BY <1>1, <2>1, <3>1, <3>2 DEF DhcpInv
  <2> QED BY <2>2, <2>3
<1>8. ASSUME NEW m, Offer(m) PROVE DhcpInv'
  <2>1. PICK c : c = [client EXCEPT !.ip = ntohl(m.ip), !.server = m.server]
    OBVIOUS
  <2>2. c = [state |-> client.state, xid |-> client.xid, ip |-> ntohl(m.ip), server |-> m.server,
             from |-> client.from, configured |-> client.configured,
             renewal |-> client.renewal, last |-> client.last]
    BY <1>1, <2>1, Zenon DEF ClientShape
  <2>3. ClientShape(c) /\ c.xid = client.xid /\ c.last = client.last /\ c.renewal = client.renewal
    BY <2>2 DEF ClientShape
  <2>4. Request(c) /\ dhcp_timer' = dhcp_timer /\ taken' = Append(taken, client.xid)
    BY <1>8, <2>1 DEF Offer
  <2> QED BY <1>3, <1>6, <2>3, <2>4
<1>9. ASSUME NEW m, m.lease \in Nat, Ack(m) PROVE DhcpInv'
  <2>1. PICK v, r : v = client' /\ r = m.lease \div 2
    OBVIOUS
  <2>2. /\ v = [client EXCEPT !.state = "BOUND", !.configured = TRUE, !.from = m.server,
                              !.renewal = r, !.last = dhcp_timer]
        /\ next_xid' = next_xid /\ dhcp_timer' = dhcp_timer /\ taken' = taken
        /\ acked' = client.xid
    BY <1>9, <2>1 DEF Ack
  <2>3. v = [state |-> "BOUND", xid |-> client.xid, ip |-> client.ip, server |-> client.server,
             from |-> m.server, configured |-> TRUE, renewal |-> r, last |-> dhcp_timer]
    BY <1>1, <2>2, Zenon DEF ClientShape
  <2>4. r \in Nat
    BY <1>9, <2>1
  <2>5. ClientShape(v) /\ v.xid = client.xid /\ v.last = dhcp_timer /\ v.renewal = r /\ v.configured
    BY <2>3 DEF ClientShape
  <2>6. Renewing(v, dhcp_timer)
    BY <1>3, <2>4, <2>5 DEF Renewing
  <2>7. Rising(taken, v, next_xid)
    BY <1>1, <2>5 DEF Rising
  <2> QED BY <2>1, <2>2, <2>5, <2>6, <2>7 DEF DhcpInv, BoundByAck
<1>10. ASSUME NEW m, Nak(m) PROVE DhcpInv'
  <2>1. Discover(client) /\ dhcp_timer' = dhcp_timer /\ taken' = taken
    BY <1>10 DEF Nak
  <2> QED BY <1>1, <1>3, <1>6, <2>1
<1>11. ASSUME NEW X, NEW m \in Packet(X) PROVE m.lease \in Nat
  BY <1>11, DhcpAssumption DEF Packet
<1> QED BY <1>4, <1>5, <1>7, <1>8, <1>9, <1>10, <1>11 DEF DhcpNext, Process

LEMMA DhcpGives == DhcpInv => LeaseInStep
<1> SUFFICES ASSUME DhcpInv PROVE LeaseInStep
  OBVIOUS
<1>1. /\ taken \in Seq(Bytes)
      /\ \A i, j \in 1 .. Len(taken) : i < j => Number(taken[i]) < Number(taken[j])
  BY DEF DhcpInv, Rising
<1>2. OfferTakenOnce
  <2> SUFFICES ASSUME NEW i \in 1 .. Len(taken), NEW j \in 1 .. Len(taken), taken[i] = taken[j]
               PROVE  i = j
    BY <1>1 DEF OfferTakenOnce
  <2>1. Number(taken[i]) \in Nat /\ Number(taken[j]) \in Nat
    BY <1>1, NumberIs
  <2>2. ~ (i < j) /\ ~ (j < i)
    BY <1>1, <2>1
  <2> QED BY <2>2
<1>3. AsksByHalf
  BY DEF DhcpInv, Renewing, BoundByAck, AsksByHalf
<1> QED BY <1>2, <1>3 DEF LeaseInStep

-----------------------------------------------------------------------------
(***************************************************************************)
(* Address resolution: one entry for an address, the last claim heard for  *)
(* it, whose time and the cleanups since then make up Fresh.               *)
(***************************************************************************)
ArpEntry == [ip : Near, mac : Mac, timeout : 0 .. Fresh]
Claims == [Near -> [mac : Mac \union {"none"}, ago : Nat]]

Current(list, claims) ==
  /\ list \in Seq(ArpEntry) /\ claims \in Claims
  /\ \A i \in 1 .. Len(list) : /\ list[i].mac = claims[list[i].ip].mac
                               /\ claims[list[i].ip].ago + list[i].timeout = Fresh
  /\ \A i, j \in 1 .. Len(list) : list[i].ip = list[j].ip => i = j

ArpInv == Current(arp_cache, heard)

LEMMA NothingCached ==
  ASSUME NEW claims \in Claims
  PROVE  Current(<< >>, claims)
<1>1. PICK list : list = << >>
  OBVIOUS
<1>2. list \in Seq(ArpEntry) /\ Len(list) = 0 /\ 1 .. 0 = {}
  BY <1>1
<1>3. Current(list, claims)
  BY <1>2 DEF Current
<1> QED BY <1>1, <1>3

LEMMA ArpStarts == ArpInit => ArpInv
<1> SUFFICES ASSUME ArpInit PROVE ArpInv
  OBVIOUS
<1>1. arp_cache = << >> /\ heard = [a \in Near |-> [mac |-> "none", ago |-> 0]]
  BY DEF ArpInit
<1>2. heard \in Claims
  BY <1>1 DEF Claims
<1> QED BY <1>1, <1>2, NothingCached DEF ArpInv

(* arp_cache_lookup finds the first entry for the address. *)
LEMMA AtFinds ==
  ASSUME NEW S, arp_cache \in Seq(S), NEW a
  PROVE  \/ ~ Knows(a) /\ \A i \in 1 .. Len(arp_cache) : arp_cache[i].ip # a
         \/ Knows(a) /\ At(a) \in 1 .. Len(arp_cache) /\ arp_cache[At(a)].ip = a
<1> DEFINE I == {i \in 1 .. Len(arp_cache) : arp_cache[i].ip = a}
<1>1. At(a) = IF I # {} THEN Min(I) ELSE 0
  BY SMT DEF At, SelectInSeq
<1>2. CASE I = {}
  BY <1>1, <1>2 DEF Knows
<1>3. CASE I # {}
  <2>1. I \in SUBSET Nat
    OBVIOUS
  <2> HIDE DEF I
  <2>2. Min(I) \in I
    BY <1>3, <2>1, MinOfNats
  <2> USE DEF I
  <2>3. Min(I) \in 1 .. Len(arp_cache) /\ arp_cache[Min(I)].ip = a /\ Min(I) # 0
    BY <2>2
  <2> QED BY <1>1, <1>3, <2>3 DEF Knows
<1> QED BY <1>2, <1>3

LEMMA EntryIs ==
  ASSUME NEW a \in Near, NEW m \in Mac
  PROVE  /\ Entry(a, m) \in ArpEntry /\ Entry(a, m).ip = a /\ Entry(a, m).mac = m
         /\ Entry(a, m).timeout = Fresh
BY ArpAssumption DEF Entry, ArpEntry

(* A claim that is heard and goes to the cache, or finds no memory there.  *)
LEMMA ClaimHeard ==
  ASSUME ArpInv, NEW a \in Near, NEW m \in Mac, NEW list,
         list = CacheAdd(a, m) \/ (~ Knows(a) /\ list = arp_cache),
         NEW claims, claims = [heard EXCEPT ![a] = [mac |-> m, ago |-> 0]]
  PROVE  Current(list, claims)
<1>1. /\ arp_cache \in Seq(ArpEntry) /\ heard \in Claims /\ Fresh \in Nat
      /\ \A i \in 1 .. Len(arp_cache) :
           /\ arp_cache[i] \in ArpEntry /\ arp_cache[i].ip \in Near
           /\ arp_cache[i].mac = heard[arp_cache[i].ip].mac
           /\ heard[arp_cache[i].ip].ago + arp_cache[i].timeout = Fresh
      /\ \A i, j \in 1 .. Len(arp_cache) : arp_cache[i].ip = arp_cache[j].ip => i = j
  <2>1. \A i \in 1 .. Len(arp_cache) : arp_cache[i] \in ArpEntry
    BY DEF ArpInv, Current
  <2>2. \A i \in 1 .. Len(arp_cache) : arp_cache[i].ip \in Near
    BY <2>1 DEF ArpEntry
  <2> QED BY <2>1, <2>2, ArpAssumption DEF ArpInv, Current
<1>2. /\ claims \in Claims /\ claims[a].mac = m /\ claims[a].ago = 0
      /\ \A b \in Near : b # a => claims[b] = heard[b]
  BY <1>1 DEF Claims
<1>3. PICK e : e = Entry(a, m)
  OBVIOUS
<1>4. e \in ArpEntry /\ e.ip = a /\ e.mac = m /\ e.timeout = Fresh
  BY <1>3, EntryIs
<1>5. CASE Knows(a) /\ list = CacheAdd(a, m)
  <2>1. PICK k : k = At(a)
    OBVIOUS
  <2>2. k \in 1 .. Len(arp_cache) /\ arp_cache[k].ip = a
    BY <1>1, <1>5, <2>1, AtFinds
  <2>3. list = [arp_cache EXCEPT ![k] = e]
    BY <1>3, <1>5, <2>1 DEF CacheAdd
  <2>4. /\ list \in Seq(ArpEntry) /\ Len(list) = Len(arp_cache) /\ list[k] = e
        /\ \A i \in 1 .. Len(arp_cache) : i # k => list[i] = arp_cache[i]
    BY <1>1, <1>4, <2>2, <2>3
  <2>5. \A i \in 1 .. Len(list) : i # k => list[i].ip # a
    BY <1>1, <2>2, <2>4
  <2>6. ASSUME NEW i \in 1 .. Len(list)
        PROVE  /\ list[i].mac = claims[list[i].ip].mac
               /\ claims[list[i].ip].ago + list[i].timeout = Fresh
    <3>1. CASE i = k
      BY <1>1, <1>2, <1>4, <2>4, <3>1
    <3>2. CASE i # k
      BY <1>1, <1>2, <2>4, <2>5, <3>2
    <3> QED BY <3>1, <3>2
  <2>7. \A i, j \in 1 .. Len(list) : list[i].ip = list[j].ip => i = j
    <3> SUFFICES ASSUME NEW i \in 1 .. Len(list), NEW j \in 1 .. Len(list), list[i].ip = list[j].ip
                 PROVE  i = j
      OBVIOUS
    <3>1. \A x \in 1 .. Len(list) : list[x].ip = arp_cache[x].ip
      BY <1>4, <2>2, <2>4
    <3> QED BY <1>1, <2>4, <3>1
  <2> QED BY <1>2, <2>4, <2>6, <2>7 DEF Current
<1>6. CASE ~ Knows(a)
  <2>1. \A i \in 1 .. Len(arp_cache) : arp_cache[i].ip # a
    BY <1>1, <1>6, AtFinds
  <2>2. CASE list = arp_cache
    BY <1>1, <1>2, <2>1, <2>2 DEF Current
  <2>3. CASE list = <<e>> \o arp_cache
    <3>1. PICK n \in Nat : n = Len(arp_cache)
      BY <1>1
    <3>2. /\ list \in Seq(ArpEntry) /\ Len(list) = n + 1 /\ list[1] = e
          /\ \A i \in 2 .. n + 1 : list[i] = arp_cache[i - 1]
      BY <1>1, <1>4, <2>3, <3>1
    <3>3. \A i \in 1 .. n + 1 : i # 1 => i \in 2 .. n + 1 /\ i - 1 \in 1 .. n
      OBVIOUS
    <3>4. ASSUME NEW i \in 1 .. Len(list)
          PROVE  /\ list[i].mac = claims[list[i].ip].mac
                 /\ claims[list[i].ip].ago + list[i].timeout = Fresh
      <4>1. CASE i = 1
        BY <1>1, <1>2, <1>4, <3>2, <4>1
      <4>2. CASE i # 1
        <5>1. PICK x \in 1 .. n : list[i] = arp_cache[x]
          BY <3>2, <3>3, <4>2
        <5> QED BY <1>1, <1>2, <2>1, <3>1, <5>1
      <4> QED BY <4>1, <4>2
    <3>5. \A i, j \in 1 .. Len(list) : list[i].ip = list[j].ip => i = j
      <4> SUFFICES ASSUME NEW i \in 1 .. n + 1, NEW j \in 1 .. n + 1, list[i].ip = list[j].ip
                   PROVE  i = j
        BY <3>2
      <4>1. \A x \in 1 .. n + 1 : x # 1 => list[x].ip # a
        BY <2>1, <3>1, <3>2, <3>3
      <4>2. CASE i = 1 \/ j = 1
        BY <1>4, <3>2, <4>1, <4>2
      <4>3. CASE i # 1 /\ j # 1
        <5>1. i - 1 \in 1 .. n /\ j - 1 \in 1 .. n /\ arp_cache[i - 1].ip = arp_cache[j - 1].ip
          BY <3>2, <3>3, <4>3
        <5>2. i - 1 = j - 1
          BY <1>1, <3>1, <5>1
        <5> QED BY <5>2
      <4> QED BY <4>2, <4>3
    <3> QED BY <1>2, <3>2, <3>4, <3>5 DEF Current
  <2>4. list = arp_cache \/ list = <<e>> \o arp_cache
    BY <1>3, <1>6 DEF CacheAdd
  <2> QED BY <2>2, <2>3, <2>4
<1> QED BY <1>5, <1>6

(* arp_cache_cleanup: every entry that is left is one that was there and   *)
(* had time, with a unit less, and two that are left were two.             *)
Left(q, list) ==
  /\ q \in Seq(ArpEntry)
  /\ \A k \in 1 .. Len(q) : \E i \in 1 .. Len(list) :
       /\ q[k].ip = list[i].ip /\ q[k].mac = list[i].mac
       /\ list[i].timeout \in 1 .. Fresh /\ q[k].timeout = list[i].timeout - 1
  /\ \A k, l \in 1 .. Len(q) : k # l => \E i, j \in 1 .. Len(list) :
       i # j /\ q[k].ip = list[i].ip /\ q[l].ip = list[j].ip

LEMMA AgedLeaves ==
  ASSUME NEW list \in Seq(ArpEntry)
  PROVE  Left(Aged(list), list)
<1>0. PICK q : q = Aged(list)
  OBVIOUS
<1>1. PICK n \in Nat : n = Len(list)
  OBVIOUS
<1>2. PICK kept : kept = {i \in 1 .. n : list[i].timeout > 0}
  OBVIOUS
<1>3. DOMAIN list = 1 .. n /\ kept \in SUBSET (1 .. n)
  BY <1>1, <1>2
<1>4. PICK c \in Nat : c = Cardinality(kept)
  <2>1. IsFiniteSet(1 .. n)
    BY FS_Interval
  <2>2. Cardinality(kept) \in Nat
    BY <1>3, <2>1, FS_Subset, FS_CardinalityType
  <2> QED BY <2>2
<1>5. q = [k \in 1 .. c |-> [list[Nth(kept, k)] EXCEPT !.timeout = list[Nth(kept, k)].timeout - 1]]
  BY <1>0, <1>2, <1>3, <1>4 DEF Aged
<1>6. ASSUME NEW k \in 1 .. c
      PROVE  Nth(kept, k) \in kept /\ Cardinality({j \in kept : j <= Nth(kept, k)}) = k
  <2>1. k \in 1 .. Cardinality(kept) /\ n \in Nat
    BY <1>1, <1>4
  <2>2. \E i \in kept : Cardinality({j \in kept : j <= i}) = k
    BY <1>3, <2>1, EveryRank
  <2> QED BY <2>2 DEF Nth
<1>7. ASSUME NEW k \in 1 .. c, NEW i, i = Nth(kept, k)
      PROVE  /\ i \in 1 .. n /\ q[k] \in ArpEntry
             /\ q[k].ip = list[i].ip /\ q[k].mac = list[i].mac
             /\ list[i].timeout \in 1 .. Fresh /\ q[k].timeout = list[i].timeout - 1
  <2>1. i \in kept
    BY <1>6, <1>7
  <2>2. PICK e \in ArpEntry : e = list[i] /\ e.timeout > 0
    BY <1>1, <1>2, <2>1
  <2>3. q[k] = [e EXCEPT !.timeout = e.timeout - 1]
    BY <1>5, <1>7, <2>2
  <2>4. q[k] = [ip |-> e.ip, mac |-> e.mac, timeout |-> e.timeout - 1]
    BY <2>3 DEF ArpEntry
  <2>5. e.ip \in Near /\ e.mac \in Mac /\ e.timeout \in 1 .. Fresh /\ e.timeout - 1 \in 0 .. Fresh
    BY <2>2, ArpAssumption DEF ArpEntry
  <2> QED BY <1>2, <2>1, <2>2, <2>4, <2>5 DEF ArpEntry
<1>8. q \in Seq(ArpEntry) /\ Len(q) = c
  <2>1. \A k \in 1 .. c : q[k] \in ArpEntry
    BY <1>7
  <2>2. q = [k \in 1 .. c |-> q[k]]
    BY <1>5
  <2> QED BY <2>1, <2>2
<1>9. ASSUME NEW k \in 1 .. Len(q)
      PROVE  \E i \in 1 .. Len(list) :
               /\ q[k].ip = list[i].ip /\ q[k].mac = list[i].mac
               /\ list[i].timeout \in 1 .. Fresh /\ q[k].timeout = list[i].timeout - 1
  BY <1>1, <1>7, <1>8
<1>10. ASSUME NEW k \in 1 .. Len(q), NEW l \in 1 .. Len(q), k # l
       PROVE  \E i, j \in 1 .. Len(list) :
                i # j /\ q[k].ip = list[i].ip /\ q[l].ip = list[j].ip
  <2>1. PICK i, j : i = Nth(kept, k) /\ j = Nth(kept, l)
    OBVIOUS
  <2>2. i # j
    BY <1>6, <1>8, <1>10, <2>1
  <2>3. i \in 1 .. n /\ q[k].ip = list[i].ip
    BY <1>7, <1>8, <2>1
  <2>4. j \in 1 .. n /\ q[l].ip = list[j].ip
    BY <1>7, <1>8, <2>1
  <2> QED BY <1>1, <2>2, <2>3, <2>4
<1>11. Left(q, list)
  BY <1>8, <1>9, <1>10 DEF Left
<1> QED BY <1>0, <1>11

LEMMA CleanedUp ==
  ASSUME ArpInv, Cleanup
  PROVE  ArpInv'
<1>1. PICK list, q, old, new : list = arp_cache /\ q = arp_cache' /\ old = heard /\ new = heard'
  OBVIOUS
<1>2. /\ list \in Seq(ArpEntry) /\ old \in Claims /\ Fresh \in Nat
      /\ \A i \in 1 .. Len(list) : /\ list[i].mac = old[list[i].ip].mac
                                   /\ old[list[i].ip].ago + list[i].timeout = Fresh
      /\ \A i, j \in 1 .. Len(list) : list[i].ip = list[j].ip => i = j
  BY <1>1, ArpAssumption DEF ArpInv, Current
<1>a. q = Aged(list) /\ list \in Seq(ArpEntry)
  BY <1>1, <1>2 DEF Cleanup
<1>3. /\ q = Aged(list)
      /\ new = [a \in Near |-> [old[a] EXCEPT !.ago = IF old[a].ago <= Fresh THEN old[a].ago + 1 ELSE old[a].ago]]
  BY <1>1 DEF Cleanup
<1>4. /\ q \in Seq(ArpEntry)
      /\ \A k \in 1 .. Len(q) : \E i \in 1 .. Len(list) :
           /\ q[k].ip = list[i].ip /\ q[k].mac = list[i].mac
           /\ list[i].timeout \in 1 .. Fresh /\ q[k].timeout = list[i].timeout - 1
      /\ \A k, l \in 1 .. Len(q) : k # l => \E i, j \in 1 .. Len(list) :
           i # j /\ q[k].ip = list[i].ip /\ q[l].ip = list[j].ip
  <2>1. Left(q, list)
    BY <1>a, AgedLeaves
  <2> QED BY <2>1 DEF Left
<1>5. ASSUME NEW a \in Near
      PROVE  /\ new[a] \in [mac : Mac \union {"none"}, ago : Nat] /\ new[a].mac = old[a].mac
             /\ old[a].ago \in Nat
             /\ old[a].ago <= Fresh => new[a].ago = old[a].ago + 1
  <2>1. PICK e \in [mac : Mac \union {"none"}, ago : Nat] : e = old[a]
    BY <1>2 DEF Claims
  <2>2. PICK n \in Nat : n = IF e.ago <= Fresh THEN e.ago + 1 ELSE e.ago
    OBVIOUS
  <2>3. new[a] = [e EXCEPT !.ago = n]
    BY <1>3, <2>1, <2>2
  <2>4. new[a] = [mac |-> e.mac, ago |-> n]
    BY <2>3
  <2> QED BY <2>1, <2>2, <2>4
<1>6. new \in Claims
  BY <1>3, <1>5 DEF Claims
<1>7. ASSUME NEW k \in 1 .. Len(q)
      PROVE  q[k].mac = new[q[k].ip].mac /\ new[q[k].ip].ago + q[k].timeout = Fresh
  <2>1. PICK i \in 1 .. Len(list) :
           /\ q[k].ip = list[i].ip /\ q[k].mac = list[i].mac
           /\ list[i].timeout \in 1 .. Fresh /\ q[k].timeout = list[i].timeout - 1
    BY <1>4
  <2>2. PICK a : a = list[i].ip
    OBVIOUS
  <2>3. a \in Near
    <3>1. list[i] \in ArpEntry
      BY <1>2
    <3> QED BY <2>2, <3>1 DEF ArpEntry
  <2>4. list[i].mac = old[a].mac /\ old[a].ago + list[i].timeout = Fresh
    BY <1>2, <2>2
  <2>5. new[a].mac = old[a].mac /\ new[a].ago = old[a].ago + 1 /\ old[a].ago \in Nat
    BY <1>2, <1>5, <2>1, <2>3, <2>4
  <2> QED BY <1>2, <2>1, <2>2, <2>4, <2>5
<1>8. \A k, l \in 1 .. Len(q) : q[k].ip = q[l].ip => k = l
  BY <1>2, <1>4
<1>9. Current(q, new)
  BY <1>4, <1>6, <1>7, <1>8 DEF Current
<1> QED BY <1>1, <1>9 DEF ArpInv

(* The other sessions only send, which leaves the cache alone. *)
LEMMA Quiet ==
  ArpInv /\ UNCHANGED <<arp_cache, heard>> => ArpInv'
BY DEF ArpInv

LEMMA ClaimSteps ==
  ASSUME ArpInv, NEW a \in Near, NEW m \in Mac, Asks(a, m) \/ Answers(a, m)
  PROVE  ArpInv'
<1>1. PICK list, claims : list = arp_cache' /\ claims = heard'
  OBVIOUS
<1>2. /\ list = CacheAdd(a, m) \/ (~ Knows(a) /\ list = arp_cache)
      /\ claims = [heard EXCEPT ![a] = [mac |-> m, ago |-> 0]]
  BY <1>1 DEF Asks, Answers, ArpPacket
<1>3. Current(list, claims)
  BY <1>2, ClaimHeard
<1> QED BY <1>1, <1>3 DEF ArpInv

LEMMA ArpSteps ==
  /\ ArpInv /\ ArpNext => ArpInv'
  /\ ArpInv /\ Reaching => ArpInv'
<1>1. ASSUME ArpInv, AgBaslat PROVE ArpInv'
  <2>1. PICK list : list = arp_cache'
    OBVIOUS
  <2>2. (list = arp_cache \/ list = << >>) /\ heard' = heard
    BY <1>1, <2>1 DEF AgBaslat
  <2>3. Current(list, heard)
    <3>1. CASE list = arp_cache
      BY <1>1, <3>1 DEF ArpInv
    <3>2. CASE list = << >>
      <4>1. heard \in Claims
        BY <1>1 DEF ArpInv, Current
      <4> QED BY <3>2, <4>1, NothingCached
    <3> QED BY <2>2, <3>1, <3>2
  <2> QED BY <2>1, <2>2, <2>3 DEF ArpInv
<1>2. ASSUME ArpInv, ArpNext PROVE ArpInv'
  <2>1. \A a : ArpCommand(a) \/ Ping(a) \/ EchoRequest(a) => UNCHANGED <<arp_cache, heard>>
    BY DEF ArpCommand, Ping, EchoRequest, EchoSent, Send
  <2> QED BY <1>1, <1>2, <2>1, Quiet, CleanedUp, ClaimSteps DEF ArpNext
<1>3. ASSUME ArpInv, Reaching PROVE ArpInv'
  <2>1. Gateway \in Near /\ (CHOOSE m \in Mac : TRUE) \in Mac
    BY ArpAssumption
  <2> QED BY <1>1, <1>3, <2>1, ClaimSteps DEF Reaching
<1> QED BY <1>2, <1>3

LEMMA ArpGives == ArpInv => CacheIsCurrent
<1> SUFFICES ASSUME ArpInv PROVE CacheIsCurrent
  OBVIOUS
<1>1. /\ arp_cache \in Seq(ArpEntry) /\ heard \in Claims /\ Fresh \in Nat
      /\ \A i \in 1 .. Len(arp_cache) :
           /\ arp_cache[i].mac = heard[arp_cache[i].ip].mac
           /\ heard[arp_cache[i].ip].ago + arp_cache[i].timeout = Fresh
      /\ \A i, j \in 1 .. Len(arp_cache) : arp_cache[i].ip = arp_cache[j].ip => i = j
  BY ArpAssumption DEF ArpInv, Current
<1>2. ASSUME NEW i \in 1 .. Len(arp_cache)
      PROVE  heard[arp_cache[i].ip].ago <= Fresh /\ At(arp_cache[i].ip) = i
  <2>1. PICK a : a = arp_cache[i].ip
    OBVIOUS
  <2>2. arp_cache[i] \in ArpEntry
    BY <1>1
  <2>3. a \in Near /\ arp_cache[i].timeout \in Nat
    BY <1>1, <2>1, <2>2 DEF ArpEntry
  <2>4. heard[a].ago \in Nat
    BY <1>1, <2>3 DEF Claims
  <2>5. heard[a].ago <= Fresh
    BY <1>1, <2>1, <2>3, <2>4
  <2>6. At(a) \in 1 .. Len(arp_cache) /\ arp_cache[At(a)].ip = a
    BY <1>1, <2>1, AtFinds
  <2> QED BY <1>1, <2>1, <2>5, <2>6
<1> QED BY <1>1, <1>2 DEF CacheIsCurrent

-----------------------------------------------------------------------------
(***************************************************************************)
(* The resolver: a name is in one valid slot at most, and what the slot    *)
(* says is what the last answer accepted for the name said.                *)
(***************************************************************************)
FreeEntry == [valid : {FALSE}, at : Nat]
NameEntry == [valid : BOOLEAN, name : Name, ip : Address, ttl : Nat, at : Nat]

(* What the history has of an entry's name. *)
Said(e) == [name |-> e.name, ip |-> e.ip, until |-> e.at + e.ttl]

CacheOK(c, last) ==
  /\ DOMAIN c = Slot /\ DOMAIN last = Name
  /\ \A i \in Slot : c[i] \in FreeEntry \union NameEntry
  /\ \A i \in Slot : c[i].valid => last[c[i].name] = Said(c[i])
  /\ \A i, j \in Slot : c[i].valid /\ c[j].valid /\ c[i].name = c[j].name => i = j

HitOK(hit, last, now) ==
  hit # None => /\ last[hit.name] # None /\ hit.ip = last[hit.name].ip
                /\ now < last[hit.name].until

AnswerOK(a) == a.form = "plain" => a.name \in Name /\ a.ip \in Address /\ a.ttl \in Nat

(* In this session the datagrams are queries. *)
FrameOK(x) == x.type = "ip" => x.data.name \in Name

DnsInv ==
  /\ CacheOK(cache, latest) /\ dns_timer \in Nat
  /\ HitOK(result, latest, dns_timer)
  /\ \A a \in answers : AnswerOK(a)
  /\ session = "dns" => \A x \in frames : FrameOK(x)

LEMMA SlotIs == Slot \in SUBSET Nat /\ 0 \in Slot
BY DnsAssumption DEF Slot

LEMMA ValidName ==
  ASSUME NEW c, NEW last, CacheOK(c, last), NEW i \in Slot
  PROVE  /\ c[i].valid \in BOOLEAN /\ c[i].at \in Nat
         /\ c[i].valid => c[i] \in NameEntry
<1>1. c[i] \in FreeEntry \union NameEntry
  BY DEF CacheOK
<1>2. CASE c[i] \in FreeEntry
  <2>1. c[i].valid = FALSE
    BY <1>2, Zenon DEF FreeEntry
  <2> QED BY <1>2, <2>1 DEF FreeEntry
<1>3. CASE c[i] \in NameEntry
  BY <1>3 DEF NameEntry
<1> QED BY <1>1, <1>2, <1>3

LEMMA SaidSomething ==
  ASSUME NEW e
  PROVE  Said(e) # None /\ Said(e).ip = e.ip /\ Said(e).until = e.at + e.ttl
<1>1. DOMAIN Said(e) = {"name", "ip", "until"} /\ DOMAIN None = {"name"}
  BY DEF Said, None
<1>2. Said(e) # None
  BY <1>1
<1> QED BY <1>2 DEF Said

LEMMA DnsStarts == DnsInit /\ ArpInit => DnsInv
<1> SUFFICES ASSUME DnsInit, ArpInit PROVE DnsInv
  OBVIOUS
<1>1. /\ cache = [i \in Slot |-> Empty] /\ latest = [n \in Name |-> None]
      /\ dns_timer = 0 /\ answers = {} /\ result = None /\ frames = {}
  BY DEF DnsInit, ArpInit
<1>2. Empty \in FreeEntry /\ ~ Empty.valid
  BY DEF FreeEntry, Empty
<1>3. CacheOK(cache, latest)
  BY <1>1, <1>2 DEF CacheOK
<1> QED BY <1>1, <1>3 DEF DnsInv, HitOK

(* Entries that are dropped keep their names. *)
Drops(c, d) ==
  /\ DOMAIN d = Slot
  /\ \A i \in Slot : d[i] = c[i] \/ d[i] = [c[i] EXCEPT !.valid = FALSE]

LEMMA WithoutDrops == ASSUME NEW S PROVE Drops(cache, Without(S))
BY DEF Without, Drops

LEMMA DroppedOK ==
  ASSUME NEW c, NEW d, NEW last, CacheOK(c, last), Drops(c, d)
  PROVE  /\ CacheOK(d, last)
         /\ \A i \in Slot : c[i].valid => d[i].name = c[i].name
<1>1. ASSUME NEW i \in Slot
      PROVE  /\ d[i] \in FreeEntry \union NameEntry
             /\ d[i].valid => d[i] = c[i] /\ c[i].valid
             /\ c[i].valid => d[i].name = c[i].name
  <2>1. d[i] = c[i] \/ d[i] = [c[i] EXCEPT !.valid = FALSE]
    BY DEF Drops
  <2>2. c[i] \in FreeEntry \union NameEntry
    BY DEF CacheOK
  <2>3. CASE d[i] = c[i]
    BY <2>2, <2>3
  <2>4. CASE d[i] = [c[i] EXCEPT !.valid = FALSE] /\ c[i] \in FreeEntry
    <3>1. d[i] = [valid |-> FALSE, at |-> c[i].at]
      BY <2>4, Zenon DEF FreeEntry
    <3>2. d[i].valid = FALSE /\ c[i].valid = FALSE
      BY <2>4, <3>1, Zenon DEF FreeEntry
    <3>3. d[i] \in FreeEntry
      BY <2>4, <3>1 DEF FreeEntry
    <3> QED BY <3>2, <3>3
  <2>5. CASE d[i] = [c[i] EXCEPT !.valid = FALSE] /\ c[i] \in NameEntry
    <3>1. d[i] = [valid |-> FALSE, name |-> c[i].name, ip |-> c[i].ip, ttl |-> c[i].ttl,
                  at |-> c[i].at]
      BY <2>5, Zenon DEF NameEntry
    <3>2. ~ d[i].valid /\ d[i].name = c[i].name
      BY <3>1
    <3>3. d[i] \in NameEntry
      BY <2>5, <3>1 DEF NameEntry
    <3> QED BY <3>2, <3>3
  <2> QED BY <2>1, <2>2, <2>3, <2>4, <2>5
<1>2. CacheOK(d, last)
  BY <1>1 DEF CacheOK, Drops
<1> QED BY <1>1, <1>2

(* dns_add_cache_entry takes the slot of the name, or one that is free, or *)
(* an oldest one.                                                          *)
LEMMA SlotForIs ==
  ASSUME CacheOK(cache, latest), dns_timer \in Nat, NEW n \in Name
  PROVE  /\ SlotFor(n) \in Slot
         /\ \/ SlotFor(n) \in Holding(n)
            \/ Holding(n) = {} /\ SlotFor(n) \notin Valid
            \/ /\ Holding(n) = {} /\ Valid = Slot
               /\ \A j \in Slot : cache[SlotFor(n)].at <= cache[j].at
<1>1. Holding(n) \subseteq Slot /\ Valid \subseteq Slot /\ Slot \in SUBSET Nat /\ 0 \in Slot
  BY SlotIs DEF Holding, Valid
<1>2. CASE Holding(n) # {}
  <2>1. PICK H \in SUBSET Nat : H = Holding(n)
    BY <1>1
  <2>2. Min(H) \in H
    BY <1>2, <2>1, MinOfNats
  <2>3. SlotFor(n) = Min(Holding(n))
    BY <1>2, Zenon DEF SlotFor
  <2> QED BY <1>1, <2>1, <2>2, <2>3
<1>3. CASE Holding(n) = {} /\ Valid # Slot
  <2>1. PICK H \in SUBSET Nat : H = Slot \ Valid
    BY <1>1
  <2>2. H # {}
    BY <1>1, <1>3, <2>1
  <2>3. Min(H) \in H
    BY <2>2, MinOfNats
  <2>4. SlotFor(n) = Min(Slot \ Valid)
    BY <1>3, Zenon DEF SlotFor
  <2> QED BY <1>3, <2>1, <2>3, <2>4
<1>4. CASE Holding(n) = {} /\ Valid = Slot
  <2>1. SlotFor(n) = OldestSlot
    BY <1>4, Zenon DEF SlotFor
  <2>2. \A j \in Slot : cache[j].at \in Nat
    BY ValidName
  <2>3. OldestSlot \in Slot /\ \A j \in Slot : cache[OldestSlot].at <= cache[j].at
    <3>1. CASE \A i \in Slot : cache[i].at = dns_timer
      <4>1. OldestSlot = 0
        BY <3>1 DEF OldestSlot
      <4> QED BY <1>1, <2>2, <3>1, <4>1
    <3>2. CASE ~ \A i \in Slot : cache[i].at = dns_timer
      <4>1. PICK A : A = {cache[i].at : i \in Slot}
        OBVIOUS
      <4>2. A \in SUBSET Nat /\ A # {}
        BY <1>1, <2>2, <4>1
      <4>3. PICK x \in A : \A y \in A : x <= y
        BY <4>2, LeastNat
      <4>4. PICK i \in Slot : x = cache[i].at
        BY <4>1, <4>3
      <4>5. PICK O : O = {k \in Slot : \A j \in Slot : cache[k].at <= cache[j].at}
        OBVIOUS
      <4>6. i \in O /\ O \in SUBSET Nat
        BY <1>1, <4>1, <4>3, <4>4, <4>5
      <4>7. Min(O) \in O
        BY <4>6, MinOfNats
      <4>8. OldestSlot = Min(O)
        BY <3>2, <4>5 DEF OldestSlot
      <4> QED BY <4>5, <4>7, <4>8
    <3> QED BY <3>1, <3>2
  <2> QED BY <1>4, <2>1, <2>3
<1> QED BY <1>2, <1>3, <1>4

(* An accepted answer: its name is then in one slot, as it was said. *)
LEMMA AddedOK ==
  ASSUME CacheOK(cache, latest), dns_timer \in Nat,
         NEW n \in Name, NEW ip \in Address, NEW ttl \in Nat,
         NEW d, d = Added(n, ip, ttl),
         NEW last, last = [latest EXCEPT ![n] = [name |-> n, ip |-> ip, until |-> dns_timer + ttl]]
  PROVE  CacheOK(d, last)
<1>1. PICK k : k = SlotFor(n)
  OBVIOUS
<1>2. /\ k \in Slot
      /\ k \in Holding(n) \/ Holding(n) = {}
  BY <1>1, SlotForIs
<1>3. PICK e : e = [valid |-> TRUE, name |-> n, ip |-> ip, ttl |-> ttl, at |-> dns_timer]
  OBVIOUS
<1>4. e \in NameEntry /\ e.valid /\ e.name = n
  BY <1>3 DEF NameEntry
<1>5. d = [cache EXCEPT ![k] = e] /\ DOMAIN cache = Slot /\ DOMAIN latest = Name
  BY <1>1, <1>3 DEF Added, CacheOK
<1>6. /\ DOMAIN d = Slot /\ d[k] = e /\ \A i \in Slot : i # k => d[i] = cache[i]
      /\ DOMAIN last = Name /\ last[n] = Said(e) /\ \A m \in Name : m # n => last[m] = latest[m]
  BY <1>2, <1>3, <1>5 DEF Said
<1>7. ASSUME NEW i \in Slot, i # k, cache[i].valid
      PROVE  cache[i].name \in Name /\ cache[i].name # n
  <2>1. cache[i] \in NameEntry
    BY <1>7, ValidName
  <2>2. cache[i].name # n
    <3>1. SUFFICES ASSUME cache[i].name = n PROVE FALSE
      OBVIOUS
    <3>2. i \in Holding(n)
      BY <1>7, <3>1 DEF Holding, Valid
    <3>3. k \in Slot /\ cache[k].valid /\ cache[k].name = n
      BY <1>2, <3>2 DEF Holding, Valid
    <3> QED BY <1>7, <3>1, <3>3 DEF CacheOK
  <2> QED BY <2>1, <2>2 DEF NameEntry
<1>8. \A i \in Slot : d[i] \in FreeEntry \union NameEntry
  BY <1>4, <1>6 DEF CacheOK
<1>9. \A i \in Slot : d[i].valid => last[d[i].name] = Said(d[i])
  <2> SUFFICES ASSUME NEW i \in Slot, d[i].valid PROVE last[d[i].name] = Said(d[i])
    OBVIOUS
  <2>1. CASE i = k
    BY <1>4, <1>6, <2>1
  <2>2. CASE i # k
    <3>1. d[i] = cache[i] /\ cache[i].valid
      BY <1>6, <2>2
    <3>2. last[cache[i].name] = latest[cache[i].name]
      BY <1>6, <1>7, <2>2, <3>1
    <3> QED BY <3>1, <3>2 DEF CacheOK
  <2> QED BY <2>1, <2>2
<1>10. \A i, j \in Slot : d[i].valid /\ d[j].valid /\ d[i].name = d[j].name => i = j
  <2> SUFFICES ASSUME NEW i \in Slot, NEW j \in Slot, d[i].valid, d[j].valid, d[i].name = d[j].name
               PROVE  i = j
    OBVIOUS
  <2>1. CASE i = k \/ j = k
    BY <1>4, <1>6, <1>7, <2>1
  <2>2. CASE i # k /\ j # k
    BY <1>6, <2>2 DEF CacheOK
  <2> QED BY <2>1, <2>2
<1> QED BY <1>6, <1>8, <1>9, <1>10 DEF CacheOK

LEMMA HitIsSaid ==
  ASSUME CacheOK(cache, latest), dns_timer \in Nat, NEW n, Good(n) # {},
         NEW hit, hit = [name |-> n, ip |-> cache[Min(Good(n))].ip]
  PROVE  HitOK(hit, latest, dns_timer)
<1>1. PICK G \in SUBSET Nat : G = Good(n)
  BY SlotIs DEF Good, Holding, Valid
<1>2. PICK k : k = Min(G)
  OBVIOUS
<1>3. k \in G
  BY <1>1, <1>2, MinOfNats
<1>4. k \in Slot /\ cache[k].valid /\ cache[k].name = n /\ ~ Expired(k)
  BY <1>1, <1>3 DEF Good, Holding, Valid
<1>5. PICK e \in NameEntry : e = cache[k]
  BY <1>4, ValidName
<1>6. latest[n] = Said(e)
  BY <1>4, <1>5 DEF CacheOK
<1>7. e.at \in Nat /\ e.ttl \in Nat /\ ~ (dns_timer - e.at >= e.ttl)
  BY <1>4, <1>5 DEF NameEntry, Expired
<1>8. dns_timer < e.at + e.ttl
  BY <1>7
<1>9. hit.name = n /\ hit.ip = e.ip
  BY <1>1, <1>2, <1>5
<1> QED BY <1>6, <1>8, <1>9, SaidSomething DEF HitOK

(* What a step of the resolver gives its caller. *)
HitStep == HitOK(result', latest, dns_timer)

OldestStep ==
  \A i \in Valid : cache'[i].name # cache[i].name =>
    /\ Valid = Slot
    /\ \A j \in Slot : cache[i].at <= cache[j].at /\ (j # i => cache'[j] = cache[j])

LEMMA DropsNoName ==
  ASSUME CacheOK(cache, latest), Drops(cache, cache')
  PROVE  OldestStep
<1>1. \A i \in Slot : cache[i].valid => cache'[i].name = cache[i].name
  BY DroppedOK
<1> QED BY <1>1 DEF OldestStep, Valid

LEMMA Resolved ==
  ASSUME DnsInv, session' = session, NEW n \in Name, Resolve(n)
  PROVE  DnsInv' /\ HitStep /\ OldestStep
<1>1. /\ CacheOK(cache, latest) /\ dns_timer \in Nat
      /\ dns_timer' = dns_timer /\ answers' = answers /\ latest' = latest
      /\ \A a \in answers : AnswerOK(a)
      /\ session = "dns" => \A x \in frames : FrameOK(x)
  BY DEF DnsInv, Resolve
<1>2. PICK d, hit : d = cache' /\ hit = result'
  OBVIOUS
<1>3. d = Looked(n)
  BY <1>2 DEF Resolve, ResolveHit, ResolveMiss
<1>4. Drops(cache, d)
  BY <1>3, WithoutDrops DEF Looked
<1>5. CacheOK(d, latest) /\ OldestStep
  <2>1. CacheOK(d, latest)
    BY <1>1, <1>4, DroppedOK
  <2>2. Drops(cache, cache')
    BY <1>2, <1>4
  <2> QED BY <1>1, <2>1, <2>2, DropsNoName
<1>6. HitOK(hit, latest, dns_timer)
  <2>1. CASE ResolveHit(n)
    <3>1. Good(n) # {} /\ hit = [name |-> n, ip |-> cache[Min(Good(n))].ip]
      BY <1>2, <2>1 DEF ResolveHit
    <3> QED BY <1>1, <3>1, HitIsSaid
  <2>2. CASE ResolveMiss(n)
    BY <1>2, <2>2 DEF ResolveMiss, HitOK
  <2> QED BY <2>1, <2>2 DEF Resolve
<1>7. session = "dns" => \A x \in frames' : FrameOK(x)
  <2>1. CASE ResolveHit(n)
    BY <1>1, <2>1 DEF ResolveHit
  <2>2. CASE ResolveMiss(n)
    <3>0. PICK q : q = [name |-> n, id |-> transaction_id + 1]
      OBVIOUS
    <3>1. q = [name |-> n, id |-> transaction_id + 1] /\ q.name \in Name
      BY <3>0
    <3>2. frames' = Datagram(Server, q)
      BY <2>2, <3>1 DEF ResolveMiss, Query, Send, Sends
    <3>3. \A x \in Datagram(Server, q) : FrameOK(x)
      BY <3>1 DEF Datagram, ArpRequest, FrameOK
    <3> QED BY <3>2, <3>3
  <2> QED BY <2>1, <2>2 DEF Resolve
<1>8. HitStep
  BY <1>2, <1>6 DEF HitStep
<1> QED BY <1>1, <1>2, <1>5, <1>6, <1>7, <1>8 DEF DnsInv

LEMMA ServerAnswered ==
  ASSUME DnsInv, session' = session, session = "dns", UNCHANGED net, ServerAnswers
  PROVE  DnsInv' /\ HitStep /\ OldestStep
<1>1. /\ cache' = cache /\ dns_timer' = dns_timer /\ result' = result /\ latest' = latest
      /\ frames' = frames
  BY DEF ServerAnswers, net
<1>a. PICK x \in frames : /\ x.type = "ip"
                         /\ \E a \in Answer(x) : answers' = answers \union {a}
  BY DEF ServerAnswers
<1>2. PICK a \in Answer(x) : x.type = "ip" /\ answers' = answers \union {a}
  BY <1>a
<1>3. AnswerOK(a)
  <2>1. x.data.name \in Name
    BY <1>2 DEF DnsInv, FrameOK
  <2>2. CASE a \in [id : {x.data.id}, name : {x.data.name}, form : {"plain"}, ip : Address, ttl : Ttl]
    BY <2>1, <2>2, DnsAssumption DEF AnswerOK
  <2>3. CASE a \in [id : {x.data.id}, name : {x.data.name}, form : {"compressed", "error"}]
    BY <2>3 DEF AnswerOK
  <2> QED BY <2>2, <2>3 DEF Answer
<1>4. DnsInv'
  BY <1>1, <1>2, <1>3 DEF DnsInv
<1>5. HitStep
  BY <1>1 DEF DnsInv, HitStep
<1>6. OldestStep
  BY <1>1 DEF OldestStep
<1> QED BY <1>4, <1>5, <1>6

LEMMA Ticked ==
  ASSUME DnsInv, session' = session, UNCHANGED net, DnsTick
  PROVE  DnsInv' /\ HitStep /\ OldestStep
<1>1. /\ CacheOK(cache, latest) /\ dns_timer' \in Nat /\ result' = None
      /\ answers' = answers /\ latest' = latest /\ frames' = frames
  BY DEF DnsInv, DnsTick, net
<1>2. PICK d : d = cache'
  OBVIOUS
<1>3. Drops(cache, d)
  <2>1. PICK S : d = Without(S) \/ d = cache
    BY <1>2 DEF DnsTick
  <2>2. CASE d = cache
    BY <1>1, <2>2 DEF Drops, CacheOK
  <2> QED BY <2>1, <2>2, WithoutDrops
<1>4. CacheOK(d, latest)
  BY <1>1, <1>3, DroppedOK
<1>5. OldestStep
  BY <1>1, <1>2, <1>3, DropsNoName
<1> QED BY <1>1, <1>2, <1>4, <1>5 DEF DnsInv, HitOK, HitStep

LEMMA Responded ==
  ASSUME DnsInv, session' = session, UNCHANGED net, NEW a \in answers, Response(a)
  PROVE  DnsInv' /\ HitStep /\ OldestStep
<1>1. /\ CacheOK(cache, latest) /\ dns_timer \in Nat /\ dns_timer' = dns_timer /\ result' = None
      /\ answers' = answers /\ frames' = frames /\ AnswerOK(a)
  BY DEF DnsInv, Response, net
<1>2. CASE a.id = transaction_id /\ a.form = "plain"
  <2>1. PICK n \in Name, ip \in Address, ttl \in Nat : n = a.name /\ ip = a.ip /\ ttl = a.ttl
    BY <1>1, <1>2 DEF AnswerOK
  <2>2. PICK d, last : d = cache' /\ last = latest'
    OBVIOUS
  <2>3. Accepts(a)
    BY <1>2 DEF Accepts, CurrentOnly, ReadAsAddress
  <2>4. d = Added(n, ip, ttl)
    BY <2>1, <2>2, <2>3 DEF Response
  <2>5. last = [latest EXCEPT ![n] = [name |-> n, ip |-> ip, until |-> dns_timer + ttl]]
    BY <1>2, <2>1, <2>2 DEF Response
  <2>6. CacheOK(d, last)
    BY <1>1, <2>4, <2>5, AddedOK
  <2>7. OldestStep
    <3>1. PICK k, e : k = SlotFor(n) /\ e = [valid |-> TRUE, name |-> n, ip |-> ip, ttl |-> ttl, at |-> dns_timer]
      OBVIOUS
    <3>2. k \in Slot /\ d = [cache EXCEPT ![k] = e] /\ DOMAIN cache = Slot /\ e.name = n
      BY <1>1, <2>4, <3>1, SlotForIs DEF Added, CacheOK
    <3>3. d[k] = e /\ \A j \in Slot : j # k => d[j] = cache[j]
      BY <3>2
    <3>4. ASSUME NEW i \in Valid, d[i].name # cache[i].name
          PROVE  /\ Valid = Slot
                 /\ \A j \in Slot : cache[i].at <= cache[j].at /\ (j # i => d[j] = cache[j])
      <4>1. i = k /\ i \in Slot /\ cache[i].name # n
        BY <3>2, <3>3, <3>4 DEF Valid
      <4>2. k \notin Holding(n)
        BY <4>1 DEF Holding
      <4>3. Valid = Slot /\ \A j \in Slot : cache[k].at <= cache[j].at
        BY <1>1, <3>1, <3>4, <4>1, <4>2, SlotForIs
      <4> QED BY <3>3, <4>1, <4>3
    <3> QED BY <2>2, <3>4 DEF OldestStep
  <2> QED BY <1>1, <2>2, <2>6, <2>7 DEF DnsInv, HitOK, HitStep
<1>3. CASE ~ (a.id = transaction_id /\ a.form = "plain")
  <2>1. cache' = cache /\ latest' = latest
    BY <1>3 DEF Response, Accepts, CurrentOnly, ReadAsAddress
  <2> QED BY <1>1, <2>1 DEF DnsInv, HitOK, HitStep, OldestStep
<1> QED BY <1>2, <1>3

LEMMA DnsSteps ==
  ASSUME DnsInv, session = "dns", session' = session, DnsNext
  PROVE  DnsInv' /\ HitStep /\ OldestStep
BY Resolved, ServerAnswered, Ticked, Responded DEF DnsNext

(* The frames of address resolution are not datagrams. *)
LEMMA ReachingAsks ==
  ASSUME DnsInv, session' = session, Reaching
  PROVE  DnsInv'
<1>1. frames' = {} /\ UNCHANGED resolver
  BY DEF Reaching, AgBaslat, Answers, ArpPacket, Sends
<1> QED BY <1>1 DEF DnsInv, resolver

LEMMA DnsRests ==
  ASSUME DnsInv, session' = session, UNCHANGED resolver, session # "dns" \/ UNCHANGED net
  PROVE  DnsInv'
BY DEF DnsInv, resolver, net

-----------------------------------------------------------------------------
(***************************************************************************)
(* The sessions together.                                                  *)
(***************************************************************************)
NetInv == FtpInv /\ DhcpInv /\ ArpInv /\ DnsInv

LEMMA NetStarts == Init => NetInv
<1> SUFFICES ASSUME Init PROVE NetInv
  OBVIOUS
<1>1. FtpInit /\ DhcpInit /\ ArpInit /\ DnsInit
  BY DEF Init
<1> QED BY <1>1, FtpStarts, DhcpStarts, ArpStarts, DnsStarts DEF NetInv

LEMMA AtRest ==
  /\ FtpInv /\ UNCHANGED ftp => FtpInv'
  /\ DhcpInv /\ UNCHANGED dhcp => DhcpInv'
  /\ ArpInv /\ UNCHANGED net => ArpInv'
<1>1. FtpInv /\ UNCHANGED ftp => FtpInv'
  BY DEF FtpInv
<1>3. DhcpInv /\ UNCHANGED dhcp => DhcpInv'
  BY DEF DhcpInv, dhcp
<1>4. ArpInv /\ UNCHANGED net => ArpInv'
  BY DEF ArpInv, net
<1> QED BY <1>1, <1>3, <1>4

LEMMA OnlySend ==
  /\ DnsNext => UNCHANGED <<arp_cache, heard>>
  /\ DhcpNext => UNCHANGED <<arp_cache, heard>>
<1>1. ASSUME NEW n, Resolve(n) PROVE UNCHANGED <<arp_cache, heard>>
  BY <1>1 DEF Resolve, ResolveHit, ResolveMiss, Query, Send
<1>2. DnsNext => UNCHANGED <<arp_cache, heard>>
  BY <1>1 DEF DnsNext, net
<1>3. ASSUME NEW c, Discover(c) \/ Request(c) PROVE UNCHANGED <<arp_cache, heard>>
  BY <1>3 DEF Discover, Request, SendPacket, Send
<1>4. DhcpYenile \/ Release => UNCHANGED <<arp_cache, heard>>
  BY DEF DhcpYenile, Release, SendPacket, Send
<1>5. DhcpTick => UNCHANGED <<arp_cache, heard>>
  BY <1>3 DEF DhcpTick, Renew, net
<1>6. ASSUME NEW m, Process(m) PROVE UNCHANGED <<arp_cache, heard>>
  BY <1>3, <1>6 DEF Process, Offer, Ack, Nak
<1>7. DhcpNext => UNCHANGED <<arp_cache, heard>>
  BY <1>4, <1>5, <1>6 DEF DhcpNext
<1> QED BY <1>2, <1>7

LEMMA NetStep == NetInv /\ [Next]_vars => NetInv'
<1> SUFFICES ASSUME NetInv, [Next]_vars PROVE NetInv'
  OBVIOUS
<1>1. FtpInv /\ DhcpInv /\ ArpInv /\ DnsInv
  BY DEF NetInv
<1>2. CASE UNCHANGED vars
  BY <1>1, <1>2, AtRest, DnsRests DEF NetInv, vars
<1>3. CASE Next
  <2>1. session' = session
    BY <1>3 DEF Next
  <2>2. CASE session = "ping" /\ ArpNext /\ UNCHANGED <<resolver, dhcp, ftp>>
    BY <1>1, <2>1, <2>2, AtRest, DnsRests, ArpSteps DEF NetInv
  <2>3. CASE Reaching /\ UNCHANGED <<resolver, dhcp, ftp>>
    BY <1>1, <2>1, <2>3, AtRest, ReachingAsks, ArpSteps DEF NetInv
  <2>4. CASE session = "dns" /\ DnsNext /\ UNCHANGED <<dhcp, ftp>>
    BY <1>1, <2>1, <2>4, AtRest, DnsSteps, OnlySend, Quiet DEF NetInv
  <2>5. CASE session = "dhcp" /\ DhcpNext /\ UNCHANGED <<resolver, ftp>>
    BY <1>1, <2>1, <2>5, AtRest, DnsRests, DhcpSteps, OnlySend, Quiet DEF NetInv
  <2>7. CASE FtpNext /\ UNCHANGED <<net, resolver, dhcp>>
    BY <1>1, <2>1, <2>7, AtRest, DnsRests, FtpSteps DEF NetInv
  <2>8. CASE UNCHANGED <<net, resolver, dhcp, ftp>>
    BY <1>1, <2>1, <2>8, AtRest, DnsRests DEF NetInv
  <2>9. CASE /\ UNCHANGED ftp
             /\ \/ session = "ping" /\ ArpNext /\ UNCHANGED <<resolver, dhcp>>
                \/ Reaching
                \/ session = "dns" /\ DnsNext /\ UNCHANGED dhcp
                \/ session = "dhcp" /\ DhcpNext /\ UNCHANGED resolver
                \/ UNCHANGED <<net, resolver, dhcp>>
    <3>1. CASE session = "ping" /\ ArpNext /\ UNCHANGED <<resolver, dhcp>>
      BY <2>2, <2>9, <3>1
    <3>2. CASE Reaching
      <4>1. UNCHANGED <<resolver, dhcp>>
        BY <3>2 DEF Reaching
      <4> QED BY <2>3, <2>9, <3>2, <4>1
    <3>3. CASE session = "dns" /\ DnsNext /\ UNCHANGED dhcp
      BY <2>4, <2>9, <3>3
    <3>4. CASE session = "dhcp" /\ DhcpNext /\ UNCHANGED resolver
      BY <2>5, <2>9, <3>4
    <3>5. CASE UNCHANGED <<net, resolver, dhcp>>
      BY <2>8, <2>9, <3>5
    <3> QED BY <2>9, <3>1, <3>2, <3>3, <3>4, <3>5
  <2>10. CASE FtpNext /\ UNCHANGED <<net, resolver, dhcp, packet>>
    BY <2>7, <2>10
  <2> QED BY <1>3, <2>8, <2>9, <2>10 DEF Next
<1> QED BY <1>2, <1>3

LEMMA NetInvariant == Spec => []NetInv
BY NetStarts, NetStep, PTL DEF Spec

(* Every step of the resolver, and no other, concerns its cache. *)
LEMMA ResolverSteps ==
  NetInv /\ [Next]_vars => (HitStep /\ OldestStep) \/ UNCHANGED resolver
<1> SUFFICES ASSUME NetInv, [Next]_vars, ~ UNCHANGED resolver PROVE HitStep /\ OldestStep
  OBVIOUS
<1>1. Next /\ session' = session
  BY DEF vars, Next
<1>2. session = "dns" /\ DnsNext
  BY <1>1 DEF Next, Reaching
<1> QED BY <1>1, <1>2, DnsSteps DEF NetInv

(* The checksum at work: every step but those on the line leaves the packet *)
(* alone.                                                                  *)
LEMMA PacketInvariant == Spec => []PacketInv
<1>1. Init => PacketInv
  <2>1. ASSUME packet = NoPacket PROVE PacketInv
    <3>1. 0 \in Byte /\ MaxSize \in Nat
      BY WordSize DEF Byte
    <3>2. <<0, 0>> \in Seq(Byte) /\ Len(<<0, 0>>) = 2 /\ << >> \in Seq(Byte) /\ Len(<< >>) = 0
      BY <3>1
    <3>3. PICK head, data : head = <<0, 0>> /\ data = << >>
      OBVIOUS
    <3>4. head \in Seq(Byte) /\ Len(head) = 2 /\ data \in Seq(Byte) /\ Len(data) <= MaxSize
      BY <3>1, <3>2, <3>3
    <3>5. PacketOK([bytes |-> Sent(head, data), at |-> "line", damaged |-> FALSE])
      BY <3>4, PacketStarts
    <3> QED BY <2>1, <3>3, <3>5 DEF PacketInv, NoPacket
  <2> QED BY <2>1, ChecksumStarts DEF Init
<1>2. PacketInv /\ [Next]_vars => PacketInv'
  <2>1. [Next]_vars => ChecksumNext \/ UNCHANGED packet
    BY DEF Next, vars
  <2> QED BY <2>1, ChecksumSteps
<1> QED BY <1>1, <1>2, PTL DEF Spec

(* A packet as it was sent sums up to all ones and is accepted, one with a *)
(* changed byte is refused, for packets of every size and bytes of any     *)
(* number of values (ip_calculate_checksum and its like).                  *)
THEOREM ChecksumCorrect == Spec => []OneByteIsCaught
<1> QED BY ChecksumGives, PacketInvariant, PTL

(* The client is authenticated over FTP only if the server of this         *)
(* connection said so, and no login under way ends by the deadline, for    *)
(* any number of lines and any waits that three of fit in it (ftp.c).      *)
THEOREM LoginCorrect == Spec => []LoginStands
<1>1. NetInv => LoginStands
  BY FtpGives DEF NetInv
<1> QED BY <1>1, NetInvariant, PTL

(* An offer is taken once, and a client is bound by the answer to its      *)
(* latest request alone, for at most half of the lease, for any leases,    *)
(* servers and answers that pass the test of the number and as many        *)
(* transactions as the numbers last (dhcp.c).  That a lease is renewed     *)
(* does not follow: a request that is lost is not repeated.                *)
THEOREM LeaseCorrect == Spec => []LeaseInStep
<1>1. NetInv => LeaseInStep
  BY DhcpGives DEF NetInv
<1> QED BY <1>1, NetInvariant, PTL

(* What the caches of addresses and of names hand out is the last that was *)
(* heard and not too old, and a full cache of names drops its oldest, for  *)
(* any hosts, names and sizes (arp.c, dns.c).                              *)
THEOREM CachesCorrect == Spec => CachesAreCurrent
<1>1. NetInv => CacheIsCurrent
  BY ArpGives DEF NetInv
<1>2. NetInv /\ [Next]_vars =>
        [result' # None =>
           /\ latest[result'.name] # None
           /\ result'.ip = latest[result'.name].ip
           /\ dns_timer < latest[result'.name].until]_resolver
  BY ResolverSteps DEF HitStep, HitOK
<1>3. NetInv /\ [Next]_vars =>
        [\A i \in Valid :
           cache'[i].name # cache[i].name =>
             /\ Valid = Slot
             /\ \A j \in Slot :
                  cache[i].at <= cache[j].at /\ (j # i => cache'[j] = cache[j])]_resolver
  BY ResolverSteps DEF OldestStep
<1>4. Spec => HitIsFresh
  BY <1>2, NetInvariant, PTL DEF Spec, HitIsFresh
<1>5. Spec => OldestGoes
  BY <1>3, NetInvariant, PTL DEF Spec, OldestGoes
<1> QED BY <1>1, <1>4, <1>5, NetInvariant, PTL DEF CachesAreCurrent
=============================================================================
