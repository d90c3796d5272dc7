--------------------------- MODULE Response_proof ---------------------------
(***************************************************************************)
(* Proofs about Response: what the ring holds, which answers are accepted  *)
(* and which are passed over, and how long a call takes.                   *)
(***************************************************************************)
EXTENDS Response, SequenceTheorems, WellFoundedInduction, TLAPS

(* What the search leaves in the ring is shorter than a frame, so that the *)
(* next piece has room beside it.                                          *)
Unread ==
  /\ at \in {"waiting", "stalled"} => recvPos - readPos <= MaxLen + 1
  /\ recvPos - readPos <= MaxLen + 1 + MaxPiece

(* getms() has moved on by what has passed, and not come round to where it *)
(* was.                                                                    *)
ClockTells ==
  /\ elapsed <= call.timeout + MaxLag + stalled
  /\ clock = IF starttime + elapsed >= Wrap THEN starttime + elapsed - Wrap
                                             ELSE starttime + elapsed

(* The search goes up to where the latest piece ended. *)
SearchesPiece == at = "searching" => recvPos \in ends

-----------------------------------------------------------------------------
(* Induction.  The backends cannot instantiate the library's theorems that *)
(* take a predicate; WFMin takes a set, and a set of numbers does as well. *)

(* A set of natural numbers that is not empty has a least element. *)
LEMMA LeastElement ==
  ASSUME NEW T \in SUBSET Nat, T # {}
  PROVE  \E m \in T : \A k \in T : m <= k
<1> DEFINE R == OpToRel(<, Nat)
<1>1. IsWellFoundedOn(R, Nat)
  BY NatLessThanWellFounded
<1>2. \A x, y \in Nat : <<y, x>> \in R <=> y < x
  BY DEF OpToRel
<1> HIDE DEF R
<1>3. PICK m \in T : \A k \in T : ~(<<k, m>> \in R)
  BY <1>1, WFMin
<1>4. m \in Nat /\ \A k \in T : k \in Nat
  OBVIOUS
<1>5. ASSUME NEW k \in T PROVE m <= k
  <2>1. ~(k < m)
    BY <1>2, <1>3, <1>4
  <2> QED
    BY <2>1, <1>4
<1> QED
  BY <1>5

(* A set that has 0, and with every number the next, has all of them. *)
LEMMA Induction ==
  ASSUME NEW T, 0 \in T, \A n \in Nat : n \in T => n + 1 \in T
  PROVE  \A n \in Nat : n \in T
<1> SUFFICES ASSUME Nat \ T # {} PROVE FALSE
  OBVIOUS
<1>1. PICK m \in Nat \ T : \A k \in Nat \ T : m <= k
  BY LeastElement
<1>2. m - 1 \in Nat /\ m - 1 \in T
  BY <1>1
<1> QED
  BY <1>1, <1>2

Two16 == 65536
Word == 0 .. Two16 - 1

-----------------------------------------------------------------------------
(* The checksum.                                                           *)

(* One step of the sum. *)
Add(x, y) == (x + y) % Two16

(* g has the sums of the first 0 to n bytes of f. *)
Partial(f, n, g) == g = [k \in 0 .. n |-> IF k = 0 THEN 0 ELSE Add(g[k - 1], f[k - 1])]

(* There are such sums for every n... *)
LEMMA PartialExists ==
  ASSUME NEW f
  PROVE  \A n \in Nat : \E g : Partial(f, n, g)
<1> DEFINE T == {n \in Nat : \E g : Partial(f, n, g)}
<1>1. 0 \in T
  <2>1. Partial(f, 0, [k \in 0 .. 0 |-> 0])
    BY DEF Partial
  <2> QED
    BY <2>1
<1>2. ASSUME NEW n \in Nat, n \in T PROVE n + 1 \in T
  <2>1. PICK g : Partial(f, n, g)
    BY <1>2
  <2> DEFINE h == [k \in 0 .. n + 1 |-> IF k = n + 1 THEN Add(g[n], f[n]) ELSE g[k]]
  <2>2. \A k \in 0 .. n : h[k] = g[k] /\ (k = 0 => g[k] = 0) /\ (k # 0 => g[k] = Add(g[k-1], f[k-1]))
    BY <2>1 DEF Partial
  <2>3. h[n + 1] = Add(g[n], f[n])
    OBVIOUS
  <2>4. ASSUME NEW k \in 0 .. n + 1
        PROVE  h[k] = IF k = 0 THEN 0 ELSE Add(h[k - 1], f[k - 1])
    <3> HIDE DEF h
    <3>1. CASE k = n + 1
      <4>1. k - 1 = n /\ k # 0 /\ h[n] = g[n]
        BY <2>2, <3>1
      <4> QED
        BY <4>1, <2>3, <3>1
    <3>2. CASE k # n + 1 /\ k # 0
      <4>1. k \in 0 .. n /\ k - 1 \in 0 .. n
        BY <3>2
      <4> QED
        BY <4>1, <3>2, <2>2
    <3>3. CASE k = 0
      BY <3>3, <2>2
    <3> QED
      BY <3>1, <3>2, <3>3
  <2>5. h = [k \in 0 .. n + 1 |-> h[k]]
    OBVIOUS
  <2> HIDE DEF h
  <2>6. Partial(f, n + 1, h)
    BY <2>4, <2>5, Zenon DEF Partial
  <2> QED
    BY <2>6
<1> HIDE DEF T
<1>3. \A n \in Nat : n \in T
  BY <1>1, <1>2, Induction
<1> QED
  BY <1>3 DEF T

(* ...and those for a smaller n are the same. *)
LEMMA PartialUnique ==
  ASSUME NEW f, NEW m \in Nat, NEW n \in Nat, m <= n,
         NEW g, NEW h, Partial(f, m, g), Partial(f, n, h)
  PROVE  \A k \in 0 .. m : g[k] = h[k]
<1> DEFINE T == {k \in Nat : k <= m => g[k] = h[k]}
<1>0. \A k \in 0 .. m : /\ g[k] = IF k = 0 THEN 0 ELSE Add(g[k - 1], f[k - 1])
                        /\ h[k] = IF k = 0 THEN 0 ELSE Add(h[k - 1], f[k - 1])
  BY DEF Partial
<1>1. 0 \in T
  BY <1>0
<1>2. ASSUME NEW k \in Nat, k \in T PROVE k + 1 \in T
  <2> SUFFICES ASSUME k + 1 <= m PROVE g[k + 1] = h[k + 1]
    OBVIOUS
  <2>1. k + 1 \in 0 .. m /\ k + 1 # 0 /\ (k + 1) - 1 = k /\ g[k] = h[k]
    BY <1>2
  <2> QED
    BY <1>0, <2>1
<1> HIDE DEF T
<1>3. \A k \in Nat : k \in T
  BY <1>1, <1>2, Induction
<1> QED
  BY <1>3 DEF T

(* CheckSum is what its definition says: a recursive function names one    *)
(* that satisfies its equation, if there is any, and the sums that were    *)
(* just built are one.                                                     *)
LEMMA CheckSumSteps ==
  ASSUME NEW f
  PROVE  /\ CheckSum(f, 0) = 0
         /\ \A n \in Nat : CheckSum(f, n + 1) = Add(CheckSum(f, n), f[n])
<1> DEFINE Sums(s) == s = [k \in Nat |-> IF k = 0 THEN 0 ELSE Add(s[k - 1], f[k - 1])]
           part(n) == CHOOSE g : Partial(f, n, g)
           F == [k \in Nat |-> part(k)[k]]
<1>1. \A n \in Nat : Partial(f, n, part(n))
  BY PartialExists
<1> HIDE DEF part
<1>2. ASSUME NEW k \in Nat PROVE F[k] = IF k = 0 THEN 0 ELSE Add(F[k - 1], f[k - 1])
  <2>1. CASE k = 0
    BY <1>1, <2>1 DEF Partial
  <2>2. CASE k # 0
    <3>1. k - 1 \in Nat /\ k - 1 <= k /\ k - 1 \in 0 .. k - 1 /\ k \in 0 .. k
      BY <2>2
    <3>2. part(k)[k] = Add(part(k)[k - 1], f[k - 1])
      BY <1>1, <2>2, <3>1 DEF Partial
    <3>3. part(k - 1)[k - 1] = part(k)[k - 1]
      <4>1. Partial(f, k - 1, part(k - 1)) /\ Partial(f, k, part(k))
        BY <1>1, <3>1
      <4> QED
        BY <3>1, <4>1, PartialUnique
    <3> QED
      BY <2>2, <3>1, <3>2, <3>3
  <2> QED
    BY <2>1, <2>2
<1>3. F = [k \in Nat |-> F[k]]
  OBVIOUS
<1> HIDE DEF F
<1>4. Sums(F)
  BY <1>2, <1>3, Zenon
<1> DEFINE sum == CHOOSE s : Sums(s)
<1>5. Sums(sum)
  BY <1>4
<1>6. \A n : CheckSum(f, n) = sum[n]
  BY DEF CheckSum, Add, Two16
<1> HIDE DEF sum
<1>7. \A k \in Nat : sum[k] = IF k = 0 THEN 0 ELSE Add(sum[k - 1], f[k - 1])
  BY <1>5
<1>8. ASSUME NEW n \in Nat PROVE sum[n + 1] = Add(sum[n], f[n])
  <2>1. n + 1 \in Nat /\ n + 1 # 0 /\ (n + 1) - 1 = n
    OBVIOUS
  <2> QED
    BY <1>7, <2>1
<1> QED
  BY <1>6, <1>7, <1>8

(* Bytes are words, and words are added without leaving their range. *)
LEMMA Words ==
  /\ Two16 \in Nat /\ Two16 > 256
  /\ \A x : x \in Word <=> x \in Nat /\ x < Two16
  /\ 0 \in Word /\ \A x \in Byte : x \in Word
<1>1. Two16 \in Nat /\ Two16 > 256
  BY SMT DEF Two16
<1>2. \A x : x \in Word <=> x \in Nat /\ x < Two16
  BY <1>1, SMT DEF Word
<1>3. \A x \in Byte : x \in Nat /\ x < 256
  BY SMT DEF Byte
<1>4. \A x \in Byte : x \in Word
  BY <1>1, <1>2, <1>3, SMT
<1>5. 0 \in Word
  BY <1>1, <1>2
<1> QED
  BY <1>1, <1>2, <1>4, <1>5

LEMMA AddCarries ==
  ASSUME NEW x \in Word, NEW y \in Word
  PROVE  Add(x, y) = IF x + y < Two16 THEN x + y ELSE x + y - Two16
<1>1. \A R \in Nat \ {0} : \A a, b \in 0 .. R - 1 :
        (a + b) % R = IF a + b < R THEN a + b ELSE a + b - R
  BY SMT
<1>2. Two16 \in Nat \ {0} /\ x \in 0 .. Two16 - 1 /\ y \in 0 .. Two16 - 1
  BY Words DEF Word
<1> QED
  BY <1>1, <1>2, Zenon DEF Add

LEMMA AddType ==
  ASSUME NEW x \in Word, NEW y \in Word
  PROVE  Add(x, y) \in Word /\ Add(x, 0) = x
<1>1. x \in Nat /\ y \in Nat /\ x < Two16 /\ y < Two16 /\ 0 \in Word
  BY Words, SMT
<1>2. (IF x + y < Two16 THEN x + y ELSE x + y - Two16) \in Word
  BY <1>1, Words, SMT
<1>3. Add(x, 0) = x
  BY <1>1, AddCarries, SMT
<1> QED
  BY <1>2, <1>3, AddCarries, Zenon

(* What is added to different sums leaves them different, and so do        *)
(* different bytes that are added to one sum.                              *)
LEMMA AddInjective ==
  ASSUME NEW x \in Word, NEW y \in Word, NEW z \in Word
  PROVE  /\ Add(x, z) = Add(y, z) => x = y
         /\ Add(z, x) = Add(z, y) => x = y
<1>1. x \in Nat /\ y \in Nat /\ z \in Nat /\ x < Two16 /\ y < Two16 /\ z < Two16 /\ Two16 \in Nat
  BY Words, SMT
<1>2. ASSUME Add(x, z) = Add(y, z) PROVE x = y
  <2>1. (IF x + z < Two16 THEN x + z ELSE x + z - Two16)
          = IF y + z < Two16 THEN y + z ELSE y + z - Two16
    <3>1. /\ Add(x, z) = IF x + z < Two16 THEN x + z ELSE x + z - Two16
          /\ Add(y, z) = IF y + z < Two16 THEN y + z ELSE y + z - Two16
      BY AddCarries
    <3> QED
      BY <1>2, <3>1, Zenon
  <2> QED
    BY <1>1, <2>1, SMT
<1>3. ASSUME Add(z, x) = Add(z, y) PROVE x = y
  <2>1. (IF z + x < Two16 THEN z + x ELSE z + x - Two16)
          = IF z + y < Two16 THEN z + y ELSE z + y - Two16
    <3>1. /\ Add(z, x) = IF z + x < Two16 THEN z + x ELSE z + x - Two16
          /\ Add(z, y) = IF z + y < Two16 THEN z + y ELSE z + y - Two16
      BY AddCarries
    <3> QED
      BY <1>3, <3>1, Zenon
  <2> QED
    BY <1>1, <2>1, SMT
<1> QED
  BY <1>2, <1>3

LEMMA CheckSumType ==
  ASSUME NEW f, NEW n \in Nat, \A i \in 0 .. n - 1 : f[i] \in Byte
  PROVE  CheckSum(f, n) \in Word
<1> DEFINE T == {k \in Nat : k <= n => CheckSum(f, k) \in Word}
<1>1. 0 \in T
  BY CheckSumSteps, Words
<1>2. ASSUME NEW k \in Nat, k \in T PROVE k + 1 \in T
  <2> SUFFICES ASSUME k + 1 <= n PROVE CheckSum(f, k + 1) \in Word
    OBVIOUS
  <2>1. CheckSum(f, k) \in Word /\ f[k] \in Word
    BY <1>2, Words
  <2> QED
    BY <2>1, AddType, CheckSumSteps
<1> HIDE DEF T
<1>3. n \in T
  BY <1>1, <1>2, Induction
<1> QED
  BY <1>3 DEF T

(* The sum depends on the bytes that are summed and on nothing else. *)
LEMMA CheckSumSame ==
  ASSUME NEW f, NEW g, NEW n \in Nat, \A i \in 0 .. n - 1 : f[i] = g[i]
  PROVE  CheckSum(f, n) = CheckSum(g, n)
<1> DEFINE T == {k \in Nat : k <= n => CheckSum(f, k) = CheckSum(g, k)}
<1>1. 0 \in T
  BY CheckSumSteps
<1>2. ASSUME NEW k \in Nat, k \in T PROVE k + 1 \in T
  <2> SUFFICES ASSUME k + 1 <= n PROVE CheckSum(f, k + 1) = CheckSum(g, k + 1)
    OBVIOUS
  <2>1. CheckSum(f, k) = CheckSum(g, k) /\ f[k] = g[k]
    BY <1>2
  <2>2. /\ CheckSum(f, k + 1) = Add(CheckSum(f, k), f[k])
        /\ CheckSum(g, k + 1) = Add(CheckSum(g, k), g[k])
    BY CheckSumSteps
  <2> QED
    BY <2>1, <2>2
<1> HIDE DEF T
<1>3. n \in T
  BY <1>1, <1>2, Induction
<1> QED
  BY <1>3 DEF T

(* Zeros behind the bytes do not change it. *)
LEMMA CheckSumZeros ==
  ASSUME NEW f, NEW m \in Nat, NEW n \in Nat, m <= n,
         \A i \in 0 .. n - 1 : f[i] \in Byte,
         \A i \in m .. n - 1 : f[i] = 0
  PROVE  CheckSum(f, n) = CheckSum(f, m)
<1> DEFINE T == {k \in Nat : k \in m .. n => CheckSum(f, k) = CheckSum(f, m)}
<1>1. 0 \in T
  OBVIOUS
<1>2. ASSUME NEW k \in Nat, k \in T PROVE k + 1 \in T
  <2> SUFFICES ASSUME k + 1 \in m .. n PROVE CheckSum(f, k + 1) = CheckSum(f, m)
    OBVIOUS
  <2>1. CASE k + 1 = m
    BY <2>1
  <2>2. CASE k + 1 # m
    <3>1. CheckSum(f, k) = CheckSum(f, m) /\ f[k] = 0
      BY <1>2, <2>2
    <3>2. CheckSum(f, k) \in Word
      BY CheckSumType
    <3>3. CheckSum(f, k + 1) = Add(CheckSum(f, k), f[k])
      BY CheckSumSteps
    <3> QED
      BY <3>1, <3>2, <3>3, AddType
  <2> QED
    BY <2>1, <2>2
<1> HIDE DEF T
<1>3. n \in T
  BY <1>1, <1>2, Induction
<1> QED
  BY <1>3 DEF T

(* One damaged byte, wherever it is and however long the frame, changes    *)
(* the checksum: an answer or a command with one wrong byte in its body    *)
(* does not pass the comparison with the checksum that was sent.           *)
THEOREM DamagedByteChangesCheckSum ==
  ASSUME NEW n \in Nat, NEW f \in [0 .. n - 1 -> Byte], NEW g \in [0 .. n - 1 -> Byte],
         NEW j \in 0 .. n - 1, f[j] # g[j], \A i \in 0 .. n - 1 : i # j => f[i] = g[i]
  PROVE  CheckSum(f, n) # CheckSum(g, n)
<1> DEFINE T == {k \in Nat : k \in j + 1 .. n => CheckSum(f, k) # CheckSum(g, k)}
<1>1. 0 \in T
  OBVIOUS
<1>2. ASSUME NEW k \in Nat, k \in T PROVE k + 1 \in T
  <2> SUFFICES ASSUME k + 1 \in j + 1 .. n, CheckSum(f, k + 1) = CheckSum(g, k + 1) PROVE FALSE
    OBVIOUS
  <2>1. /\ CheckSum(f, k) \in Word /\ CheckSum(g, k) \in Word
        /\ f[k] \in Word /\ g[k] \in Word
    BY CheckSumType, Words
  <2>2. Add(CheckSum(f, k), f[k]) = Add(CheckSum(g, k), g[k])
    BY CheckSumSteps
  <2>3. CASE k = j
    <3>1. CheckSum(f, k) = CheckSum(g, k)
      BY <2>3, CheckSumSame
    <3> QED
      BY <2>1, <2>2, <2>3, <3>1, AddInjective
  <2>4. CASE k # j
    <3>1. CheckSum(f, k) # CheckSum(g, k) /\ f[k] = g[k]
      BY <1>2, <2>4
    <3> QED
      BY <2>1, <2>2, <3>1, AddInjective
  <2> QED
    BY <2>3, <2>4
<1> HIDE DEF T
<1>3. n \in T
  BY <1>1, <1>2, Induction
<1> QED
  BY <1>3 DEF T

(* Of no more than two bytes it is what one expects. *)
LEMMA ShortSums ==
  /\ \A f : CheckSum(f, 0) = 0
  /\ \A a \in Byte : CheckSum([i \in 0 .. 0 |-> a], 1) = a
  /\ \A a, b \in Byte : CheckSum([i \in 0 .. 1 |-> IF i = 0 THEN a ELSE b], 2) = a + b
<1>1. \A f : CheckSum(f, 0) = 0
  BY CheckSumSteps
<1>2. ASSUME NEW f, NEW a \in Byte, f[0] = a PROVE CheckSum(f, 1) = a
  <2>1. a \in Word /\ a \in Nat
    BY Words
  <2>2. CheckSum(f, 0 + 1) = Add(0, a)
    BY <1>2, CheckSumSteps
  <2>3. Add(0, a) = IF 0 + a < Two16 THEN 0 + a ELSE 0 + a - Two16
    BY <2>1, Words, AddCarries
  <2>4. Add(0, a) = a
    BY <2>1, <2>3, Words, SMT
  <2> QED
    BY <2>2, <2>4
<1>3. ASSUME NEW f, NEW a \in Byte, NEW b \in Byte, f[0] = a, f[1] = b
      PROVE  CheckSum(f, 2) = a + b
  <2>1. a \in Word /\ b \in Word
    BY Words
  <2>2. a \in Nat /\ b \in Nat /\ a < 256 /\ b < 256
    BY SMT DEF Byte
  <2>3. CheckSum(f, 1 + 1) = Add(a, b)
    BY <1>2, <1>3, CheckSumSteps
  <2>4. Add(a, b) = IF a + b < Two16 THEN a + b ELSE a + b - Two16
    BY <2>1, AddCarries
  <2>5. Two16 > 512
    BY SMT DEF Two16
  <2>6. Add(a, b) = a + b
    BY <2>2, <2>4, <2>5, Words, SMT
  <2> QED
    BY <2>3, <2>6
<1>4. ASSUME NEW a \in Byte PROVE CheckSum([i \in 0 .. 0 |-> a], 1) = a
  <2>1. [i \in 0 .. 0 |-> a][0] = a
    OBVIOUS
  <2> QED
    BY <1>2, <2>1
<1>5. ASSUME NEW a \in Byte, NEW b \in Byte
      PROVE  CheckSum([i \in 0 .. 1 |-> IF i = 0 THEN a ELSE b], 2) = a + b
  <2> DEFINE f == [i \in 0 .. 1 |-> IF i = 0 THEN a ELSE b]
  <2>1. f[0] = a /\ f[1] = b
    OBVIOUS
  <2> HIDE DEF f
  <2>2. CheckSum(f, 2) = a + b
    BY <1>3, <2>1
  <2> QED
    BY <2>2 DEF f
<1> QED
  BY <1>1, <1>4, <1>5

-----------------------------------------------------------------------------
(* Arithmetic of the ring.                                                 *)

(* Division with a remainder. *)
LEMMA ModFacts ==
  ASSUME NEW R \in Nat \ {0}, NEW a \in Nat
  PROVE  (a % R) \in 0 .. R - 1 /\ (a \div R) \in Nat /\ a = R * (a \div R) + (a % R)
BY SMT

(* The remainder is the only one there is. *)
LEMMA ModUnique ==
  ASSUME NEW R \in Nat \ {0}, NEW q \in Nat, NEW r \in 0 .. R - 1
  PROVE  ((R * q + r) % R) = r
BY SMT

(* Two bytes make a number. *)
LEMMA TwoBytes ==
  ASSUME NEW hi \in 0 .. 255, NEW lo \in 0 .. 255
  PROVE  256 * hi + lo \in Nat
OBVIOUS

(* A place k further on in the ring. *)
LEMMA ModPlus ==
  ASSUME NEW R \in Nat \ {0}, NEW a \in Nat, NEW k \in 0 .. R - 1
  PROVE  ((a + k) % R) = IF (a % R) + k < R THEN (a % R) + k ELSE (a % R) + k - R
<1> DEFINE q == a \div R
           r == (a % R)
<1>1. r \in 0 .. R - 1 /\ q \in Nat /\ a = R * q + r
  BY ModFacts
<1>2. CASE r + k < R
  <2>1. a + k = R * q + (r + k) /\ r + k \in 0 .. R - 1
    BY <1>1, <1>2
  <2> QED
    BY <2>1, <1>1, <1>2, ModUnique
<1>3. CASE ~(r + k < R)
  <2>1. a + k = R * (q + 1) + (r + k - R) /\ r + k - R \in 0 .. R - 1 /\ q + 1 \in Nat
    BY <1>1, <1>3
  <2>2. ((R * (q + 1) + (r + k - R)) % R) = r + k - R
    BY <2>1, ModUnique
  <2> QED
    BY <2>1, <2>2, <1>3
<1> QED
  BY <1>2, <1>3
-----------------------------------------------------------------------------
(* The frame of a command.                                                 *)

(* A function on 1 .. n is a sequence. *)
LEMMA FunctionIsSeq ==
  ASSUME NEW T, NEW n \in Nat, NEW s \in [1 .. n -> T]
  PROVE  s \in Seq(T) /\ Len(s) = n
OBVIOUS

(* A length and its two bytes. *)
LEMMA LowAndHigh ==
  ASSUME NEW n \in Nat
  PROVE  n % 256 \in 0 .. 255 /\ (n \div 256) % 256 \in 0 .. 255
<1>1. 256 \in Nat \ {0} /\ 256 - 1 = 255
  BY SMT
<1>2. n % 256 \in 0 .. 256 - 1 /\ n \div 256 \in Nat
  BY <1>1, ModFacts
<1>3. (n \div 256) % 256 \in 0 .. 256 - 1
  BY <1>1, <1>2, ModFacts
<1> QED
  BY <1>1, <1>2, <1>3

(* What of a command the frame is built from. *)
LEMMA Payload ==
  ASSUME NEW c \in Calls
  PROVE  /\ Len(c.payload) \in Nat /\ Len(c.payload) <= 1008
         /\ FrameSize(c) \in Nat /\ FrameSize(c) = 8 + Len(c.payload)
         /\ c.payload \in Seq(Byte) /\ c.cmd \in Byte
         /\ \A i \in 1 .. Len(c.payload) : c.payload[i] \in Byte
<1>1. c.payload \in Seq(Byte) /\ c.cmd \in Byte
  BY ResponseAssumption DEF CallType
<1>2. Len(c.payload) \in Nat /\ \A i \in 1 .. Len(c.payload) : c.payload[i] \in Byte
  BY <1>1
<1>3. 8 + Len(c.payload) + 8 <= 1024
  BY PayloadAssumption DEF HeadSize
<1>4. Len(c.payload) <= 1008
  BY <1>2, <1>3, SMT
<1> QED
  BY <1>1, <1>2, <1>4 DEF FrameSize, HeadSize

(* The places of commBuf. *)
Room == 0 .. 1023

(* commBuf, byte by byte. *)
LEMMA BufferBytes ==
  ASSUME NEW c \in Calls
  PROVE  /\ CommBuf(c)[2] = Len(c.payload) % 256
         /\ CommBuf(c)[3] = (Len(c.payload) \div 256) % 256
         /\ \A i \in 8 .. 7 + Len(c.payload) : CommBuf(c)[i] = c.payload[i - 7]
         /\ \A i \in Room : i >= 8 + Len(c.payload) => CommBuf(c)[i] = 0
         /\ \A i \in Room : CommBuf(c)[i] \in Byte
<1> DEFINE L == Len(c.payload)
           b == CommBuf(c)
           h1 == FRAME_HEAD1_FLAG
           h2 == FRAME_HEAD2_FLAG
           lo == L % 256
           hi == (L \div 256) % 256
           Par(i) == c.payload[i - 8 + 1]
<1>1. L \in Nat /\ L <= 1008 /\ c.cmd \in Byte /\ \A i \in 1 .. L : c.payload[i] \in Byte
  BY Payload
<1>2. lo \in 0 .. 255 /\ hi \in 0 .. 255
  BY <1>1, LowAndHigh, Zenon
<1> DEFINE InHead(i) == i \in {0, 1, 2, 3, 6}
           InBody(i) == i \in 8 .. 8 + L - 1
<1>3. ASSUME NEW i \in Room
      PROVE b[i] = CASE i = 0 -> h1 [] i = 1 -> h2 [] i = 2 -> lo [] i = 3 -> hi
                     [] i = 6 -> c.cmd [] InBody(i) -> Par(i) [] OTHER -> 0
  BY Zenon DEF CommBuf, HeadSize, Room
<1>4. ASSUME NEW i
      PROVE  /\ InHead(i) <=> i = 0 \/ i = 1 \/ i = 2 \/ i = 3 \/ i = 6
             /\ InHead(i) => ~InBody(i)
  <2>1. \A j \in {0, 1, 2, 3, 6}, n \in Nat : ~(j \in 8 .. 8 + n - 1)
    BY SMT
  <2>2. L \in Nat
    BY <1>1, Zenon
  <2>3. InHead(i) => ~InBody(i)
    BY <2>1, <2>2, Zenon
  <2> QED
    BY <2>3, Zenon
<1> HIDE DEF L, b, lo, hi, h1, h2, Par, InHead, InBody
<1>5. ASSUME NEW i \in Room, ~InHead(i)
      PROVE  b[i] = IF InBody(i) THEN Par(i) ELSE 0
  <2>1. i # 0 /\ i # 1 /\ i # 2 /\ i # 3 /\ i # 6
    BY <1>4, <1>5, Zenon
  <2>2. CASE InBody(i)
    BY <1>3, <2>1, <2>2, Zenon
  <2>3. CASE ~InBody(i)
    BY <1>3, <2>1, <2>3, Zenon
  <2> QED
    BY <2>2, <2>3, Zenon
<1>6. ASSUME NEW i \in Room, InHead(i)
      PROVE  /\ b[i] \in {h1, h2, lo, hi, c.cmd}
             /\ i = 2 => b[i] = lo
             /\ i = 3 => b[i] = hi
  <2>1. /\ i = 0 => i # 1 /\ i # 2 /\ i # 3 /\ i # 6
        /\ i = 1 => i # 2 /\ i # 3 /\ i # 6
        /\ i = 2 => i # 3 /\ i # 6
        /\ i = 3 => i # 6
    BY SMT
  <2> QED
    BY <1>3, <1>4, <1>6, <2>1, Zenon
<1>7. ASSUME NEW i \in 8 .. 7 + L PROVE b[i] = c.payload[i - 7] /\ b[i] \in Byte
  <2>1. i - 8 + 1 = i - 7 /\ i - 7 \in 1 .. L /\ i \in Room /\ i \in 8 .. 8 + L - 1
    BY <1>1, SMT DEF Room
  <2>2. InBody(i)
    BY <2>1, Zenon DEF InBody
  <2>3. Par(i) = c.payload[i - 7]
    BY <2>1, Zenon DEF Par
  <2> QED
    BY <1>1, <1>4, <1>5, <2>1, <2>2, <2>3, Zenon
<1>8. ASSUME NEW i \in Room, i \notin 0 .. 7 + L PROVE b[i] = 0
  <2>1. i \notin 8 .. 8 + L - 1 /\ i \notin {0, 1, 2, 3, 6}
    BY <1>1, <1>8, SMT DEF Room
  <2>2. ~InHead(i) /\ ~InBody(i)
    BY <2>1, Zenon DEF InHead, InBody
  <2> QED
    BY <1>5, <2>1, <2>2, Zenon
<1>9. ASSUME NEW i \in Room PROVE b[i] \in Byte
  <2>1. 0 \in Byte /\ h1 \in Byte /\ h2 \in Byte /\ lo \in Byte /\ hi \in Byte
    BY <1>2, SMT DEF Byte, h1, h2, FRAME_HEAD1_FLAG, FRAME_HEAD2_FLAG
  <2>2. CASE InHead(i)
    BY <1>1, <1>6, <2>1, <2>2, Zenon
  <2>3. CASE ~InHead(i) /\ ~InBody(i)
    BY <1>5, <2>1, <2>3, Zenon
  <2>4. CASE InBody(i)
    <3>1. i \in 8 .. 7 + L
      BY <1>1, <2>4, SMT DEF InBody
    <3> QED
      BY <1>7, <3>1, Zenon
  <2> QED
    BY <2>2, <2>3, <2>4, Zenon
<1>10. b[2] = lo /\ b[3] = hi
  <2>1. 2 \in Room /\ 3 \in Room
    BY SMT DEF Room
  <2>2. InHead(2) /\ InHead(3)
    BY SMT DEF InHead
  <2>3. b[2] = lo
    BY <1>6, <2>1, <2>2, Zenon
  <2>4. b[3] = hi
    BY <1>6, <2>1, <2>2, Zenon
  <2> QED
    BY <2>3, <2>4
<1>11. ASSUME NEW i \in Room, i >= 8 + L PROVE b[i] = 0
  <2>1. i \notin 0 .. 7 + L
    BY <1>1, <1>11, SMT DEF Room
  <2> QED
    BY <1>8, <2>1, Zenon
<1> QED
  BY <1>7, <1>9, <1>10, <1>11, Zenon DEF L, b, lo, hi

(* The eight bytes behind the frame that _checksum() adds are zeros: what  *)
(* it finds is the sum of the frame's other bytes.                         *)
LEMMA SumOfBody ==
  ASSUME NEW c \in Calls, NEW g,
         \A i \in 0 .. 5 + Len(c.payload) : g[i] = CommBuf(c)[IF i < 4 THEN i ELSE i + 2]
  PROVE  /\ CommCheckSum(CommBuf(c), FrameSize(c)) = CheckSum(g, 6 + Len(c.payload))
         /\ CommCheckSum(CommBuf(c), FrameSize(c)) \in Word
<1> DEFINE L == Len(c.payload)
           b == CommBuf(c)
           h == [i \in 0 .. 13 + L |-> b[IF i < 4 THEN i ELSE i + 2]]
<1>1. L \in Nat /\ L <= 1008 /\ FrameSize(c) = 8 + L
  BY Payload
<1>2. \A i \in Room : (i >= 8 + L => b[i] = 0) /\ b[i] \in Byte
  BY BufferBytes
<1>3. CommCheckSum(b, FrameSize(c)) = CheckSum(h, 14 + L)
  <2>1. 5 + FrameSize(c) = 13 + L /\ 6 + FrameSize(c) = 14 + L
    BY <1>1, SMT
  <2> QED
    BY <2>1, Zenon DEF CommCheckSum
<1>4. \A i \in 0 .. 5 + L : g[i] = b[IF i < 4 THEN i ELSE i + 2]
  OBVIOUS
<1> HIDE DEF L, b
<1>5. ASSUME NEW i \in 0 .. 13 + L
      PROVE  h[i] \in Byte /\ (i >= 6 + L => h[i] = 0) /\ (i <= 5 + L => h[i] = g[i])
  <2> DEFINE p == IF i < 4 THEN i ELSE i + 2
  <2>1. h[i] = b[p]
    OBVIOUS
  <2>2. p \in Room /\ (i >= 6 + L => p >= 8 + L)
    BY <1>1, SMT DEF Room
  <2>3. i <= 5 + L => g[i] = b[p]
    BY <1>1, <1>4, SMT
  <2> HIDE DEF p, h
  <2> QED
    BY <1>2, <2>1, <2>2, <2>3, Zenon
<1> HIDE DEF h
<1>6. 6 + L \in Nat /\ 14 + L \in Nat /\ 6 + L <= 14 + L
  BY <1>1, SMT
<1>7. /\ \A i \in 0 .. (14 + L) - 1 : h[i] \in Byte
      /\ \A i \in 6 + L .. (14 + L) - 1 : h[i] = 0
      /\ \A i \in 0 .. (6 + L) - 1 : h[i] = g[i]
  BY <1>1, <1>5, SMT
<1>8. CheckSum(h, 14 + L) = CheckSum(h, 6 + L)
  BY <1>6, <1>7, CheckSumZeros
<1>9. CheckSum(h, 6 + L) = CheckSum(g, 6 + L)
  BY <1>6, <1>7, CheckSumSame
<1>10. CheckSum(h, 14 + L) \in Word
  BY <1>6, <1>7, CheckSumType
<1> QED
  BY <1>3, <1>8, <1>9, <1>10, Zenon DEF L, b

(* The frame, byte by byte. *)
LEMMA FrameBytes ==
  ASSUME NEW c \in Calls
  PROVE  /\ Frame(c) \in Seq(Nat) /\ Len(Frame(c)) = 8 + Len(c.payload)
         /\ Frame(c)[5] = CommCheckSum(CommBuf(c), FrameSize(c)) % 256
         /\ Frame(c)[6] = CommCheckSum(CommBuf(c), FrameSize(c)) \div 256
         /\ \A i \in 1 .. 8 + Len(c.payload) : i \notin {5, 6} => Frame(c)[i] = CommBuf(c)[i - 1]
<1> DEFINE L == Len(c.payload)
           b == CommBuf(c)
           s == CommCheckSum(b, FrameSize(c))
           f == Frame(c)
           lo == s % 256
           hi == s \div 256
<1>1. L \in Nat /\ L <= 1008 /\ FrameSize(c) = 8 + L
  BY Payload
<1>2. \A i \in Room : b[i] \in Byte
  BY BufferBytes
<1>3. s \in Nat
  <2> DEFINE g == [i \in 0 .. 5 + L |-> b[IF i < 4 THEN i ELSE i + 2]]
  <2>1. \A i \in 0 .. 5 + L : g[i] = b[IF i < 4 THEN i ELSE i + 2]
    OBVIOUS
  <2> HIDE DEF g
  <2>2. s \in Word
    BY <2>1, SumOfBody, Zenon
  <2> QED
    BY <2>2, Words, Zenon
<1> HIDE DEF s
<1>4. lo \in Nat /\ hi \in Nat
  <2>1. 256 \in Nat \ {0} /\ 0 .. 256 - 1 \subseteq Nat
    BY SMT
  <2> QED
    BY <1>3, <2>1, ModFacts
<1> DEFINE e(i) == CASE i = 5 -> lo [] i = 6 -> hi [] OTHER -> b[i - 1]
<1>5. f = [i \in 1 .. 8 + L |-> e(i)]
  BY <1>1, Zenon DEF Frame, s
<1> HIDE DEF L, b, f, lo, hi, e
<1>6. 5 \in 1 .. 8 + L /\ 6 \in 1 .. 8 + L /\ 5 # 6
  BY <1>1, SMT
<1>7. f[5] = lo
  BY <1>5, <1>6, Zenon DEF e
<1>8. f[6] = hi
  BY <1>5, <1>6, Zenon DEF e
<1>9. ASSUME NEW i \in 1 .. 8 + L, i \notin {5, 6} PROVE f[i] = b[i - 1]
  <2>1. i # 5 /\ i # 6
    BY <1>9, SMT
  <2> QED
    BY <1>5, <2>1, Zenon DEF e
<1>10. ASSUME NEW i \in 1 .. 8 + L PROVE f[i] \in Nat
  <2>1. CASE i \in {5, 6}
    BY <1>4, <1>7, <1>8, <2>1
  <2>2. CASE i \notin {5, 6}
    <3>1. i - 1 \in Room /\ \A x \in Byte : x \in Nat
      BY <1>1, SMT DEF Room, Byte
    <3> QED
      BY <1>2, <1>9, <2>2, <3>1, Zenon
  <2> QED
    BY <2>1, <2>2, Zenon
<1>11. f \in Seq(Nat) /\ Len(f) = 8 + L
  <2>1. f = [i \in 1 .. 8 + L |-> f[i]]
    BY <1>5, Zenon
  <2>2. f \in [1 .. 8 + L -> Nat]
    BY <1>10, <2>1
  <2>3. 8 + L \in Nat
    BY <1>1, SMT
  <2> QED
    BY <2>2, <2>3, FunctionIsSeq
<1> QED
  BY <1>7, <1>8, <1>9, <1>11, Zenon DEF L, b, s, f, lo, hi

(* Two bytes and the number they make. *)
LEMMA HighAndLow ==
  ASSUME NEW n \in Nat
  PROVE  /\ 256 * (n \div 256) + (n % 256) = n
         /\ n < 1024 => 256 * ((n \div 256) % 256) + (n % 256) = n
<1>1. 256 \in Nat \ {0}
  BY SMT
<1> DEFINE q == n \div 256
           r == n % 256
<1>2. q \in Nat /\ r \in 0 .. 256 - 1 /\ n = 256 * q + r
  BY <1>1, ModFacts
<1> HIDE DEF q, r
<1>3. ASSUME n < 1024 PROVE (q % 256) = q
  <2>1. q \in 0 .. 256 - 1 /\ 256 * 0 + q = q /\ 0 \in Nat
    BY <1>2, <1>3, SMT
  <2> QED
    BY <1>1, <2>1, ModUnique
<1>4. 256 * q + r = n
  BY <1>2, SMT
<1> QED
  BY <1>3, <1>4 DEF q, r

(* The frame of every command is the one the device expects. *)
LEMMA FrameIsRight ==
  ASSUME call \in Calls
  PROVE  CommandIsFrame
<1> DEFINE L == Len(call.payload)
           b == CommBuf(call)
           s == CommCheckSum(b, FrameSize(call))
           f == Frame(call)
           head == SubSeq(f, 1, 4)
           rest == SubSeq(f, 7, Len(f))
           body == head \o rest
           g == [i \in 0 .. Len(body) - 1 |-> body[i + 1]]
<1>1. L \in Nat /\ L < 1024 /\ call.payload \in Seq(Byte)
  <2>1. L \in Nat /\ L <= 1008 /\ call.payload \in Seq(Byte)
    BY Payload
  <2> QED
    BY <2>1, SMT
<1>2. /\ b[2] = L % 256 /\ b[3] = (L \div 256) % 256
      /\ \A i \in 8 .. 7 + L : b[i] = call.payload[i - 7]
  <2>1. b[2] = L % 256
    BY BufferBytes, ZenonT(40)
  <2>2. b[3] = (L \div 256) % 256
    BY BufferBytes, ZenonT(40)
  <2>3. ASSUME NEW i \in 8 .. 7 + L PROVE b[i] = call.payload[i - 7]
    BY <2>3, BufferBytes, ZenonT(40)
  <2> QED
    BY <2>1, <2>2, <2>3, Zenon
<1>3. /\ f \in Seq(Nat) /\ Len(f) = 8 + L
      /\ \A i \in 1 .. 8 + L : i \notin {5, 6} => f[i] = b[i - 1]
  BY FrameBytes
<1>4. f[5] = s % 256 /\ f[6] = s \div 256
  BY FrameBytes
<1>5. \A e : (\A i \in 0 .. 5 + L : e[i] = b[IF i < 4 THEN i ELSE i + 2])
               => s = CheckSum(e, 6 + L) /\ s \in Word
  BY SumOfBody
<1> HIDE DEF L, b, s, f
<1>6. ASSUME NEW i \in 1 .. 8 + L PROVE f[i] \in Nat
  BY <1>3, ElementOfSeq
<1>7. Len(f) = HeadSize + 256 * f[4] + f[3]
  <2>1. 3 \in 1 .. 8 + L /\ 4 \in 1 .. 8 + L /\ 3 \notin {5, 6} /\ 4 \notin {5, 6}
        /\ 3 - 1 = 2 /\ 4 - 1 = 3
    BY <1>1, SMT
  <2>2. f[3] = b[2] /\ f[4] = b[3]
    BY <1>3, <2>1
  <2>3. 256 * f[4] + f[3] = L
    BY <1>1, <1>2, <2>2, HighAndLow
  <2>4. f[3] \in Nat /\ f[4] \in Nat
    BY <1>6, <2>1
  <2>5. 8 + 256 * f[4] + f[3] = 8 + L
    BY <2>3, <2>4, SMT
  <2> QED
    BY <1>3, <2>5 DEF HeadSize
<1>8. SubSeq(f, HeadSize + 1, Len(f)) = call.payload
  <2> DEFINE t == SubSeq(f, 9, 8 + L)
  <2>1. \A i \in 9 .. 8 + L : f[i] \in Nat /\ f[i] = call.payload[i - 8]
    <3> SUFFICES ASSUME NEW i \in 9 .. 8 + L PROVE f[i] \in Nat /\ f[i] = call.payload[i - 8]
      OBVIOUS
    <3>1. i \in 1 .. 8 + L /\ i \notin {5, 6} /\ i - 1 \in 8 .. 7 + L /\ (i - 1) - 7 = i - 8
      BY <1>1, SMT
    <3> QED
      BY <1>2, <1>3, <1>6, <3>1
  <2>2. /\ t \in Seq(Nat)
        /\ Len(t) = IF 9 <= 8 + L THEN (8 + L) - 9 + 1 ELSE 0
        /\ \A i \in 1 .. (8 + L) - 9 + 1 : t[i] = f[9 + i - 1]
    <3>1. 9 \in Int /\ 8 + L \in Int
      BY <1>1, SMT
    <3>2. \A i \in 9 .. 8 + L : f[i] \in Nat
      BY <2>1, Zenon
    <3> QED
      BY <3>1, <3>2, SubSeqProperties
  <2> HIDE DEF t
  <2>3. Len(t) = L
    BY <1>1, <2>2, SMT
  <2>4. \A i \in 1 .. L : t[i] = call.payload[i]
    <3> SUFFICES ASSUME NEW i \in 1 .. L PROVE t[i] = call.payload[i]
      OBVIOUS
    <3>1. i \in 1 .. (8 + L) - 9 + 1 /\ 9 + i - 1 \in 9 .. 8 + L /\ (9 + i - 1) - 8 = i
      BY <1>1, SMT
    <3> QED
      BY <2>1, <2>2, <3>1
  <2>5. call.payload \in Seq(Nat)
    <3>1. \A x \in Byte : x \in Nat
      BY SMT DEF Byte
    <3> QED
      BY <1>1, <3>1
  <2>6. t = call.payload
    BY <2>2, <2>3, <2>4, <2>5, SeqEqual DEF L
  <2>7. HeadSize + 1 = 9 /\ Len(f) = 8 + L
    BY <1>3, SMT DEF HeadSize
  <2> QED
    BY <2>6, <2>7 DEF t
<1>9. /\ Len(body) = 6 + L
      /\ \A i \in 0 .. 5 + L : g[i] = b[IF i < 4 THEN i ELSE i + 2]
  <2>1. head \in Seq(Nat) /\ Len(head) = 4 /\ \A i \in 1 .. 4 : head[i] = f[i]
    <3>1. \A i \in 1 .. 4 : f[i] \in Nat
      BY <1>1, <1>6
    <3>2. 1 \in Int /\ 4 \in Int /\ 1 <= 4 /\ 4 - 1 + 1 = 4 /\ \A i \in 1 .. 4 : 1 + i - 1 = i
      BY SMT
    <3> QED
      BY <3>1, <3>2, SubSeqProperties
  <2>2. rest \in Seq(Nat) /\ Len(rest) = 2 + L /\ \A i \in 1 .. 2 + L : rest[i] = f[i + 6]
    <3>1. \A i \in 7 .. 8 + L : f[i] \in Nat
      BY <1>1, <1>6
    <3>2. 7 \in Int /\ 8 + L \in Int /\ 7 <= 8 + L /\ (8 + L) - 7 + 1 = 2 + L
      BY <1>1, SMT
    <3>3. \A i \in 1 .. 2 + L : 7 + i - 1 = i + 6
      BY <1>1, SMT
    <3>4. rest = SubSeq(f, 7, 8 + L)
      BY <1>3
    <3> QED
      BY <3>1, <3>2, <3>3, <3>4, SubSeqProperties
  <2> HIDE DEF head, rest
  <2>3. Len(body) = 6 + L
        /\ \A i \in 1 .. 6 + L : body[i] = IF i <= 4 THEN head[i] ELSE rest[i - 4]
    <3>1. Len(head) + Len(rest) = 6 + L
      BY <1>1, <2>1, <2>2, SMT
    <3>2. /\ Len(body) = Len(head) + Len(rest)
          /\ \A i \in 1 .. Len(head) + Len(rest) :
               body[i] = IF i <= Len(head) THEN head[i] ELSE rest[i - Len(head)]
      BY <2>1, <2>2, ConcatProperties
    <3> QED
      BY <2>1, <3>1, <3>2
  <2>4. ASSUME NEW i \in 0 .. 5 + L
        PROVE  g[i] = b[IF i < 4 THEN i ELSE i + 2]
    <3>1. i \in 0 .. Len(body) - 1 /\ i + 1 \in 1 .. 6 + L
      BY <1>1, <2>3, SMT
    <3>2. g[i] = IF i + 1 <= 4 THEN head[i + 1] ELSE rest[i + 1 - 4]
      BY <2>3, <3>1
    <3> HIDE DEF g
    <3>3. CASE i < 4
      <4>1. i + 1 <= 4 /\ i + 1 \in 1 .. 4 /\ i + 1 \in 1 .. 8 + L /\ i + 1 \notin {5, 6}
            /\ (i + 1) - 1 = i
        BY <1>1, <3>3, SMT
      <4> QED
        BY <1>3, <2>1, <3>2, <3>3, <4>1
    <3>4. CASE ~(i < 4)
      <4>1. ~(i + 1 <= 4) /\ i + 1 - 4 \in 1 .. 2 + L /\ i + 1 - 4 + 6 = i + 3
            /\ i + 3 \in 1 .. 8 + L /\ i + 3 \notin {5, 6} /\ (i + 3) - 1 = i + 2
        BY <1>1, <3>4, SMT
      <4> QED
        BY <1>3, <2>2, <3>2, <3>4, <4>1
    <3> QED
      BY <3>3, <3>4
  <2> QED
    BY <2>3, <2>4
<1> HIDE DEF g, body
<1>10. 256 * f[6] + f[5] = CheckSum(g, Len(body))
  <2>1. s = CheckSum(g, 6 + L) /\ s \in Word
    BY <1>5, <1>9
  <2>2. s \in Nat
    BY <2>1, Words
  <2> QED
    BY <1>9, <1>4, <2>1, <2>2, HighAndLow
<1> QED
  BY <1>7, <1>8, <1>10, Zenon DEF CommandIsFrame, f, g, body
-----------------------------------------------------------------------------
(* The ring.                                                               *)

(* What arrives is bytes. *)
LEMMA StreamBytes ==
  ASSUME TypeOK, NEW p \in 0 .. Len(stream) - 1
  PROVE  S(p) \in Byte
<1>1. stream \in Seq(Byte) /\ p + 1 \in 1 .. Len(stream)
  BY DEF TypeOK
<1> QED
  BY <1>1 DEF S

(* What recvdata() leaves in the ring when it stays inside. *)
LEMMA IntoInside ==
  ASSUME TypeOK, NEW data \in [0 .. Ring - 1 -> Byte], NEW q \in Nat, NEW k \in Nat,
         NEW b \in Nat, q + k <= Ring, b + k <= Len(stream)
  PROVE  /\ Into(data, q, k, b) \in [0 .. Ring - 1 -> Byte]
         /\ \A i \in 0 .. Ring - 1 :
              Into(data, q, k, b)[i] = IF i \in q .. q + k - 1 THEN S(b + i - q) ELSE data[i]
<1>1. Ring \in Nat /\ Len(stream) \in Nat
  BY ResponseAssumption DEF TypeOK
<1>2. (DOMAIN data) \cup (q .. q + k - 1) = 0 .. Ring - 1
  BY <1>1
<1>3. ASSUME NEW i \in q .. q + k - 1 PROVE S(b + i - q) \in Byte
  <2>1. b + i - q \in 0 .. Len(stream) - 1
    BY <1>1, <1>3
  <2> QED
    BY <2>1, StreamBytes
<1>4. \A i \in 0 .. Ring - 1 : data[i] \in Byte
  OBVIOUS
<1> QED
  BY <1>2, <1>3, <1>4 DEF Into

(* A piece that does not fill the ring: each of its bytes has one place. *)
LEMMA StoredAt ==
  ASSUME TypeOK, NEW n \in Nat, n <= Ring, recvPos + n <= Len(stream), NEW i \in 0 .. Ring - 1
  PROVE  Stored(n)[i] = LET p == (recvPos % Ring)
                        IN  IF i \in p .. p + n - 1 THEN S(recvPos + i - p)
                            ELSE IF i + Ring \in p .. p + n - 1 THEN S(recvPos + i + Ring - p)
                            ELSE Data[i]
<1> DEFINE p == (recvPos % Ring)
<1>1. recvPos \in Nat /\ Ring \in Nat \ {0} /\ Data \in [0 .. Ring - 1 -> Byte]
  BY ResponseAssumption DEF TypeOK
<1>2. p \in 0 .. Ring - 1
  BY <1>1, ModFacts
<1> DEFINE m == Ring - p
<1>3. Stored(n) = IF n > m THEN Into(Into(Data, p, m, recvPos), 0, n - m, recvPos + m)
                           ELSE Into(Data, p, n, recvPos)
  BY DEF Stored
<1> HIDE DEF p
<1>4. CASE ~(n > m)
  <2>1. p + n <= Ring
    BY <1>1, <1>2, <1>4
  <2>2. Stored(n)[i] = IF i \in p .. p + n - 1 THEN S(recvPos + i - p) ELSE Data[i]
    BY <2>1, <1>1, <1>2, <1>3, <1>4, IntoInside
  <2>3. ~(i + Ring \in p .. p + n - 1)
    BY <2>1, <1>1, <1>2
  <2> QED
    BY <2>2, <2>3 DEF p
<1>5. CASE n > m
  <2>1. m \in Nat /\ p + m = Ring /\ recvPos + m <= Len(stream) /\ recvPos + m \in Nat
        /\ n - m \in Nat /\ n - m <= Ring /\ (recvPos + m) + (n - m) <= Len(stream)
        /\ n - m <= p
    BY <1>1, <1>2, <1>5 DEF TypeOK
  <2>2. PICK D \in [0 .. Ring - 1 -> Byte] :
          /\ D = Into(Data, p, m, recvPos)
          /\ D[i] = IF i \in p .. p + m - 1 THEN S(recvPos + i - p) ELSE Data[i]
    <3>1. p \in Nat /\ m \in Nat /\ p + m <= Ring /\ recvPos + m <= Len(stream)
      BY <2>1, <1>1, <1>2
    <3> HIDE DEF m
    <3>2. /\ Into(Data, p, m, recvPos) \in [0 .. Ring - 1 -> Byte]
          /\ \A j \in 0 .. Ring - 1 :
               Into(Data, p, m, recvPos)[j]
                 = IF j \in p .. p + m - 1 THEN S(recvPos + j - p) ELSE Data[j]
      BY <3>1, <1>1, IntoInside
    <3> QED
      BY <3>2, Zenon
  <2>3. PICK rest \in Nat, next \in Nat : rest = n - m /\ next = recvPos + m
    BY <2>1
  <2>4. 0 \in Nat /\ 0 + rest <= Ring /\ next + rest <= Len(stream)
    BY <2>1, <2>3
  <2>5. Into(D, 0, rest, next)[i] = IF i \in 0 .. 0 + rest - 1 THEN S(next + i - 0) ELSE D[i]
    BY <2>2, <2>3, <2>4, IntoInside
  <2>6. Stored(n)[i] = Into(D, 0, rest, next)[i]
    BY <2>2, <2>3, <1>3, <1>5
  <2>7. CASE i \in 0 .. 0 + rest - 1
    <3>1. /\ ~(i \in p .. p + n - 1) /\ i + Ring \in p .. p + n - 1
          /\ next + i - 0 = recvPos + i + Ring - p
      BY <2>7, <2>1, <2>3, <1>1, <1>2
    <3> QED
      BY <3>1, <2>5, <2>6, <2>7 DEF p
  <2>8. CASE ~(i \in 0 .. 0 + rest - 1)
    <3>1. ~(i + Ring \in p .. p + n - 1) /\ (i \in p .. p + n - 1 <=> i \in p .. p + m - 1)
      BY <2>8, <2>1, <2>3, <1>1, <1>2
    <3> QED
      BY <3>1, <2>2, <2>5, <2>6, <2>8 DEF p
  <2> QED
    BY <2>7, <2>8
<1> QED
  BY <1>4, <1>5

(* Where recvdata() writes: the ring keeps its shape exactly when the      *)
(* second part of a piece is not longer than the ring.  A longer piece is  *)
(* written beside Data, and no line of the code looks for one.             *)
THEOREM StoredInside ==
  ASSUME TypeOK, NEW n \in Nat, recvPos + n <= Len(stream)
  PROVE  Stored(n) \in [0 .. Ring - 1 -> Byte] <=> n <= 2 * Ring - (recvPos % Ring)
<1> DEFINE p == (recvPos % Ring)
           m == Ring - p
           D == Into(Data, p, m, recvPos)
<1>1. recvPos \in Nat /\ Ring \in Nat \ {0} /\ Data \in [0 .. Ring - 1 -> Byte]
  BY ResponseAssumption DEF TypeOK
<1>2. p \in 0 .. Ring - 1
  BY <1>1, ModFacts
<1>3. Stored(n) = IF n > m THEN Into(D, 0, n - m, recvPos + m) ELSE Into(Data, p, n, recvPos)
  BY DEF Stored
<1> HIDE DEF p
<1>4. CASE ~(n > m)
  <2>1. p + n <= Ring /\ n <= 2 * Ring - p
    BY <1>1, <1>2, <1>4
  <2>2. Into(Data, p, n, recvPos) \in [0 .. Ring - 1 -> Byte]
    BY <2>1, <1>1, <1>2, IntoInside
  <2> QED
    BY <2>1, <2>2, <1>3, <1>4 DEF p
<1>5. CASE n > m
  <2>1. m \in Nat /\ p + m = Ring /\ recvPos + m <= Len(stream) /\ recvPos + m \in Nat
        /\ n - m \in Nat /\ (recvPos + m) + (n - m) <= Len(stream)
        /\ (n <= 2 * Ring - p <=> 0 + (n - m) <= Ring)
    BY <1>1, <1>2, <1>5 DEF TypeOK
  <2> DEFINE b == recvPos + m
             k == n - m
  <2>2. D \in [0 .. Ring - 1 -> Byte]
    <3> HIDE DEF m
    <3> QED
      BY <2>1, <1>1, <1>2, IntoInside
  <2> HIDE DEF D
  <2>3. k \in Nat /\ b \in Nat /\ b + k <= Len(stream) /\ 0 \in Nat /\ Stored(n) = Into(D, 0, k, b)
        /\ (n <= 2 * Ring - p <=> 0 + k <= Ring)
    BY <2>1, <1>3, <1>5
  <2> HIDE DEF k, b, m
  <2>4. CASE 0 + k <= Ring
    BY <2>2, <2>3, <2>4, IntoInside DEF p
  <2>5. CASE ~(0 + k <= Ring)
    <3>1. Ring \in 0 .. 0 + k - 1 /\ Ring \notin 0 .. Ring - 1
      BY <1>1, <2>3, <2>5
    <3>2. DOMAIN Into(D, 0, k, b) = (DOMAIN D) \cup (0 .. 0 + k - 1)
      BY DEF Into
    <3>3. Into(D, 0, k, b) \notin [0 .. Ring - 1 -> Byte]
      BY <3>1, <3>2
    <3> QED
      BY <3>3, <2>3, <2>5 DEF p
  <2> QED
    BY <2>4, <2>5
<1> QED
  BY <1>4, <1>5

(* A piece that has room beside what was not searched is stored inside. *)
LEMMA StoredType ==
  ASSUME TypeOK, NEW n \in Nat, n <= MaxPiece, recvPos + n <= Len(stream)
  PROVE  Stored(n) \in [0 .. Ring - 1 -> Byte]
<1>1. recvPos \in Nat /\ Ring \in Nat \ {0} /\ MaxPiece <= Ring
  BY ResponseAssumption, RoomAssumption DEF TypeOK
<1>2. (recvPos % Ring) \in 0 .. Ring - 1
  BY <1>1, ModFacts
<1>3. \A x \in 0 .. Ring - 1 : n <= 2 * Ring - x
  BY <1>1, ResponseAssumption
<1> QED
  BY <1>2, <1>3, StoredInside

(* A piece is stored behind what the search has not done with, and over    *)
(* nothing of it.                                                          *)
LEMMA StoredHolds ==
  ASSUME TypeOK, RingHolds, recvPos - readPos <= MaxLen + 1,
         NEW n \in 1 .. MaxPiece, recvPos + n <= Len(stream),
         NEW j \in readPos .. recvPos + n - 1
  PROVE  Stored(n)[(j % Ring)] = S(j)
<1> DEFINE p == (recvPos % Ring)
           i == (j % Ring)
<1>1. recvPos \in Nat /\ readPos \in Nat /\ readPos <= recvPos /\ Ring \in Nat \ {0}
      /\ MaxLen \in Nat /\ MaxPiece \in Nat /\ MaxPiece + MaxLen + 1 <= Ring
      /\ j \in Nat /\ n \in Nat /\ n >= 1 /\ n <= MaxPiece /\ j < recvPos + n /\ j >= readPos
      /\ recvPos - readPos <= MaxLen + 1
  BY ResponseAssumption, RoomAssumption DEF TypeOK
<1>2. p \in 0 .. Ring - 1 /\ i \in 0 .. Ring - 1
  BY <1>1, ModFacts
<1>3. Stored(n)[i] = IF i \in p .. p + n - 1 THEN S(recvPos + i - p)
                     ELSE IF i + Ring \in p .. p + n - 1 THEN S(recvPos + i + Ring - p)
                     ELSE Data[i]
  <2>1. n \in Nat /\ n <= Ring
    BY <1>1, SMT
  <2> QED
    BY <1>2, <2>1, StoredAt, Zenon
<1>4. CASE j >= recvPos
  <2> DEFINE k == j - recvPos
  <2>1. k \in 0 .. Ring - 1 /\ k < n /\ j = recvPos + k
    BY <1>1, <1>4
  <2> HIDE DEF k
  <2>5. ((recvPos + k) % Ring)
          = IF (recvPos % Ring) + k < Ring THEN (recvPos % Ring) + k ELSE (recvPos % Ring) + k - Ring
    BY <2>1, <1>1, ModPlus
  <2>2. i = IF p + k < Ring THEN p + k ELSE p + k - Ring
    BY <2>1, <2>5
  <2> HIDE DEF i, p
  <2>3. CASE p + k < Ring
    <3>1. i \in p .. p + n - 1 /\ recvPos + i - p = j
      BY <2>1, <2>2, <2>3, <1>1, <1>2
    <3> QED
      BY <3>1, <1>3 DEF i
  <2>4. CASE ~(p + k < Ring)
    <3>1. i \notin p .. p + n - 1 /\ i + Ring \in p .. p + n - 1 /\ recvPos + i + Ring - p = j
      BY <2>1, <2>2, <2>4, <1>1, <1>2
    <3> QED
      BY <3>1, <1>3 DEF i
  <2> QED
    BY <2>3, <2>4
<1>5. CASE j < recvPos
  <2> DEFINE k == recvPos - j
  <2>1. k \in 1 .. Ring - 1 /\ k + n <= Ring /\ recvPos = j + k
    BY <1>1, <1>5
  <2> HIDE DEF k
  <2>5. ((j + k) % Ring) = IF (j % Ring) + k < Ring THEN (j % Ring) + k ELSE (j % Ring) + k - Ring
    <3>1. k \in 0 .. Ring - 1
      BY <2>1, <1>1
    <3> QED
      BY <3>1, <1>1, ModPlus
  <2>2. p = IF i + k < Ring THEN i + k ELSE i + k - Ring
    BY <2>1, <2>5
  <2>3. Data[i] = S(j)
    <3>1. j \in readPos .. recvPos - 1
      BY <1>1, <1>5
    <3> QED
      BY <3>1, Zenon DEF RingHolds
  <2> HIDE DEF i, p
  <2>4. i \notin p .. p + n - 1 /\ i + Ring \notin p .. p + n - 1
    BY <2>1, <2>2, <1>1, <1>2
  <2> QED
    BY <2>4, <2>3, <1>3 DEF i
<1> QED
  BY <1>4, <1>5, <1>1

(* What the search looks at is the stream, as far as it has come. *)
LEMMA SeenIsStream ==
  ASSUME TypeOK, RingHolds, NEW i \in Nat, readPos + i < recvPos
  PROVE  Seen(i) = S(readPos + i) /\ Seen(i) \in Byte
<1>1. readPos + i \in readPos .. recvPos - 1 /\ readPos + i \in 0 .. Len(stream) - 1
  BY DEF TypeOK
<1> QED
  BY <1>1, StreamBytes DEF RingHolds, Seen

(* The search reads the ring and nothing outside of it. *)
LEMMA SeenType ==
  ASSUME TypeOK, NEW i \in Nat
  PROVE  Seen(i) \in Byte
<1>1. readPos + i \in Nat /\ Ring \in Nat \ {0}
  BY ResponseAssumption DEF TypeOK
<1>2. ((readPos + i) % Ring) \in 0 .. Ring - 1
  BY <1>1, ModFacts
<1> QED
  BY <1>2 DEF TypeOK, Seen

-----------------------------------------------------------------------------
(* The search.                                                             *)

(* The length is that of the stream once its bytes have come. *)
LEMMA LengthSeen ==
  ASSUME TypeOK, RingHolds, readPos + 3 <= recvPos
  PROVE  framelen = Length(readPos)
<1>1. readPos + 1 < recvPos /\ readPos + 2 < recvPos
  BY DEF TypeOK
<1>2. Seen(1) = S(readPos + 1) /\ Seen(2) = S(readPos + 2)
  BY <1>1, SeenIsStream
<1> QED
  BY <1>2 DEF framelen, Length

(* An answer that has come as far as its length is not skipped. *)
LEMMA AnswerStops ==
  ASSUME TypeOK, RingHolds, AnswerAt(readPos), readPos + 3 <= recvPos
  PROVE  /\ Candidate /\ framelen = Length(readPos)
         /\ Complete => ForThisCommand /\ ChecksumAgrees
<1>1. framelen = Length(readPos)
  BY LengthSeen
<1>2. framelen \in 3 .. MaxLen /\ S(readPos) = FRAME_HEAD1_FLAG
      /\ Masked(S(readPos + 4)) = call.cmd
      /\ CheckSum([i \in 0 .. framelen - 1 |-> S(readPos + i)], framelen)
           = 256 * S(readPos + framelen + 1) + S(readPos + framelen)
  BY <1>1 DEF AnswerAt
<1>3. readPos \in Nat /\ recvPos \in Nat /\ MaxLen \in Nat
  BY ResponseAssumption DEF TypeOK
<1>4. Seen(0) = S(readPos)
  <2>1. readPos + 0 < recvPos /\ readPos + 0 = readPos
    BY <1>3
  <2> QED
    BY <2>1, SeenIsStream
<1>5. Candidate
  BY <1>2, <1>3, <1>4 DEF Candidate
<1>6. ASSUME Complete PROVE ForThisCommand /\ ChecksumAgrees
  <2> DEFINE L == framelen
  <2> HIDE DEF L
  <2>0. L \in 3 .. MaxLen /\ L = framelen
    BY <1>2 DEF L
  <2>1. \A i \in 0 .. L + 1 : Seen(i) = S(readPos + i)
    <3> SUFFICES ASSUME NEW i \in 0 .. L + 1 PROVE Seen(i) = S(readPos + i)
      OBVIOUS
    <3>1. i \in Nat /\ readPos + i < recvPos
      BY <2>0, <1>3, <1>6 DEF Complete
    <3> QED
      BY <3>1, SeenIsStream
  <2>2. 4 \in 0 .. L + 1 /\ L \in 0 .. L + 1 /\ L + 1 \in 0 .. L + 1
        /\ readPos + (L + 1) = readPos + L + 1
    BY <2>0, <1>3
  <2>3. \A i \in 0 .. L - 1 : i \in 0 .. L + 1
    BY <2>0, <1>3
  <2>4. [i \in 0 .. L - 1 |-> Seen(i)] = [i \in 0 .. L - 1 |-> S(readPos + i)]
    BY <2>1, <2>3, Zenon
  <2>5. ForThisCommand
    BY <2>1, <2>2, <1>2 DEF ForThisCommand
  <2>6. Seen(L) = S(readPos + L) /\ Seen(L + 1) = S(readPos + L + 1)
    BY <2>1, <2>2
  <2>7. ChecksumAgrees
    BY <2>0, <2>4, <2>6, <1>2 DEF ChecksumAgrees
  <2> QED
    BY <2>5, <2>7
<1> QED
  BY <1>1, <1>5, <1>6

(* Whatever lies where the length and the command have not come yet makes  *)
(* no answer: a frame that is accepted is one of the stream.               *)
LEMMA AcceptedIsAnswer ==
  ASSUME TypeOK, RingHolds, Searching, Candidate, Complete, ForThisCommand, ChecksumAgrees
  PROVE  AnswerAt(readPos) /\ readPos + Length(readPos) + 2 <= recvPos
<1> DEFINE L == framelen
<1>1. readPos \in Nat /\ recvPos \in Nat /\ recvPos <= Len(stream) /\ MaxLen \in Nat
      /\ Len(stream) \in Nat /\ readPos < recvPos
  BY ResponseAssumption DEF TypeOK, Searching
<1>0. Seen(1) \in Byte /\ Seen(2) \in Byte /\ Seen(3) \in Byte
  BY SeenType
<1>3. /\ Seen(1) \in 0 .. 255 /\ Seen(2) \in 0 .. 255 /\ Seen(3) \in 0 .. 255
      /\ L = 256 * Seen(2) + Seen(1) /\ L \in Nat
  <2>1. Seen(1) \in 0 .. 255 /\ Seen(2) \in 0 .. 255 /\ Seen(3) \in 0 .. 255
    BY <1>0 DEF Byte
  <2>2. L = 256 * Seen(2) + Seen(1)
    BY DEF framelen
  <2> HIDE DEF L
  <2>3. L \in Nat
    BY <2>1, <2>2, TwoBytes
  <2> QED
    BY <2>1, <2>2, <2>3
<1>2. Seen(0) = FRAME_HEAD1_FLAG /\ L <= MaxLen /\ readPos + L + 2 <= recvPos
  BY <1>1, <1>3 DEF Candidate, Complete
<1>4. CheckSum([i \in 0 .. L - 1 |-> Seen(i)], L) = 256 * Seen(L + 1) + Seen(L)
  BY DEF ChecksumAgrees
<1> HIDE DEF L
<1>5. L # 0
  <2> SUFFICES ASSUME L = 0 PROVE FALSE
    OBVIOUS
  <2>1. 0 .. L - 1 = 0 .. -1 /\ \A i \in 0 .. -1 : FALSE
    OBVIOUS
  <2>2. [i \in 0 .. L - 1 |-> Seen(i)] = [i \in 0 .. -1 |-> 0]
    BY <2>1, Zenon
  <2>3. CheckSum([i \in 0 .. -1 |-> 0], 0) = 0
    BY ShortSums
  <2>4. 0 = 256 * Seen(1) + Seen(0)
    BY <2>2, <2>3, <1>4
  <2> QED
    BY <2>4, <1>2, <1>3 DEF FRAME_HEAD1_FLAG
<1>6. L # 1
  <2> SUFFICES ASSUME L = 1 PROVE FALSE
    OBVIOUS
  <2>1. 0 .. L - 1 = 0 .. 0 /\ \A i \in 0 .. 0 : i = 0
    OBVIOUS
  <2>2. [i \in 0 .. L - 1 |-> Seen(i)] = [i \in 0 .. 0 |-> FRAME_HEAD1_FLAG]
    BY <2>1, <1>2, Zenon
  <2>3. FRAME_HEAD1_FLAG \in Byte
    BY DEF FRAME_HEAD1_FLAG, Byte
  <2>4. CheckSum([i \in 0 .. 0 |-> FRAME_HEAD1_FLAG], 1) = FRAME_HEAD1_FLAG
    BY <2>3, ShortSums
  <2>5. FRAME_HEAD1_FLAG = 256 * Seen(2) + Seen(1)
    BY <2>2, <2>4, <1>4
  <2> QED
    BY <2>5, <1>3 DEF FRAME_HEAD1_FLAG
<1>7. L # 2
  <2> SUFFICES ASSUME L = 2 PROVE FALSE
    OBVIOUS
  <2>0. Seen(1) = 2 /\ Seen(2) = 0
    <3> DEFINE x == Seen(1)
               y == Seen(2)
    <3>1. x \in 0 .. 255 /\ y \in 0 .. 255 /\ 2 = 256 * y + x
      BY <1>3
    <3> HIDE DEF x, y
    <3>2. x = 2 /\ y = 0
      BY <3>1
    <3> QED
      BY <3>2 DEF x, y
  <2>1. 0 .. L - 1 = 0 .. 1 /\ \A i \in 0 .. 1 : i = 0 \/ i = 1
    OBVIOUS
  <2>2. [i \in 0 .. L - 1 |-> Seen(i)] = [i \in 0 .. 1 |-> IF i = 0 THEN FRAME_HEAD1_FLAG ELSE 2]
    BY <2>0, <2>1, <1>2, Zenon
  <2>3. FRAME_HEAD1_FLAG \in Byte /\ 2 \in Byte
    BY DEF FRAME_HEAD1_FLAG, Byte
  <2>4. CheckSum([i \in 0 .. 1 |-> IF i = 0 THEN FRAME_HEAD1_FLAG ELSE 2], 2) = FRAME_HEAD1_FLAG + 2
    BY <2>3, ShortSums
  <2>5. FRAME_HEAD1_FLAG + 2 = 256 * Seen(3) + Seen(2)
    BY <2>2, <2>4, <1>4
  <2> QED
    BY <2>0, <2>5, <1>3 DEF FRAME_HEAD1_FLAG
<1>8. L \in 3 .. MaxLen
  <2>1. L \in Nat /\ MaxLen \in Nat /\ L <= MaxLen
    BY <1>1, <1>2, <1>3
  <2> QED
    BY <2>1, <1>5, <1>6, <1>7
<1>9. \A i \in 0 .. L + 1 : Seen(i) = S(readPos + i)
  <2> SUFFICES ASSUME NEW i \in 0 .. L + 1 PROVE Seen(i) = S(readPos + i)
    OBVIOUS
  <2>1. i \in Nat /\ readPos + i < recvPos
    BY <1>1, <1>2, <1>8
  <2> QED
    BY <2>1, SeenIsStream
<1>10. L = Length(readPos)
  <2>1. readPos + 3 <= recvPos
    BY <1>1, <1>2, <1>8
  <2> QED
    BY <2>1, LengthSeen DEF L
<1>11. /\ 0 \in 0 .. L + 1 /\ 4 \in 0 .. L + 1 /\ L \in 0 .. L + 1 /\ L + 1 \in 0 .. L + 1
       /\ readPos + 0 = readPos /\ readPos + (L + 1) = readPos + L + 1
       /\ readPos + 4 < Len(stream) /\ readPos + L + 2 <= Len(stream)
       /\ \A i \in 0 .. L - 1 : i \in 0 .. L + 1
  BY <1>1, <1>2, <1>8
<1>12. S(readPos) = FRAME_HEAD1_FLAG /\ Masked(S(readPos + 4)) = call.cmd
  BY <1>2, <1>9, <1>11 DEF ForThisCommand
<1>13. [i \in 0 .. L - 1 |-> Seen(i)] = [i \in 0 .. L - 1 |-> S(readPos + i)]
  BY <1>9, <1>11, Zenon
<1>14. CheckSum([i \in 0 .. L - 1 |-> S(readPos + i)], L) = 256 * S(readPos + L + 1) + S(readPos + L)
  <2>1. Seen(L) = S(readPos + L) /\ Seen(L + 1) = S(readPos + L + 1)
    BY <1>9, <1>11
  <2> QED
    BY <2>1, <1>4, <1>13
<1> QED
  BY <1>2, <1>8, <1>10, <1>11, <1>12, <1>14 DEF AnswerAt
-----------------------------------------------------------------------------
(* Time and types.                                                         *)

(* What every call of the driver has in common. *)
LEMMA CallFacts ==
  ASSUME TypeOK
  PROVE  /\ call \in CallType /\ call.timeout + MaxLag + MaxStall < Wrap
         /\ call.answer \in Nat /\ call.timeout \in Nat /\ FrameSize(call) \in Nat
         /\ RemainSize \in Nat \ {0}
<1>1. call \in Calls /\ call \in CallType
  BY ResponseAssumption DEF TypeOK
<1>2. call.answer \in Nat /\ call.timeout \in Nat /\ call.payload \in Seq(Byte)
  BY <1>1 DEF CallType
<1>3. Len(call.payload) \in Nat
  BY <1>2
<1> QED
  BY <1>1, <1>2, <1>3, ClockAssumption DEF FrameSize, RemainSize, HeadSize

(* The difference of two readings of getms() is the time that has passed. *)
LEMMA WaitTimeIsElapsed ==
  ASSUME TypeOK, ClockTells
  PROVE  WaitTime = elapsed /\ elapsed < Wrap
<1>1. /\ clock \in 0 .. Wrap - 1 /\ starttime \in 0 .. Wrap - 1 /\ elapsed \in Nat
      /\ Wrap \in Nat /\ MaxLag \in Nat /\ MaxStall \in Nat /\ stalled \in 0 .. MaxStall
      /\ call.timeout \in Nat /\ call.timeout + MaxLag + MaxStall < Wrap
  BY CallFacts, ResponseAssumption DEF TypeOK
<1> QED
  BY <1>1 DEF WaitTime, ClockTells

(* Time that passes, no longer than was given and was held on to, keeps    *)
(* the clock told.                                                         *)
LEMMA TimeMoves ==
  ASSUME TypeOK, ClockTells, NEW d \in Nat, NEW t \in 0 .. MaxStall,
         elapsed + d <= call.timeout + MaxLag + t,
         TimePasses(d), stalled' = t, call' = call
  PROVE  /\ ClockTells'
         /\ clock' \in 0 .. Wrap - 1 /\ starttime' \in 0 .. Wrap - 1 /\ elapsed' \in Nat
         /\ stalled' \in 0 .. MaxStall
<1>1. /\ clock \in 0 .. Wrap - 1 /\ starttime \in 0 .. Wrap - 1 /\ elapsed \in Nat
      /\ Wrap \in Nat /\ MaxLag \in Nat /\ MaxStall \in Nat /\ call.timeout \in Nat
      /\ call.timeout + MaxLag + MaxStall < Wrap
  BY CallFacts, ResponseAssumption DEF TypeOK
<1>3. /\ clock' = IF clock + d >= Wrap THEN clock + d - Wrap ELSE clock + d
      /\ elapsed' = elapsed + d /\ starttime' = starttime
  BY DEF TimePasses, Later
<1>4. clock = IF starttime + elapsed >= Wrap THEN starttime + elapsed - Wrap ELSE starttime + elapsed
  BY DEF ClockTells
<1>5. clock' \in 0 .. Wrap - 1 /\ starttime' \in 0 .. Wrap - 1 /\ elapsed' \in Nat
  <2>1. (IF clock + d >= Wrap THEN clock + d - Wrap ELSE clock + d) \in 0 .. Wrap - 1
    BY <1>1
  <2> QED
    BY <2>1, <1>1, <1>3
<1>6. (IF clock + d >= Wrap THEN clock + d - Wrap ELSE clock + d)
        = IF starttime + (elapsed + d) >= Wrap THEN starttime + (elapsed + d) - Wrap
                                               ELSE starttime + (elapsed + d)
  BY <1>1, <1>4
<1>7. ClockTells'
  BY <1>3, <1>6 DEF ClockTells
<1> QED
  BY <1>5, <1>7

(* Something happens at the port in time, or a part of what is waited for  *)
(* is held on to.                                                          *)
LEMMA TimeStep ==
  ASSUME TypeOK, ClockTells, WaitOnce \/ WaitIsOver \/ Stall, call' = call
  PROVE  /\ ClockTells'
         /\ clock' \in 0 .. Wrap - 1 /\ starttime' \in 0 .. Wrap - 1 /\ elapsed' \in Nat
         /\ stalled' \in 0 .. MaxStall
<1>1. /\ elapsed \in Nat /\ MaxLag \in Nat /\ MaxStall \in Nat /\ call.timeout \in Nat
      /\ stalled \in 0 .. MaxStall /\ WaitTime = elapsed
  BY CallFacts, WaitTimeIsElapsed, ResponseAssumption DEF TypeOK
<1>2. CASE WaitOnce
  <2>1. PICK d \in 0 .. Remaining + MaxLag : TimePasses(d)
    BY <1>2 DEF WaitOnce
  <2>2. d \in Nat /\ elapsed + d <= call.timeout + MaxLag + 0 /\ 0 \in 0 .. MaxStall
    BY <1>1, <1>2 DEF WaitOnce, Remaining, TimeLeft
  <2>3. stalled' = 0
    BY <1>2 DEF WaitOnce
  <2> QED
    BY <2>1, <2>2, <2>3, TimeMoves
<1>3. CASE Stall
  <2>1. PICK d \in 1 .. MaxStall - stalled : TimePasses(d) /\ stalled' = stalled + d
    BY <1>3 DEF Stall
  <2>2. elapsed <= call.timeout + MaxLag + stalled
    BY DEF ClockTells
  <2>3. d \in Nat /\ stalled + d \in 0 .. MaxStall
        /\ elapsed + d <= call.timeout + MaxLag + (stalled + d)
    BY <2>1, <2>2, <1>1
  <2> QED
    BY <2>1, <2>3, TimeMoves
<1>4. CASE UNCHANGED time
  BY <1>4 DEF TypeOK, ClockTells, time
<1> QED
  BY <1>2, <1>3, <1>4 DEF WaitIsOver

(* Where the stream and the call stay, answers stay. *)
LEMMA AnswerSame ==
  ASSUME UNCHANGED <<stream, call>>, NEW p
  PROVE  AnswerAt(p)' <=> AnswerAt(p)
BY DEF AnswerAt, Length, S

(* The same for the head of the ring, which is a state function. *)
LEMMA AnswerHere ==
  ASSUME UNCHANGED <<stream, call, readPos>>
  PROVE  AnswerAt(readPos)' <=> AnswerAt(readPos)
BY DEF AnswerAt, Length, S

(* Nothing is a number of blocks. *)
LEMMA NoBlock == 0 \in Blocks
<1>1. 0 \in Byte /\ 0 = 256 * 0
  BY DEF Byte
<1> QED
  BY <1>1 DEF Blocks

(* Before the first call. *)
LEMMA InitInv == Init => TypeOK /\ ClockTells /\ Unread /\ SearchesPiece /\ RingHolds
<1> SUFFICES ASSUME Init PROVE TypeOK /\ ClockTells /\ Unread /\ SearchesPiece /\ RingHolds
  OBVIOUS
<1>1. TypeOK
  <2>1. call \in CallType /\ Len(call.payload) \in Nat
    BY ResponseAssumption DEF Init, CallType
  <2>2. [i \in 0 .. Ring - 1 |-> 0] \in [0 .. Ring - 1 -> Byte]
    BY DEF Byte
  <2>3. 0 \in Blocks
    BY NoBlock
  <2> QED
    BY <2>1, <2>2, <2>3, ResponseAssumption DEF Init, TypeOK, FrameSize, HeadSize
<1>2. ClockTells
  BY <1>1, CallFacts, ResponseAssumption DEF Init, ClockTells
<1>3. Unread /\ SearchesPiece
  BY ResponseAssumption DEF Init, Unread, SearchesPiece
<1>4. RingHolds
  BY DEF Init, RingHolds
<1> QED
  BY <1>1, <1>2, <1>3, <1>4

(* A new call, and the beginning of its wait. *)
LEMMA TypeBegin ==
  ASSUME TypeOK, SendCommand \/ WaitForResponse
  PROVE  TypeOK' /\ ClockTells'
<1>1. call' \in Calls
  BY DEF TypeOK, SendCommand, WaitForResponse
<1>2. /\ Len(call'.payload) \in Nat /\ call'.timeout \in Nat
  BY <1>1, ResponseAssumption DEF CallType
<1>3. [i \in 0 .. Ring - 1 |-> 0] \in [0 .. Ring - 1 -> Byte]
  BY DEF Byte
<1>4. sent' \in 0 .. FrameSize(call')
  <2>1. 0 \in 0 .. FrameSize(call')
    BY <1>2 DEF FrameSize, HeadSize
  <2> QED
    BY <2>1 DEF TypeOK, SendCommand, WaitForResponse
<1>5. stream' \in Seq(Byte) /\ Data' \in [0 .. Ring - 1 -> Byte]
  BY <1>3, ResponseAssumption DEF SendCommand, WaitForResponse
<1>6. Len(stream') \in Nat
  BY <1>5
<1>7. recvPos' = 0 /\ readPos' = 0 /\ ends' = {} /\ elapsed' = 0 /\ starttime' = clock'
      /\ clock' \in 0 .. Wrap - 1
  BY ResponseAssumption DEF SendCommand, WaitForResponse
<1>11. stalled' = 0 /\ stalled' \in 0 .. MaxStall /\ (info' = 0 \/ info' = info)
  BY ResponseAssumption DEF SendCommand, WaitForResponse
<1>8. at' \in {"sending", "waiting"} /\ (result' = "none" \/ result' = result)
      /\ (response' = <<>> \/ response' = response)
  BY DEF SendCommand, WaitForResponse
<1>9. TypeOK'
  BY <1>1, <1>4, <1>5, <1>6, <1>7, <1>8, <1>11, NoBlock DEF TypeOK
<1>10. ClockTells'
  <2>1. MaxLag \in Nat /\ Wrap \in Nat
    BY ResponseAssumption
  <2>2. starttime' \in 0 .. Wrap - 1 /\ clock' = starttime' /\ elapsed' = 0
    BY <1>7
  <2>3. elapsed' <= call'.timeout + MaxLag + stalled'
    BY <2>1, <2>2, <1>2, <1>11
  <2>4. clock' = IF starttime' + elapsed' >= Wrap THEN starttime' + elapsed' - Wrap
                                                  ELSE starttime' + elapsed'
    <3>1. \A x \in 0 .. Wrap - 1 : x = IF x + 0 >= Wrap THEN x + 0 - Wrap ELSE x + 0
      BY <2>1
    <3> QED
      BY <3>1, <2>2
  <2> QED
    BY <2>3, <2>4 DEF ClockTells
<1> QED
  BY <1>9, <1>10

(* The wait and its ends. *)
LEMMA TypeWait ==
  ASSUME TypeOK, ClockTells, PartComes \/ Stall \/ WaitForData \/ WaitTimesOut \/ WaitFails
  PROVE  TypeOK' /\ ClockTells'
<1>1. /\ call' = call /\ UNCHANGED <<sent, stream, readPos, response, info>>
      /\ WaitOnce \/ WaitIsOver \/ Stall
  BY DEF PartComes, Stall, WaitForData, WaitTimesOut, WaitFails, ring
<1>3. /\ ClockTells'
      /\ clock' \in 0 .. Wrap - 1 /\ starttime' \in 0 .. Wrap - 1 /\ elapsed' \in Nat
      /\ stalled' \in 0 .. MaxStall
  BY <1>1, TimeStep
<1>4. CASE WaitForData
  <2>1. PICK n \in RemainSize .. MaxPiece :
          /\ recvPos + n <= Len(stream)
          /\ Data' = Stored(n)
          /\ recvPos' = recvPos + n
          /\ ends' = ends \cup {recvPos + n}
    BY <1>4 DEF WaitForData
  <2>2. n \in Nat \ {0} /\ n <= MaxPiece
    BY CallFacts, ResponseAssumption
  <2>3. Data' \in [0 .. Ring - 1 -> Byte]
    BY <2>1, <2>2, StoredType
  <2>4. recvPos' \in 0 .. Len(stream) /\ readPos \in 0 .. recvPos' /\ recvPos' \in 1 .. Len(stream)
    BY <2>1, <2>2 DEF TypeOK
  <2>5. ends' \subseteq 1 .. Len(stream)
    BY <2>1, <2>4 DEF TypeOK
  <2>6. at' = "searching" /\ result' = result
    BY <1>4 DEF WaitForData
  <2> QED
    BY <1>1, <1>3, <2>3, <2>4, <2>5, <2>6 DEF TypeOK
<1>5. CASE WaitTimesOut \/ WaitFails
  <2>1. at' = "idle" /\ result' \in {"TIMEOUT", "FAIL"} /\ UNCHANGED <<Data, recvPos, ends>>
    BY <1>5 DEF WaitTimesOut, WaitFails, Return, ring
  <2> QED
    BY <1>1, <1>3, <2>1 DEF TypeOK
<1>6. CASE PartComes \/ Stall
  <2>1. at' = "stalled" /\ result' = result /\ UNCHANGED <<Data, recvPos, ends>>
    BY <1>6 DEF PartComes, Stall, ring
  <2> QED
    BY <1>1, <1>3, <2>1 DEF TypeOK
<1> QED
  BY <1>4, <1>5, <1>6

(* What getDeviceInfo() copies: the search has taken the second byte of    *)
(* the length for that of a frame that is shorter than 256.                *)
LEMMA InfoType ==
  ASSUME TypeOK, Candidate
  PROVE  InfoSize(Copied) \in Blocks
<1>1. Seen(1) \in Byte /\ Seen(2) \in Byte /\ Seen(3) \in Byte
  BY SeenType
<1>2. Seen(2) = 0
  <2>1. Seen(1) \in 0 .. 255 /\ Seen(2) \in 0 .. 255 /\ MaxLen <= 255 /\ MaxLen \in Nat
    BY <1>1, ResponseAssumption DEF Byte
  <2>2. 256 * Seen(2) + Seen(1) <= MaxLen
    BY DEF Candidate, framelen
  <2> DEFINE x == Seen(1)
             y == Seen(2)
  <2>5. x \in 0 .. 255 /\ y \in 0 .. 255 /\ 256 * y + x <= MaxLen
    BY <2>1, <2>2, Zenon
  <2> HIDE DEF x, y
  <2>3. x \in 0 .. 255 /\ y \in 0 .. 255 /\ 256 * y + x <= 255
    BY <2>1, <2>5
  <2>4. y = 0
    BY <2>3
  <2> QED
    BY <2>4 DEF y
<1>3. 2 \in 0 .. HeadSize + call.answer - 1 /\ 3 \in 0 .. HeadSize + call.answer - 1
  BY CallFacts DEF HeadSize
<1>4. Copied[2] = Seen(2) /\ Copied[3] = Seen(3)
  BY <1>3 DEF Copied
<1>5. 256 * Copied[3] + Copied[2] = 256 * Copied[3] /\ Copied[3] \in Byte
  <2>1. \A x \in Byte : 256 * x + 0 = 256 * x
    BY DEF Byte
  <2> QED
    BY <2>1, <1>1, <1>2, <1>4
<1> QED
  BY <1>5, NoBlock, Zenon DEF InfoSize, Blocks

(* Every step keeps the types and the clock. *)
LEMMA TypeStep == TypeOK /\ ClockTells /\ [Next]_vars => TypeOK' /\ ClockTells'
<1> SUFFICES ASSUME TypeOK, ClockTells, [Next]_vars PROVE TypeOK' /\ ClockTells'
  OBVIOUS
<1>1. CASE SendCommand \/ WaitForResponse
  BY <1>1, TypeBegin
<1>2. CASE PartComes \/ Stall \/ WaitForData \/ WaitTimesOut \/ WaitFails
  BY <1>2, TypeWait
<1>3. ASSUME UNCHANGED <<call, time>> PROVE ClockTells'
  BY <1>3 DEF ClockTells, time
<1>4. CASE SendSome
  <2>1. PICK k \in 1 .. FrameSize(call) - sent : sent' = sent + k
    BY <1>4 DEF SendSome
  <2>2. sent' \in 0 .. FrameSize(call)
    BY <2>1, CallFacts DEF TypeOK
  <2>3. UNCHANGED <<at, call, ring, time, result, response, info>>
    BY <1>4 DEF SendSome
  <2>4. FrameSize(call)' = FrameSize(call)
    BY <2>3
  <2> QED
    BY <1>3, <2>2, <2>3, <2>4 DEF TypeOK, ring, time
<1>5. CASE Sent \/ TimeIsUp \/ WaitForMore \/ Reject
  <2>1. /\ UNCHANGED <<call, sent, ring, time, response, info>>
        /\ at' \in {"idle", "waiting"} /\ result' \in {result, "OK", "TIMEOUT", "INVALID"}
    BY <1>5 DEF Sent, TimeIsUp, WaitForMore, Reject, Return
  <2> QED
    BY <1>3, <2>1 DEF TypeOK, ring, time
<1>6. CASE SkipByte
  <2>1. readPos' \in 0 .. recvPos
    BY <1>6 DEF SkipByte, Searching, TypeOK
  <2> QED
    BY <1>3, <1>6, <2>1 DEF SkipByte, TypeOK, time
<1>7. CASE Accept
  <2>1. response' \in [0 .. HeadSize + call.answer - 1 -> Byte]
    <3>1. \A i \in 0 .. HeadSize + call.answer - 1 : Seen(i) \in Byte
      BY SeenType, CallFacts DEF HeadSize
    <3>2. response' = [i \in 0 .. HeadSize + call.answer - 1 |-> Seen(i)]
      BY <1>7 DEF Accept, Copied
    <3> QED
      BY <3>1, <3>2, Zenon
  <2>2. call \in Calls
    BY DEF TypeOK
  <2>3. \E c \in Calls : response' \in [0 .. HeadSize + c.answer - 1 -> Byte]
    BY <2>1, <2>2, Zenon
  <2>4. UNCHANGED <<call, sent, ring, time>> /\ at' = "idle" /\ result' \in {"OK", "CODE"}
    BY <1>7 DEF Accept, Return, Verdict
  <2>5. info' \in Blocks
    BY <1>7, InfoType DEF Accept
  <2> QED
    BY <1>3, <2>3, <2>4, <2>5 DEF TypeOK, ring, time
<1>8. CASE UNCHANGED vars
  <2>1. UNCHANGED <<at, call, sent, ring, time, result, response, info>>
    BY <1>8 DEF vars
  <2> QED
    BY <1>3, <2>1 DEF TypeOK, ring, time
<1> QED
  BY <1>1, <1>2, <1>4, <1>5, <1>6, <1>7, <1>8 DEF Next

-----------------------------------------------------------------------------
(* The ring and the search, step by step.                                  *)

RInv == Unread /\ SearchesPiece /\ RingHolds

Quiet == UNCHANGED <<stream, Data, recvPos, readPos, ends>>

(* A step that leaves the ring alone and does not begin a search. *)
LEMMA QuietRing ==
  ASSUME RInv, Quiet, at' # "searching",
         at' \in {"waiting", "stalled"} => at \in {"waiting", "stalled"}
  PROVE  RInv'
<1>1. Unread'
  BY DEF RInv, Quiet, Unread
<1>2. SearchesPiece'
  BY DEF SearchesPiece
<1>3. RingHolds'
  BY DEF RInv, Quiet, RingHolds, S
<1> QED
  BY <1>1, <1>2, <1>3 DEF RInv

(* Every step keeps what the ring holds. *)
LEMMA RingStep == TypeOK /\ RInv /\ [Next]_vars => RInv'
<1> SUFFICES ASSUME TypeOK, RInv, [Next]_vars PROVE RInv'
  OBVIOUS
<1>0. /\ recvPos \in Nat /\ readPos \in Nat /\ readPos <= recvPos
      /\ MaxLen \in Nat /\ MaxPiece \in Nat /\ Unread /\ SearchesPiece /\ RingHolds
  BY ResponseAssumption DEF TypeOK, RInv
<1>1. CASE SendCommand \/ WaitForResponse
  <2>1. recvPos' = 0 /\ readPos' = 0 /\ at' # "searching"
    BY <1>1 DEF SendCommand, WaitForResponse
  <2>2. Unread'
    BY <2>1, <1>0 DEF Unread
  <2>3. SearchesPiece' /\ RingHolds'
    BY <2>1 DEF SearchesPiece, RingHolds
  <2> QED
    BY <2>2, <2>3 DEF RInv
<1>2. CASE SendSome \/ Sent
  BY <1>2, QuietRing DEF SendSome, Sent, Quiet, ring
<1>3. CASE PartComes \/ Stall \/ WaitTimesOut \/ WaitFails \/ TimeIsUp
  BY <1>3, QuietRing
  DEF PartComes, Stall, WaitOnce, WaitTimesOut, WaitFails, TimeIsUp, Return, Quiet, ring
<1>4. CASE Accept \/ Reject
  BY <1>4, QuietRing DEF Accept, Reject, Return, Quiet, ring
<1>5. CASE WaitForData
  <2>1. PICK n \in RemainSize .. MaxPiece :
          /\ recvPos + n <= Len(stream)
          /\ Data' = Stored(n)
          /\ recvPos' = recvPos + n
          /\ ends' = ends \cup {recvPos + n}
    BY <1>5 DEF WaitForData
  <2>2. n \in 1 .. MaxPiece
    BY CallFacts, <1>0
  <2>3. at \in {"waiting", "stalled"} /\ at' = "searching" /\ stream' = stream /\ readPos' = readPos
    BY <1>5 DEF WaitForData, WaitIsOver, WaitOnce
  <2>4. recvPos - readPos <= MaxLen + 1
    BY <2>3, <1>0 DEF Unread
  <2>5. Unread'
    BY <2>1, <2>2, <2>3, <2>4, <1>0 DEF Unread
  <2>6. SearchesPiece'
    BY <2>1 DEF SearchesPiece
  <2>7. \A j \in readPos .. recvPos + n - 1 : Stored(n)[(j % Ring)] = S(j)
    BY <2>1, <2>2, <2>4, <1>0, StoredHolds
  <2>8. RingHolds'
    <3>0. recvPos' - 1 = recvPos + n - 1
      BY <2>1, <2>2, <1>0
    <3>1. readPos' .. recvPos' - 1 = readPos .. recvPos + n - 1
      BY <2>3, <3>0, Zenon
    <3>2. \A j : S(j)' = S(j)
      BY <2>3 DEF S
    <3> QED
      BY <2>1, <2>7, <3>1, <3>2, Zenon DEF RingHolds
  <2> QED
    BY <2>5, <2>6, <2>8 DEF RInv
<1>6. CASE SkipByte
  <2>1. /\ readPos' = readPos + 1 /\ readPos < recvPos /\ at = "searching"
        /\ UNCHANGED <<at, stream, Data, recvPos, ends>>
    BY <1>6 DEF SkipByte, Searching
  <2>2. Unread' /\ SearchesPiece'
    BY <2>1, <1>0 DEF Unread, SearchesPiece
  <2>3. \A j \in readPos + 1 .. recvPos - 1 : j \in readPos .. recvPos - 1
    BY <1>0
  <2>4. RingHolds'
    BY <2>1, <2>3, <1>0 DEF RingHolds, S
  <2> QED
    BY <2>2, <2>4 DEF RInv
<1>7. CASE WaitForMore
  <2>1. at' = "waiting" /\ Quiet
    BY <1>7 DEF WaitForMore, Quiet, ring
  <2>2. recvPos - readPos <= MaxLen + 1
    <3>1. framelen \in Nat
      <4>1. Seen(1) \in Byte /\ Seen(2) \in Byte
        BY SeenType
      <4>2. Seen(1) \in 0 .. 255 /\ Seen(2) \in 0 .. 255
        BY <4>1 DEF Byte
      <4> QED
        BY <4>2, TwoBytes DEF framelen
    <3>2. readPos = recvPos \/ (framelen <= MaxLen /\ ~(framelen + 2 <= recvPos - readPos))
      BY <1>7 DEF WaitForMore, Candidate, Complete
    <3> QED
      BY <3>1, <3>2, <1>0
  <2>3. Unread'
    BY <2>1, <2>2, <1>0 DEF Unread, Quiet
  <2>4. SearchesPiece' /\ RingHolds'
    BY <2>1, <1>0 DEF SearchesPiece, RingHolds, S, Quiet
  <2> QED
    BY <2>3, <2>4 DEF RInv
<1>8. CASE UNCHANGED vars
  BY <1>8, <1>0 DEF vars, ring, RInv, Unread, SearchesPiece, RingHolds, S
<1> QED
  BY <1>1, <1>2, <1>3, <1>4, <1>5, <1>6, <1>7, <1>8 DEF Next

-----------------------------------------------------------------------------
(* The answers.                                                            *)

(* What is accepted was received, since the ring holds what is searched;   *)
(* no other step reports an answer.                                        *)
LEMMA AcceptStep ==
  ASSUME TypeOK, RingHolds, AcceptsOnlyAnswers, [Next]_vars
  PROVE  AcceptsOnlyAnswers'
<1>1. CASE Accept
  <2>1. UNCHANGED <<stream, call, readPos, recvPos>> /\ response' = Copied
    BY <1>1 DEF Accept, ring
  <2>2. AnswerAt(readPos) /\ readPos + Length(readPos) + 2 <= recvPos
    BY <1>1, AcceptedIsAnswer DEF Accept
  <2>3. AnswerAt(readPos)'
    BY <2>1, <2>2, AnswerHere
  <2>4. Length(readPos) \in 3 .. MaxLen /\ MaxLen \in Nat /\ readPos \in Nat /\ recvPos \in Nat
        /\ HeadSize + call.answer - 1 \in Int
    <3>1. Length(readPos) \in 3 .. MaxLen
      BY <2>2 DEF AnswerAt
    <3>2. MaxLen \in Nat /\ readPos \in Nat /\ recvPos \in Nat
      BY ResponseAssumption DEF TypeOK
    <3> QED
      BY <3>1, <3>2, CallFacts DEF HeadSize
  <2>5. ASSUME NEW i \in 0 .. HeadSize + call.answer - 1, i < Length(readPos) + 2
        PROVE  Copied[i] = S(readPos + i)
    <3>1. i \in Nat /\ readPos + i < recvPos
      BY <2>2, <2>4, <2>5
    <3>2. Seen(i) = S(readPos + i)
      BY <3>1, SeenIsStream
    <3> QED
      BY <3>2 DEF Copied
  <2>6. Length(readPos)' = Length(readPos) /\ \A i : S(readPos + i)' = S(readPos + i)
    BY <2>1 DEF Length, S
  <2> QED
    BY <2>1, <2>2, <2>3, <2>5, <2>6 DEF AcceptsOnlyAnswers
<1>2. CASE Sent
  BY <1>2 DEF Sent, AcceptsOnlyAnswers, Answered
<1>3. CASE \/ SendCommand \/ SendSome \/ WaitForResponse \/ PartComes \/ Stall
           \/ WaitForData \/ SkipByte \/ WaitForMore
  <2>1. at' # "idle"
    BY <1>3 DEF SendCommand, SendSome, WaitForResponse, PartComes, Stall, WaitForData, SkipByte,
                Searching, WaitForMore
  <2> QED
    BY <2>1 DEF AcceptsOnlyAnswers, Answered
<1>4. CASE WaitTimesOut \/ WaitFails \/ TimeIsUp \/ Reject
  <2>1. result' \notin {"OK", "CODE"}
    BY <1>4 DEF WaitTimesOut, WaitFails, TimeIsUp, Reject, Return
  <2> QED
    BY <2>1 DEF AcceptsOnlyAnswers, Answered
<1>5. CASE UNCHANGED vars
  <2>1. UNCHANGED <<at, call, stream, recvPos, readPos, result, response>>
    BY <1>5 DEF vars, ring
  <2>2. AnswerAt(readPos)' <=> AnswerAt(readPos)
    BY <2>1, AnswerHere
  <2>3. Length(readPos)' = Length(readPos) /\ \A i : S(readPos + i)' = S(readPos + i)
    BY <2>1 DEF Length, S
  <2> QED
    BY <2>1, <2>2, <2>3 DEF AcceptsOnlyAnswers, Answered
<1> QED
  BY <1>1, <1>2, <1>3, <1>4, <1>5 DEF Next

(* What is not passed over in a step need not be excused. *)
LEMMA SeenKept ==
  ASSUME AnswersAreSeen, at # "sending", stream' = stream, call' = call, ends \subseteq ends',
         \A p \in 0 .. Len(stream) - 1 :
           AnswerAt(p) /\ Passed(p)' => Passed(p) \/ p + 1 \in ends' \/ p + 2 \in ends'
  PROVE  AnswersAreSeen'
<1> SUFFICES ASSUME call.waits, NEW p \in 0 .. Len(stream) - 1, AnswerAt(p), Passed(p)'
             PROVE  p + 1 \in ends' \/ p + 2 \in ends'
  <2>1. \A p : AnswerAt(p)' <=> AnswerAt(p)
    BY AnswerSame
  <2> QED
    BY <2>1 DEF AnswersAreSeen
<1>1. Passed(p) => p + 1 \in ends \/ p + 2 \in ends
  BY DEF AnswersAreSeen
<1> QED
  BY <1>1

(* The search does not leave an answer whose length it has seen. *)
LEMMA LeftEarly ==
  ASSUME TypeOK, RInv, AnswerAt(readPos), SkipByte \/ Reject
  PROVE  readPos + 1 \in ends \/ readPos + 2 \in ends
<1>1. at = "searching" /\ readPos < recvPos /\ readPos \in Nat /\ recvPos \in Nat /\ RingHolds
  BY DEF SkipByte, Reject, Searching, TypeOK, RInv
<1>2. recvPos \in ends
  BY <1>1 DEF RInv, SearchesPiece
<1>3. ~(readPos + 3 <= recvPos)
  <2> SUFFICES ASSUME readPos + 3 <= recvPos PROVE FALSE
    OBVIOUS
  <2>1. Candidate /\ (Complete => ForThisCommand /\ ChecksumAgrees)
    BY <1>1, AnswerStops
  <2> QED
    BY <2>1 DEF SkipByte, Reject
<1>4. recvPos = readPos + 1 \/ recvPos = readPos + 2
  BY <1>1, <1>3
<1> QED
  BY <1>2, <1>4

(* Only a skipped byte can pass an answer over, and the search waits for
   the rest of a candidate it has seen three bytes of. *)
LEMMA SeenStep ==
  ASSUME TypeOK, RInv, AnswersAreSeen, [Next]_vars
  PROVE  AnswersAreSeen'
<1>1. CASE SendCommand \/ SendSome
  BY <1>1 DEF SendCommand, SendSome, AnswersAreSeen
<1>2. CASE Sent
  BY <1>2 DEF Sent, AnswersAreSeen
<1>3. CASE WaitForResponse
  <2>1. readPos' = 0 /\ at' = "waiting"
    BY <1>3 DEF WaitForResponse
  <2>2. \A p \in Nat : ~(0 > p)
    OBVIOUS
  <2>3. \A p \in 0 .. Len(stream') - 1 : p \in Nat
    OBVIOUS
  <2>4. \A p \in Nat : ~Passed(p)'
    BY <2>1, <2>2 DEF Passed
  <2> QED
    BY <2>3, <2>4 DEF AnswersAreSeen
<1>4. CASE WaitForData
  <2>1. /\ stream' = stream /\ call' = call /\ readPos' = readPos /\ at' = "searching"
        /\ at \in {"waiting", "stalled"} /\ ends \subseteq ends'
    BY <1>4 DEF WaitForData, WaitIsOver, WaitOnce
  <2>2. \A p : Passed(p)' => Passed(p)
    BY <2>1 DEF Passed
  <2> QED
    BY <2>1, <2>2, SeenKept
<1>5. CASE PartComes \/ Stall \/ WaitTimesOut \/ WaitFails \/ TimeIsUp \/ WaitForMore \/ Accept
  <2>1. /\ stream' = stream /\ call' = call /\ readPos' = readPos /\ ends' = ends
        /\ at \in {"waiting", "stalled", "searching"} /\ (at' # "idle" \/ result' # "INVALID")
    BY <1>5 DEF PartComes, Stall, WaitOnce, WaitIsOver, WaitTimesOut, WaitFails, TimeIsUp,
                WaitForMore, Accept, Searching, Return, Verdict, ring
  <2>2. \A p : Passed(p)' => Passed(p)
    BY <2>1 DEF Passed
  <2> QED
    BY <2>1, <2>2, SeenKept
<1>6. CASE SkipByte \/ Reject
  <2>1. /\ stream' = stream /\ call' = call /\ ends' = ends /\ at = "searching"
        /\ readPos' \in {readPos, readPos + 1} /\ (at' = "idle" => readPos' = readPos)
    BY <1>6 DEF SkipByte, Reject, Searching, Return, ring
  <2>2. ASSUME NEW p \in 0 .. Len(stream) - 1, Passed(p)' PROVE Passed(p) \/ p = readPos
    <3>1. readPos \in Nat /\ p \in Nat
      BY DEF TypeOK
    <3> QED
      BY <2>1, <2>2, <3>1 DEF Passed
  <2>3. AnswerAt(readPos) => readPos + 1 \in ends \/ readPos + 2 \in ends
    BY <1>6, LeftEarly
  <2>4. \A p \in 0 .. Len(stream) - 1 :
          AnswerAt(p) /\ Passed(p)' => Passed(p) \/ p + 1 \in ends' \/ p + 2 \in ends'
    BY <2>1, <2>2, <2>3
  <2> QED
    BY <2>1, <2>4, SeenKept
<1>7. CASE UNCHANGED vars
  <2>1. UNCHANGED <<at, call, stream, readPos, ends, result>>
    BY <1>7 DEF vars, ring
  <2>2. \A p : (AnswerAt(p)' <=> AnswerAt(p))
    BY <2>1, AnswerSame
  <2>3. \A p : (Passed(p)' <=> Passed(p))
    BY <2>1 DEF Passed
  <2> QED
    BY <2>1, <2>2, <2>3 DEF AnswersAreSeen
<1> QED
  BY <1>1, <1>2, <1>3, <1>4, <1>5, <1>6, <1>7 DEF Next

(* What the search stands at is what came, when the bytes it tests have. *)
LEMMA CandidateSeen ==
  ASSUME TypeOK, RingHolds, Candidate, readPos + 5 <= recvPos
  PROVE  /\ framelen = Length(readPos) /\ framelen \in Nat
         /\ S(readPos) = FRAME_HEAD1_FLAG /\ Length(readPos) <= MaxLen
         /\ Seen(4) = S(readPos + 4)
<1>1. readPos \in Nat /\ recvPos \in Nat
  BY DEF TypeOK
<1>2. readPos + 3 <= recvPos /\ readPos + 0 < recvPos /\ readPos + 4 < recvPos /\ readPos + 0 = readPos
  BY <1>1
<1>3. framelen = Length(readPos)
  BY <1>2, LengthSeen
<1>4. Seen(0) = S(readPos) /\ Seen(4) = S(readPos + 4)
  BY <1>2, SeenIsStream
<1>5. framelen \in Nat
  <2>1. Seen(1) \in Byte /\ Seen(2) \in Byte
    BY SeenType
  <2>2. Seen(1) \in 0 .. 255 /\ Seen(2) \in 0 .. 255
    BY <2>1 DEF Byte
  <2> QED
    BY <2>2, TwoBytes DEF framelen
<1> QED
  BY <1>3, <1>4, <1>5 DEF Candidate

(* A call that gives up on a frame to its command has seen that it is      *)
(* damaged.                                                                *)
LEMMA RejectedIsDamaged ==
  ASSUME TypeOK, RingHolds, Candidate, Complete, ForThisCommand, ~ChecksumAgrees,
         readPos + 5 <= recvPos
  PROVE  Damaged(readPos)
<1> DEFINE L == framelen
<1>1. readPos \in Nat /\ recvPos \in Nat /\ L \in Nat /\ L = Length(readPos)
      /\ S(readPos) = FRAME_HEAD1_FLAG /\ Length(readPos) <= MaxLen /\ Seen(4) = S(readPos + 4)
  BY CandidateSeen DEF TypeOK
<1>2. L + 2 <= recvPos - readPos /\ Masked(Seen(4)) = call.cmd
      /\ CheckSum([i \in 0 .. L - 1 |-> Seen(i)], L) # 256 * Seen(L + 1) + Seen(L)
  BY DEF Complete, ForThisCommand, ChecksumAgrees
<1> HIDE DEF L
<1>3. \A i \in 0 .. L + 1 : Seen(i) = S(readPos + i)
  <2> SUFFICES ASSUME NEW i \in 0 .. L + 1 PROVE Seen(i) = S(readPos + i)
    OBVIOUS
  <2>1. i \in Nat /\ readPos + i < recvPos
    BY <1>1, <1>2
  <2> QED
    BY <2>1, SeenIsStream
<1>4. L \in 0 .. L + 1 /\ L + 1 \in 0 .. L + 1 /\ readPos + (L + 1) = readPos + L + 1
      /\ \A i \in 0 .. L - 1 : i \in 0 .. L + 1
  BY <1>1
<1>5. [i \in 0 .. L - 1 |-> Seen(i)] = [i \in 0 .. L - 1 |-> S(readPos + i)]
  BY <1>3, <1>4, Zenon
<1>6. Seen(L) = S(readPos + L) /\ Seen(L + 1) = S(readPos + L + 1)
  BY <1>3, <1>4
<1>7. CheckSum([i \in 0 .. L - 1 |-> S(readPos + i)], L)
        # 256 * S(readPos + L + 1) + S(readPos + L)
  BY <1>2, <1>5, <1>6
<1>8. readPos + L + 2 <= recvPos
  BY <1>1, <1>2
<1> QED
  BY <1>1, <1>2, <1>7, <1>8 DEF Damaged

(* The search ends only with less at the head of the ring than an answer,  *)
(* or with a damaged one.                                                  *)
LEMMA BehindStep ==
  ASSUME TypeOK, RInv, NoAnswerLeftBehind, [Next]_vars
  PROVE  NoAnswerLeftBehind'
<1>0. readPos \in Nat /\ recvPos \in Nat /\ RingHolds /\ MaxLen \in Nat
  BY ResponseAssumption DEF TypeOK, RInv
<1>1. CASE SendCommand \/ SendSome \/ WaitForData \/ SkipByte
  <2>1. at' \notin {"waiting", "stalled", "idle"}
    BY <1>1 DEF SendCommand, SendSome, WaitForData, SkipByte, Searching
  <2> QED
    BY <2>1 DEF NoAnswerLeftBehind
<1>2. CASE Sent \/ Accept
  <2>1. at' = "idle" /\ result' \notin {"TIMEOUT", "FAIL", "INVALID"}
    BY <1>2 DEF Sent, Accept, Return, Verdict
  <2> QED
    BY <2>1 DEF NoAnswerLeftBehind
<1>3. CASE WaitForResponse
  <2>1. recvPos' = 0 /\ readPos' = 0
    BY <1>3 DEF WaitForResponse
  <2>2. \A p \in 0 .. 0 - 1 : FALSE
    OBVIOUS
  <2> QED
    BY <2>1, <2>2 DEF NoAnswerLeftBehind
<1>4. CASE PartComes \/ Stall \/ WaitTimesOut \/ WaitFails \/ TimeIsUp \/ UNCHANGED vars
  <2>1. /\ UNCHANGED <<call, stream, readPos, recvPos>>
        /\ \/ at \in {"waiting", "stalled"} /\ (at' = "idle" => result' # "INVALID")
           \/ at' = at /\ result' = result
    BY <1>4 DEF PartComes, Stall, WaitOnce, WaitIsOver, WaitTimesOut, WaitFails, TimeIsUp, Return,
                vars, ring
  <2>2. \A p : (AnswerAt(p)' <=> AnswerAt(p))
    BY <2>1, AnswerSame
  <2>3. \A p : Length(p)' = Length(p) /\ S(p)' = S(p)
    BY <2>1 DEF Length, S
  <2>4. (Unfinished(readPos)' <=> Unfinished(readPos)) /\ (Damaged(readPos)' <=> Damaged(readPos))
    BY <2>1 DEF Unfinished, Damaged, Length, S
  <2>5. CASE at \in {"waiting", "stalled"} /\ (at' = "idle" => result' # "INVALID")
    <3>1. \A p \in readPos .. recvPos - 1 : call.waits /\ AnswerAt(p) /\ p + Length(p) + 2 <= recvPos =>
            readPos < p /\ Unfinished(readPos)
      BY <2>5 DEF NoAnswerLeftBehind
    <3> QED
      BY <2>1, <2>2, <2>3, <2>4, <2>5, <3>1 DEF NoAnswerLeftBehind
  <2>6. CASE at' = at /\ result' = result
    BY <2>1, <2>2, <2>3, <2>4, <2>6 DEF NoAnswerLeftBehind
  <2> QED
    BY <2>1, <2>5, <2>6
<1>5. CASE WaitForMore \/ Reject
  <2>1. UNCHANGED <<call, stream, readPos, recvPos>>
    BY <1>5 DEF WaitForMore, Reject, ring
  <2>2. ASSUME NEW p \in readPos .. recvPos - 1, AnswerAt(p), p + Length(p) + 2 <= recvPos
        PROVE  readPos < p /\ IF Reject THEN Damaged(readPos) ELSE Unfinished(readPos)
    <3>1. Candidate /\ (~Complete \/ (Complete /\ ForThisCommand /\ ~ChecksumAgrees))
          /\ (Reject <=> Complete) /\ readPos < recvPos
      BY <1>5, <1>0 DEF WaitForMore, Reject, Searching
    <3>2. Length(p) \in 3 .. MaxLen
      BY <2>2 DEF AnswerAt
    <3>3. p # readPos
      <4> SUFFICES ASSUME p = readPos PROVE FALSE
        OBVIOUS
      <4>1. AnswerAt(readPos) /\ readPos + Length(readPos) + 2 <= recvPos
            /\ Length(readPos) \in 3 .. MaxLen
        BY <2>2, <3>2
      <4>3. readPos + 3 <= recvPos
        BY <4>1, <1>0
      <4>4. framelen = Length(readPos) /\ (Complete => ForThisCommand /\ ChecksumAgrees)
        BY <4>1, <4>3, <1>0, AnswerStops
      <4>5. Complete
        BY <4>1, <4>4, <1>0 DEF Complete
      <4> QED
        BY <4>4, <4>5, <3>1
    <3>4. readPos < p /\ readPos + 5 <= recvPos
      BY <2>2, <3>2, <3>3, <1>0
    <3>5. CASE Reject
      BY <3>1, <3>4, <3>5, <1>0, RejectedIsDamaged
    <3>6. CASE ~Reject
      <4>1. framelen = Length(readPos) /\ framelen \in Nat /\ S(readPos) = FRAME_HEAD1_FLAG
            /\ Length(readPos) <= MaxLen
        BY <3>1, <3>4, <1>0, CandidateSeen
      <4>2. ~(framelen + 2 <= recvPos - readPos)
        BY <3>1, <3>6 DEF Complete
      <4>3. readPos + Length(readPos) + 2 > recvPos
        BY <4>1, <4>2, <1>0
      <4> QED
        BY <4>1, <4>3, <3>4, <3>6 DEF Unfinished
    <3> QED
      BY <3>5, <3>6
  <2>3. \A p : (AnswerAt(p)' <=> AnswerAt(p))
    BY <2>1, AnswerSame
  <2>4. \A p : Length(p)' = Length(p)
    BY <2>1 DEF Length, S
  <2>5. (Unfinished(readPos)' <=> Unfinished(readPos)) /\ (Damaged(readPos)' <=> Damaged(readPos))
    BY <2>1 DEF Unfinished, Damaged, Length, S
  <2>6. (Reject => at' = "idle" /\ result' = "INVALID") /\ (~Reject => at' = "waiting")
    BY <1>5 DEF WaitForMore, Reject, Return
  <2> QED
    BY <2>1, <2>2, <2>3, <2>4, <2>5, <2>6 DEF NoAnswerLeftBehind
<1> QED
  BY <1>1, <1>2, <1>3, <1>4, <1>5 DEF Next

-----------------------------------------------------------------------------
(* The theorems.                                                           *)

IInv ==
  TypeOK /\ ClockTells /\ RInv /\ AcceptsOnlyAnswers /\ AnswersAreSeen /\ NoAnswerLeftBehind

(* The invariant holds in every state. *)
LEMMA Invariance == Spec => []IInv
<1>1. Init => IInv
  <2> SUFFICES ASSUME Init PROVE IInv
    OBVIOUS
  <2>1. TypeOK /\ ClockTells /\ RInv
    BY InitInv DEF RInv
  <2>2. AcceptsOnlyAnswers
    BY DEF Init, AcceptsOnlyAnswers, Answered
  <2>3. AnswersAreSeen
    <3>1. Len(stream) = 0 /\ \A p \in 0 .. 0 - 1 : FALSE
      BY DEF Init
    <3> QED
      BY <3>1 DEF AnswersAreSeen
  <2>4. NoAnswerLeftBehind
    BY DEF Init, NoAnswerLeftBehind
  <2> QED
    BY <2>1, <2>2, <2>3, <2>4 DEF IInv
<1>2. IInv /\ [Next]_vars => IInv'
  BY TypeStep, RingStep, AcceptStep, SeenStep, BehindStep DEF IInv, RInv
<1> QED
  BY <1>1, <1>2, PTL DEF Spec

(* Every variable keeps its type: as long as no piece is longer than there *)
(* is room for (RoomAssumption; StoredInside has the limit), nothing is    *)
(* written beside the ring, an answer fits what its caller waits for, and  *)
(* getDeviceInfo() copies nothing, or 256 bytes or a multiple of them.     *)
THEOREM TypeCorrect == Spec => []TypeOK
BY Invariance, PTL DEF IInv

(* The frame of every command is the one the device expects: its length    *)
(* and payload are the command's, and its checksum is the sum of its other *)
(* bytes, whatever commBuf's eight bytes behind it add.                    *)
THEOREM CommandsAreFrames == Spec => []CommandIsFrame
<1>1. IInv => CommandIsFrame
  BY FrameIsRight DEF IInv, TypeOK
<1> QED
  BY <1>1, Invariance, PTL

(* The ring holds every byte that the search has not done with, for every  *)
(* size of the ring, as long as a piece and a frame fit in it together.    *)
THEOREM RingIsKept == Spec => []RingHolds
<1>1. IInv => RingHolds
  BY DEF IInv, RInv
<1> QED
  BY <1>1, Invariance, PTL

(* Whatever the stack held, a call that reports an answer has received one *)
(* to its command.                                                         *)
THEOREM AnswersAreReal == Spec => []AcceptsOnlyAnswers
<1>1. IInv => AcceptsOnlyAnswers
  BY DEF IInv
<1> QED
  BY <1>1, Invariance, PTL

(* An answer is passed over only when a piece ended within its first three *)
(* bytes.                                                                  *)
THEOREM AnswersAreNotMissed == Spec => []AnswersAreSeen
<1>1. IInv => AnswersAreSeen
  BY DEF IInv
<1> QED
  BY <1>1, Invariance, PTL

(* When a call waits, or returns without an answer, and an answer lies in  *)
(* the ring, then behind a frame that is not complete, or behind a damaged *)
(* one at which the call gave up.                                          *)
THEOREM AnswersAreTaken == Spec => []NoAnswerLeftBehind
<1>1. IInv => NoAnswerLeftBehind
  BY DEF IInv
<1> QED
  BY <1>1, Invariance, PTL

(* No call takes longer than its timeout, the delay of one wait, and what  *)
(* its last wait held on to a part of the bytes, also when getms() comes   *)
(* round.                                                                  *)
THEOREM ResponsesInTime == Spec => []ResponseInTime
<1>1. IInv => ResponseInTime
  BY DEF IInv, ClockTells, ResponseInTime
<1> QED
  BY <1>1, Invariance, PTL
=============================================================================
