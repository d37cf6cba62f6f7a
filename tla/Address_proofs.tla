--------------------------- MODULE Address_proofs ---------------------------
(***************************************************************************)
(* Theorems about Address, for any endpoints, any number of values of a    *)
(* byte, any sizes of addresses and anything the system may find.          *)
(***************************************************************************)
EXTENDS Address, SequenceTheorems, WellFoundedInduction, TLAPS

-----------------------------------------------------------------------------
(* Recursion and division                                                  *)

\* A set of numbers that is not empty has a least one.
LEMMA Least ==
  ASSUME NEW T, T \subseteq Nat, T # {}
  PROVE  \E x \in T : \A y \in T : x <= y
<1> DEFINE R == {ss \in Nat \X Nat : ss[1] < ss[2]}
<1>1. R = OpToRel(<, Nat)
  BY Zenon DEF OpToRel
<1>2. IsWellFoundedOn(R, Nat)
  BY <1>1, NatLessThanWellFounded
<1> HIDE DEF R
<1>3. PICK x \in T : \A y \in T : ~(<<y, x>> \in R)
  BY <1>2, WFMin, Zenon
<1>4. ASSUME NEW y \in T PROVE x <= y
  <2>1. x \in Nat /\ y \in Nat
    OBVIOUS
  <2>2. y < x => <<y, x>> \in R
    BY <2>1 DEF R
  <2> QED BY <1>3, <2>1, <2>2
<1> QED BY <1>4

\* Values of T, from the first on, each made from the one before.
Made(T, n, first, next, f) ==
  f \in [0..n -> T] /\ f[0] = first /\ \A i \in 1..n : f[i] = next[<<i, f[i - 1]>>]

LEMMA Makes ==
  ASSUME NEW T, NEW n \in Nat, NEW first \in T, NEW next \in [(1..n) \X T -> T]
  PROVE  \E f : Made(T, n, first, next, f)
<1> DEFINE M(k, f) == f \in [0..k -> T] /\ f[0] = first /\ \A i \in 1..k : f[i] = next[<<i, f[i - 1]>>]
           D == {k \in 0..n : ~\E f : M(k, f)}
<1>1. SUFFICES ASSUME D # {} PROVE FALSE
  <2>1. n \in 0..n /\ \A f : M(n, f) <=> Made(T, n, first, next, f)
    BY DEF Made
  <2> HIDE DEF M
  <2> QED BY <2>1
<1>2. PICK k \in D : \A j \in D : k <= j
  <2>1. D \subseteq Nat
    OBVIOUS
  <2> HIDE DEF D
  <2> QED BY <1>1, <2>1, Least
<1>3. CASE k = 0
  <2> DEFINE f == [j \in 0..k |-> first]
  <2>1. M(k, f)
    BY <1>3
  <2> HIDE DEF f, M
  <2> QED BY <1>2, <2>1
<1>4. CASE k # 0
  <2>1. k - 1 \in 0..n /\ ~(k <= k - 1) /\ k \in 1..n
    BY <1>2, <1>4
  <2>2. PICK f : M(k - 1, f)
    BY <1>2, <2>1
  <2> DEFINE g == [j \in 0..k |-> IF j = k THEN next[<<k, f[k - 1]>>] ELSE f[j]]
  <2>3. \A j \in 0..k : j = k \/ j \in 0..(k - 1)
    BY <2>1
  <2>4. f[k - 1] \in T /\ <<k, f[k - 1]>> \in (1..n) \X T
    BY <2>1, <2>2
  <2>5. g \in [0..k -> T]
    BY <2>2, <2>3, <2>4
  <2>6. g[0] = first
    BY <1>4, <2>1, <2>2
  <2>7. ASSUME NEW i \in 1..k PROVE g[i] = next[<<i, g[i - 1]>>]
    <3>1. i - 1 \in 0..k /\ i - 1 # k /\ i \in 0..k
      BY <2>1
    <3>2. g[i - 1] = f[i - 1]
      BY <3>1
    <3>3. CASE i = k
      BY <3>1, <3>2, <3>3
    <3>4. CASE i # k
      <4>1. i \in 1..(k - 1)
        BY <2>1, <3>4
      <4> QED BY <2>2, <3>1, <3>2, <3>4, <4>1
    <3> QED BY <3>3, <3>4
  <2>8. M(k, g)
    BY <2>5, <2>6, <2>7
  <2> HIDE DEF g, M
  <2> QED BY <1>2, <2>8
<1> QED BY <1>3, <1>4

\* Products.
LEMMA Times ==
  ASSUME NEW a \in Nat, NEW b \in Nat, NEW p \in Nat
  PROVE  a * p \in Nat /\ (a <= b => a * p <= b * p) /\ (a + 1) * p = a * p + p /\ a * p = p * a
OBVIOUS

LEMMA Division ==
  ASSUME NEW n \in Nat, NEW p \in Nat \ {0}
  PROVE  /\ n \div p \in Nat /\ n % p \in 0..(p - 1)
         /\ n = (n \div p) * p + (n % p)
OBVIOUS

\* Two numbers in the order of their quotients and remainders.
LEMMA Digits ==
  ASSUME NEW p \in Nat \ {0}, NEW a \in Nat, NEW b \in Nat, NEW r \in 0..(p - 1), NEW s \in 0..(p - 1)
  PROVE  /\ a * p + r \in Nat
         /\ a * p + r < b * p + s <=> a < b \/ (a = b /\ r < s)
         /\ a * p + r = b * p + s <=> a = b /\ r = s
<1>1. a * p \in Nat /\ b * p \in Nat /\ (a + 1) * p = a * p + p /\ (b + 1) * p = b * p + p
  BY Times
<1>2. a + 1 \in Nat /\ b + 1 \in Nat
  OBVIOUS
<1>3. a < b => (a + 1) * p <= b * p
  BY <1>2, Times
<1>4. b < a => (b + 1) * p <= a * p
  BY <1>2, Times
<1>5. a = b => a * p = b * p
  OBVIOUS
<1>6. PICK x \in Nat, y \in Nat : x = a * p /\ y = b * p
  BY <1>1
<1>7. /\ a < b => x + p <= y
      /\ b < a => y + p <= x
      /\ a = b => x = y
  BY <1>1, <1>3, <1>4, <1>5, <1>6
<1>8. /\ x + r \in Nat
      /\ x + r < y + s <=> a < b \/ (a = b /\ r < s)
      /\ x + r = y + s <=> a = b /\ r = s
  BY <1>7
<1> QED BY <1>6, <1>8

LEMMA Quotient ==
  ASSUME NEW p \in Nat \ {0}, NEW a \in Nat, NEW r \in 0..(p - 1)
  PROVE  (a * p + r) \div p = a /\ (a * p + r) % p = r
<1>1. PICK n \in Nat : n = a * p + r
  BY Times
<1>2. PICK b \in Nat, s \in 0..(p - 1) : b = n \div p /\ s = n % p /\ n = b * p + s
  BY Division
<1>3. a * p + r = b * p + s
  BY <1>1, <1>2, Zenon
<1>4. a = b /\ r = s
  BY <1>3, Digits
<1> QED BY <1>1, <1>2, <1>4, Zenon

\* Induction up to a number.
LEMMA Induct ==
  ASSUME NEW n \in Nat, NEW D, 0 \in D, \A i \in 1..n : i - 1 \in D => i \in D
  PROVE  \A i \in 0..n : i \in D
<1> DEFINE E == {i \in 0..n : i \notin D}
<1>1. SUFFICES ASSUME E # {} PROVE FALSE
  OBVIOUS
<1>2. PICK k \in E : \A j \in E : k <= j
  <2>1. E \subseteq Nat
    OBVIOUS
  <2> HIDE DEF E
  <2> QED BY <1>1, <2>1, Least
<1>3. k \in 1..n /\ k - 1 \in 0..n /\ ~(k <= k - 1)
  BY <1>2
<1> QED BY <1>2, <1>3

-----------------------------------------------------------------------------
(* Numbers and bytes                                                       *)

LEMMA Sizes ==
  /\ Byte \in Nat \ {0} /\ Len4 \in Nat \ {0} /\ Len6 \in Nat /\ Len4 <= Len6
BY AddressAssumption

LEMMA Powers ==
  /\ Power[0] = 1
  /\ \A k \in 1..Len4 : Power[k] = Power[k - 1] * Byte
  /\ \A k \in 0..Len4 : Power[k] \in Nat \ {0}
<1> DEFINE T == Nat \ {0}
           next == [ix \in (1..Len4) \X T |-> ix[2] * Byte]
<1>1. next \in [(1..Len4) \X T -> T]
  <2>1. \A x \in T : x * Byte \in T
    BY Sizes
  <2> QED BY <2>1
<1>2. 1 \in T /\ Len4 \in Nat
  BY Sizes
<1> HIDE DEF next
<1>3. PICK f : Made(T, Len4, 1, next, f)
  <2> HIDE DEF T
  <2> QED BY <1>1, <1>2, Makes
<1>4. \A i \in 1..Len4 : f[i] = f[i - 1] * Byte
  <2>1. \A i \in 1..Len4 : i - 1 \in 0..Len4
    BY Sizes
  <2> QED BY <1>3, <2>1 DEF Made, next
<1>5. f = [k \in 0..Len4 |-> IF k = 0 THEN 1 ELSE f[k - 1] * Byte]
  <2>1. \A k \in 0..Len4 : k = 0 \/ k \in 1..Len4
    BY Sizes
  <2> QED BY <1>3, <1>4, <2>1 DEF Made
<1>6. Power = [k \in 0..Len4 |-> IF k = 0 THEN 1 ELSE Power[k - 1] * Byte]
  BY <1>5 DEF Power
<1>7. Power[0] = 1 /\ \A k \in 1..Len4 : Power[k] = Power[k - 1] * Byte
  BY <1>2, <1>6
<1> DEFINE D == {k \in 0..Len4 : Power[k] \in T}
<1>8. \A k \in 0..Len4 : k \in D
  <2>1. 0 \in D
    BY <1>2, <1>7
  <2>2. ASSUME NEW k \in 1..Len4, k - 1 \in D PROVE k \in D
    <3>1. Power[k - 1] * Byte \in T
      BY <2>2, Sizes
    <3> QED BY <1>2, <1>7, <3>1
  <2> HIDE DEF D
  <2> QED BY <1>2, <2>1, <2>2, Induct
<1> QED BY <1>7, <1>8

LEMMA BytesAreSeq ==
  ASSUME NEW n \in Nat, NEW d \in Bytes(n)
  PROVE  d \in Seq(0..(Byte - 1)) /\ Len(d) = n
<1> DEFINE S == 0..(Byte - 1)
<1>1. d \in [1..n -> S] /\ DOMAIN d = 1..n
  BY DEF Bytes
<1> HIDE DEF S
<1>2. d \in Seq(S)
  BY <1>1, SeqDef
<1>3. Len(d) \in Nat /\ DOMAIN d = 1..Len(d)
  BY <1>2, LenProperties
<1>4. Len(d) = n
  BY <1>1, <1>3
<1> QED BY <1>2, <1>4 DEF S

\* The numbers of the first bytes.
Value(d, n, v) ==
  v \in [0..n -> Nat] /\ v[0] = 0 /\ \A i \in 1..n : v[i] = v[i - 1] * Byte + d[i]

LEMMA Valued ==
  ASSUME NEW n \in {Len4, Len6}, NEW d \in Bytes(n)
  PROVE  \E v : Value(d, n, v) /\ ToNumber[d] = v[n]
<1>1. n \in Nat /\ d \in Bytes(Len4) \cup Bytes(Len6)
  BY Sizes
<1>2. Len(d) = n /\ \A i \in 1..n : d[i] \in 0..(Byte - 1)
  BY <1>1, BytesAreSeq DEF Bytes
<1> DEFINE Up(v) == v = [i \in 0..n |-> IF i = 0 THEN 0 ELSE v[i - 1] * Byte + d[i]]
           next == [ix \in (1..n) \X Nat |-> ix[2] * Byte + d[ix[1]]]
<1>s. \A i \in 1..n, x \in Nat : x * Byte + d[i] \in Nat
  <2>1. \A x \in Nat, b \in 0..(Byte - 1) : x * Byte + b \in Nat
    BY Sizes
  <2> QED BY <1>2, <2>1
<1>3. next \in [(1..n) \X Nat -> Nat]
  BY <1>s
<1> HIDE DEF next
<1>4. PICK f : Made(Nat, n, 0, next, f)
  BY <1>1, <1>3, Makes
<1>5. \A i \in 1..n : f[i] = f[i - 1] * Byte + d[i]
  <2>1. \A i \in 1..n : i - 1 \in 0..n
    BY <1>1
  <2> QED BY <1>4, <2>1 DEF Made, next
<1>6. Up(f)
  <2>1. \A k \in 0..n : k = 0 \/ k \in 1..n
    BY <1>1
  <2> QED BY <1>4, <1>5, <2>1 DEF Made
<1> DEFINE v == CHOOSE v : Up(v)
<1>7. Up(v)
  <2> HIDE DEF Up
  <2> QED BY <1>6
<1>8. ToNumber[d] = v[n]
  BY <1>1, <1>2 DEF ToNumber
<1> HIDE DEF v
<1>9. v[0] = 0 /\ \A i \in 1..n : v[i] = v[i - 1] * Byte + d[i]
  BY <1>1, <1>7
<1> DEFINE D == {k \in 0..n : v[k] \in Nat}
<1>10. \A k \in 0..n : k \in D
  <2>1. 0 \in D
    BY <1>1, <1>9
  <2>2. ASSUME NEW k \in 1..n, k - 1 \in D PROVE k \in D
    <3>1. v[k - 1] * Byte + d[k] \in Nat
      BY <1>s, <2>2
    <3> QED BY <1>1, <1>9, <3>1
  <2> HIDE DEF D
  <2> QED BY <1>1, <2>1, <2>2, Induct
<1> QED BY <1>7, <1>8, <1>9, <1>10 DEF Value

\* The bytes of a number, and the number of bytes.
LEMMA OfNumber ==
  ASSUME NEW n \in Numbers
  PROVE  FromNumber[n] \in Bytes(Len4) /\ ToNumber[FromNumber[n]] = n
<1> DEFINE d == FromNumber[n]
<1>1. n \in Nat /\ n < Power[Len4]
  BY Powers, Sizes DEF Numbers
<1>2. /\ d \in Bytes(Len4)
      /\ \A i \in 1..Len4 : Len4 - i \in 0..Len4 /\ d[i] = (n \div Power[Len4 - i]) % Byte
  <2>1. ASSUME NEW i \in 1..Len4 PROVE Len4 - i \in 0..Len4 /\ (n \div Power[Len4 - i]) % Byte \in 0..(Byte - 1)
    <3>1. Len4 - i \in 0..Len4
      BY Sizes
    <3>2. n \div Power[Len4 - i] \in Nat
      BY <1>1, <3>1, Powers, Division
    <3> QED BY <3>1, <3>2, Sizes, Division
  <2> QED BY <2>1 DEF FromNumber, Bytes
<1> HIDE DEF d
<1>3. PICK v : Value(d, Len4, v) /\ ToNumber[d] = v[Len4]
  BY <1>2, Valued
<1> DEFINE D == {i \in 0..Len4 : v[i] = n \div Power[Len4 - i]}
<1>4. \A i \in 0..Len4 : i \in D
  <2>1. 0 \in D
    <3>1. PICK p \in Nat \ {0} : p = Power[Len4]
      BY Powers, Sizes
    <3>2. (0 * p + n) \div p = 0
      BY <1>1, <3>1, Quotient
    <3>3. 0 * p + n = n /\ Len4 - 0 = Len4 /\ 0 \in 0..Len4
      BY <1>1, Sizes
    <3>4. v[0] = 0
      BY <1>3 DEF Value
    <3> QED BY <3>1, <3>2, <3>3, <3>4
  <2>2. ASSUME NEW i \in 1..Len4, i - 1 \in D PROVE i \in D
    <3>1. PICK k \in 0..Len4 : k = Len4 - i /\ k + 1 \in 1..Len4 /\ Len4 - (i - 1) = k + 1 /\ (k + 1) - 1 = k /\ i \in 0..Len4
      BY Sizes
    <3>2. PICK p \in Nat \ {0} : p = Power[k] /\ Power[k + 1] = p * Byte
      BY <3>1, Powers
    <3>3. PICK x \in Nat : x = n \div p
      BY <1>1, Division
    <3>4. x = (x \div Byte) * Byte + (x % Byte)
      BY Sizes, Division
    <3>8. n \div (p * Byte) = (n \div p) \div Byte
      <4>1. n \in Nat /\ Byte \in Nat \ {0}
        BY <1>1, Sizes
      <4> QED BY ONLY <4>1, p \in Nat \ {0}
    <3>5. v[i - 1] = x \div Byte
      BY <2>2, <3>1, <3>2, <3>3, <3>8, Zenon
    <3>6. d[i] = x % Byte
      BY <1>2, <3>1, <3>2, <3>3
    <3>7. v[i] = x
      BY <1>3, <3>4, <3>5, <3>6, Zenon DEF Value
    <3> QED BY <3>1, <3>2, <3>3, <3>7
  <2> HIDE DEF D
  <2> QED BY <2>1, <2>2, Sizes, Induct
<1>5. v[Len4] = n \div 1
  <2>1. Len4 \in 0..Len4 /\ Len4 - Len4 = 0
    BY Sizes
  <2> QED BY <1>4, <2>1, Powers
<1>6. n \div 1 = n
  BY <1>1
<1> QED BY <1>2, <1>3, <1>5, <1>6 DEF d

\* And back.
LEMMA OfBytes ==
  ASSUME NEW d \in Bytes(Len4)
  PROVE  ToNumber[d] \in Numbers /\ FromNumber[ToNumber[d]] = d
<1>1. PICK v : Value(d, Len4, v) /\ ToNumber[d] = v[Len4]
  BY Valued
<1>2. PICK n \in Nat : n = v[Len4]
  BY <1>1, Sizes DEF Value
<1> DEFINE D == {i \in 0..Len4 : v[i] < Power[i]}
<1>3. \A i \in 0..Len4 : i \in D
  <2>1. 0 \in D
    BY <1>1, Powers, Sizes DEF Value
  <2>2. ASSUME NEW i \in 1..Len4, i - 1 \in D PROVE i \in D
    <3>1. i \in 0..Len4 /\ i - 1 \in 0..Len4 /\ 0 \in 0..(Byte - 1)
      BY Sizes
    <3>2. PICK x \in Nat, p \in Nat, r \in 0..(Byte - 1) : x = v[i - 1] /\ p = Power[i - 1] /\ r = d[i]
      BY <1>1, <3>1, Powers DEF Value, Bytes
    <3>3. x < p
      BY <2>2, <3>2
    <3>4. x * Byte + r < p * Byte + 0
      BY <3>1, <3>3, Sizes, Digits
    <3>5. p * Byte + 0 = p * Byte
      BY Sizes
    <3>6. v[i] = x * Byte + r /\ Power[i] = p * Byte
      BY <1>1, <3>2, Powers DEF Value
    <3> QED BY <3>1, <3>4, <3>5, <3>6
  <2> HIDE DEF D
  <2> QED BY <2>1, <2>2, Sizes, Induct
<1>4. n \in Numbers
  <2>1. Len4 \in 0..Len4
    BY Sizes
  <2>2. PICK p \in Nat : p = Power[Len4]
    BY <2>1, Powers
  <2>3. n < p
    BY <1>2, <1>3, <2>1, <2>2
  <2> QED BY <2>2, <2>3 DEF Numbers
<1> DEFINE E == {j \in 0..Len4 : n \div Power[j] = v[Len4 - j]}
<1>5. \A j \in 0..Len4 : j \in E
  <2>1. 0 \in E
    <3>1. n \div 1 = n /\ Len4 - 0 = Len4 /\ 0 \in 0..Len4
      BY Sizes
    <3> QED BY <1>2, <3>1, Powers
  <2>2. ASSUME NEW j \in 1..Len4, j - 1 \in E PROVE j \in E
    <3>1. PICK i \in 1..Len4 : i = Len4 - (j - 1) /\ i - 1 = Len4 - j /\ i - 1 \in 0..Len4 /\ j \in 0..Len4 /\ j - 1 \in 0..Len4
      <4>1. Len4 - (j - 1) \in 1..Len4 /\ (Len4 - (j - 1)) - 1 = Len4 - j /\ Len4 - j \in 0..Len4
        BY Sizes
      <4>2. j \in 0..Len4 /\ j - 1 \in 0..Len4
        BY Sizes
      <4> QED BY <4>1, <4>2
    <3>2. PICK p \in Nat \ {0} : p = Power[j - 1] /\ Power[j] = p * Byte
      BY <3>1, Powers
    <3>3. PICK x \in Nat, r \in 0..(Byte - 1) : x = v[i - 1] /\ r = d[i] /\ v[i] = x * Byte + r
      BY <1>1, <3>1 DEF Value, Bytes
    <3>4. n \div p = v[i]
      BY <2>2, <3>1, <3>2
    <3>5. n \div (p * Byte) = (n \div p) \div Byte
      <4>1. n \in Nat /\ Byte \in Nat \ {0}
        BY Sizes
      <4> QED BY ONLY <4>1, p \in Nat \ {0}
    <3>6. (x * Byte + r) \div Byte = x
      BY Sizes, Quotient
    <3>7. n \div Power[j] = v[Len4 - j]
      BY <3>1, <3>2, <3>3, <3>4, <3>5, <3>6, Zenon
    <3> QED BY <3>1, <3>7
  <2> HIDE DEF E
  <2> QED BY <2>1, <2>2, Sizes, Induct
<1>6. ASSUME NEW i \in 1..Len4 PROVE (n \div Power[Len4 - i]) % Byte = d[i]
  <2>1. PICK j \in 0..Len4 : j = Len4 - i /\ i = Len4 - j
    <3>1. Len4 - i \in 0..Len4 /\ Len4 - (Len4 - i) = i
      BY Sizes
    <3> QED BY <3>1
  <2>2. n \div Power[Len4 - i] = v[i]
    BY <1>5, <2>1
  <2>3. PICK x \in Nat, r \in 0..(Byte - 1) : r = d[i] /\ v[i] = x * Byte + r
    <3>1. i - 1 \in 0..Len4
      BY Sizes
    <3> QED BY <1>1, <3>1 DEF Value, Bytes
  <2>4. (x * Byte + r) % Byte = r
    BY Sizes, Quotient
  <2> QED BY <2>2, <2>3, <2>4, Zenon
<1>7. FromNumber[n] = d
  BY <1>4, <1>6 DEF FromNumber, Bytes
<1> QED BY <1>1, <1>2, <1>4, <1>7

\* The bytes of addresses and their numbers have the same order.
LEMMA Ordered ==
  ASSUME NEW n \in {Len4, Len6}, NEW a \in Bytes(n), NEW b \in Bytes(n)
  PROVE  /\ ToNumber[a] \in Nat /\ ToNumber[b] \in Nat
         /\ Precedes(a, b) <=> ToNumber[a] < ToNumber[b]
         /\ a = b <=> ToNumber[a] = ToNumber[b]
<1>1. n \in Nat /\ Len(a) = n
  BY Sizes, BytesAreSeq
<1>2. PICK v : Value(a, n, v) /\ ToNumber[a] = v[n]
  BY Valued
<1>3. PICK w : Value(b, n, w) /\ ToNumber[b] = w[n]
  BY Valued
<1> DEFINE Before(i) == \E j \in 1..i : a[j] < b[j] /\ \A k \in 1..(j - 1) : a[k] = b[k]
           Same(i) == \A j \in 1..i : a[j] = b[j]
           D == {i \in 0..n : (Before(i) <=> v[i] < w[i]) /\ (Same(i) <=> v[i] = w[i])}
<1>4. \A i \in 0..n : i \in D
  <2>1. 0 \in D
    <3>1. v[0] = 0 /\ w[0] = 0 /\ 0 \in 0..n
      BY <1>1, <1>2, <1>3 DEF Value
    <3> QED BY <3>1
  <2>2. ASSUME NEW i \in 1..n, i - 1 \in D PROVE i \in D
    <3>1. i \in 0..n /\ i - 1 \in 0..n /\ \A j \in 1..i : j = i \/ j \in 1..(i - 1)
      BY <1>1
    <3>2. \A j \in 1..(i - 1) : j \in 1..i
      BY <1>1
    <3>3. PICK x \in Nat, y \in Nat, r \in 0..(Byte - 1), s \in 0..(Byte - 1) :
            x = v[i - 1] /\ y = w[i - 1] /\ r = a[i] /\ s = b[i]
      BY <1>2, <1>3, <3>1 DEF Value, Bytes
    <3>4. v[i] = x * Byte + r /\ w[i] = y * Byte + s
      BY <1>2, <1>3, <3>3 DEF Value
    <3>5. /\ x * Byte + r < y * Byte + s <=> x < y \/ (x = y /\ r < s)
          /\ x * Byte + r = y * Byte + s <=> x = y /\ r = s
      BY Sizes, Digits
    <3>6. (Before(i - 1) <=> x < y) /\ (Same(i - 1) <=> x = y)
      BY <2>2, <3>3
    <3>7. Same(i) <=> Same(i - 1) /\ r = s
      BY <3>1, <3>2, <3>3
    <3>8. Before(i) <=> Before(i - 1) \/ (Same(i - 1) /\ r < s)
      BY <3>1, <3>2, <3>3
    <3> HIDE DEF Before, Same
    <3> QED BY <3>1, <3>4, <3>5, <3>6, <3>7, <3>8
  <2> HIDE DEF D
  <2> QED BY <1>1, <2>1, <2>2, Induct
<1>5. n \in D
  BY <1>1, <1>4
<1>6. Same(n) <=> a = b
  <2>1. a = [i \in 1..n |-> a[i]] /\ b = [i \in 1..n |-> b[i]]
    BY DEF Bytes
  <2> QED BY <2>1
<1>7. Precedes(a, b) <=> Before(n)
  BY <1>1 DEF Precedes
<1>8. v[n] \in Nat /\ w[n] \in Nat
  BY <1>1, <1>2, <1>3 DEF Value
<1> HIDE DEF Before, Same
<1> QED BY <1>2, <1>3, <1>5, <1>6, <1>7, <1>8

LEMMA Reversed ==
  ASSUME NEW n \in Nat, NEW d \in Bytes(n)
  PROVE  Reverse(d) \in Bytes(n) /\ Reverse(Reverse(d)) = d
<1>1. Len(d) = n
  BY BytesAreSeq
<1>2. \A i \in 1..n : (n - i) + 1 \in 1..n /\ (n - ((n - i) + 1)) + 1 = i
  OBVIOUS
<1>3. PICK r \in Bytes(n) : r = Reverse(d) /\ \A i \in 1..n : r[i] = d[(n - i) + 1]
  <2>1. Reverse(d) = [i \in 1..n |-> d[(n - i) + 1]]
    BY <1>1 DEF Reverse
  <2>2. \A i \in 1..n : d[(n - i) + 1] \in 0..(Byte - 1)
    BY <1>2 DEF Bytes
  <2> QED BY <2>1, <2>2 DEF Bytes
<1>4. Len(r) = n
  BY BytesAreSeq
<1>5. PICK t \in Bytes(n) : t = Reverse(r) /\ \A i \in 1..n : t[i] = r[(n - i) + 1]
  <2>1. Reverse(r) = [i \in 1..n |-> r[(n - i) + 1]]
    BY <1>4 DEF Reverse
  <2>2. \A i \in 1..n : r[(n - i) + 1] \in 0..(Byte - 1)
    BY <1>2 DEF Bytes
  <2> QED BY <2>1, <2>2 DEF Bytes
<1>6. \A i \in 1..n : t[i] = d[i]
  BY <1>2, <1>3, <1>5
<1>7. t = d
  BY <1>6 DEF Bytes
<1> QED BY <1>3, <1>5, <1>7

\* A number in memory and in the order of the network.
LEMMA Stored ==
  ASSUME NEW n \in Numbers
  PROVE  /\ Store(n) \in Bytes(Len4) /\ FromNumber[n] \in Bytes(Len4) /\ Load(Store(n)) = n
         /\ Convert[n] \in Numbers /\ Convert[Convert[n]] = n
         /\ Store(Convert[n]) = FromNumber[n] /\ ToNumber[Store(Convert[n])] = n
         /\ Load(FromNumber[n]) \in Numbers /\ Convert[Load(FromNumber[n])] = n
<1> DEFINE f == FromNumber[n]
           r == Reverse(f)
<1>1. f \in Bytes(Len4) /\ ToNumber[f] = n
  BY OfNumber
<1>2. r \in Bytes(Len4) /\ Reverse(r) = f
  BY <1>1, Reversed, Sizes
<1>3. ToNumber[r] \in Numbers /\ FromNumber[ToNumber[r]] = r
  BY <1>2, OfBytes
<1>4. Store(n) = r
  BY DEF Store
<1>5. Convert[n] = ToNumber[r]
  BY <1>2, <1>4 DEF Convert, Load
<1>6. Store(Convert[n]) = f
  BY <1>2, <1>3, <1>5 DEF Store
<1>7. Convert[Convert[n]] = n
  <2>1. Convert[ToNumber[r]] = Load(Reverse(Store(ToNumber[r])))
    BY <1>3 DEF Convert
  <2> QED BY <1>1, <1>2, <1>5, <1>6, <2>1 DEF Load
<1>8. Load(f) = ToNumber[r] /\ Load(r) = n
  BY <1>1, <1>2 DEF Load
<1> QED BY <1>1, <1>2, <1>3, <1>4, <1>5, <1>6, <1>7, <1>8

LEMMA Loaded ==
  ASSUME NEW d \in Bytes(Len4)
  PROVE  /\ ToNumber[d] \in Numbers /\ Store(Convert[ToNumber[d]]) = d
         /\ Load(d) \in Numbers /\ FromNumber[Convert[Load(d)]] = d
<1>1. ToNumber[d] \in Numbers /\ FromNumber[ToNumber[d]] = d
  BY OfBytes
<1>2. Store(Convert[ToNumber[d]]) = d
  BY <1>1, Stored
<1>3. Load(d) \in Numbers /\ Convert[Load(d)] = ToNumber[d]
  BY <1>1, Stored
<1> QED BY <1>1, <1>2, <1>3

LEMMA Zero == 0 \in Numbers
<1>1. Len4 \in 0..Len4
  BY Sizes
<1>2. PICK p \in Nat \ {0} : p = Power[Len4]
  BY <1>1, Powers
<1> QED BY <1>2 DEF Numbers

\* Zero reads alike in both orders.
LEMMA ZeroReads == Convert[0] = 0
<1> DEFINE f == FromNumber[0]
           r == Reverse(f)
<1>1. f \in Bytes(Len4) /\ Load(r) = 0
  BY Zero, Stored DEF Store
<1>2. \A i \in 1..Len4 : f[i] = 0
  <2> TAKE i \in 1..Len4
  <2>1. Len4 - i \in 0..Len4
    BY Sizes
  <2>2. PICK p \in Nat \ {0} : p = Power[Len4 - i]
    BY <2>1, Powers
  <2>3. f[i] = (0 \div p) % Byte
    BY <2>2, Zero DEF FromNumber
  <2>4. 0 \div p = 0
    BY <2>2
  <2>5. 0 % Byte = 0
    BY AddressAssumption
  <2> QED BY <2>3, <2>4, <2>5
<1>3. r = f
  <2>1. Len(f) = Len4 /\ f \in Seq(0..(Byte - 1)) /\ Len4 \in Nat
    BY <1>1, BytesAreSeq, Sizes
  <2>2. r = [i \in 1..Len4 |-> f[Len4 - i + 1]]
    BY <2>1 DEF Reverse
  <2>3. f = [i \in 1..Len4 |-> f[i]]
    BY <1>1 DEF Bytes
  <2>4. \A i \in 1..Len4 : f[Len4 - i + 1] = 0
    BY <1>2, <2>1
  <2> HIDE DEF f, r
  <2> QED BY <1>2, <2>2, <2>3, <2>4
<1>4. Convert[0] = Load(Reverse(r))
  BY Zero DEF Convert, Store
<1> QED BY <1>1, <1>3, <1>4

-----------------------------------------------------------------------------
(* The lists of the resolver                                               *)

LEMMA IPsType ==
  ASSUME NEW list \in Seq(Meanings \cup {Nothing}) PROVE IPs(list) \in Seq(Meanings)
<1> DEFINE T == Seq(Meanings)
           n == Len(list)
           Up(f) == f = [i \in 0..n |-> IF i = 0 THEN <<>> ELSE IF list[i] = Nothing THEN f[i - 1] ELSE Append(f[i - 1], list[i])]
           next == [ix \in (1..n) \X T |-> IF list[ix[1]] = Nothing THEN ix[2] ELSE Append(ix[2], list[ix[1]])]
<1>1. n \in Nat /\ \A i \in 1..n : list[i] \in Meanings \cup {Nothing}
  BY LenProperties
<1>2. \A i \in 1..n, s \in T : (IF list[i] = Nothing THEN s ELSE Append(s, list[i])) \in T
  BY <1>1
<1>3. next \in [(1..n) \X T -> T] /\ <<>> \in T
  BY <1>2, EmptySeq
<1> HIDE DEF n, next, T
<1>4. PICK f : Made(T, n, <<>>, next, f)
  BY <1>1, <1>3, Makes
<1>5. \A i \in 1..n : i - 1 \in 0..n
  BY <1>1
<1>6. \A i \in 1..n : f[i] = IF list[i] = Nothing THEN f[i - 1] ELSE Append(f[i - 1], list[i])
  BY <1>4, <1>5 DEF Made, next
<1>7. Up(f)
  <2>1. \A k \in 0..n : k = 0 \/ k \in 1..n
    BY <1>1
  <2> QED BY <1>4, <1>6, <2>1 DEF Made
<1> DEFINE u == CHOOSE u : Up(u)
<1>8. Up(u)
  <2> HIDE DEF Up
  <2> QED BY <1>7
<1>9. IPs(list) = u[n]
  BY DEF IPs, n
<1> HIDE DEF u
<1>10. u[0] = <<>> /\ \A i \in 1..n : u[i] = IF list[i] = Nothing THEN u[i - 1] ELSE Append(u[i - 1], list[i])
  <2>1. 0 \in 0..n /\ \A i \in 1..n : i \in 0..n /\ i # 0
    BY <1>1
  <2> QED BY <1>8, <2>1
<1> DEFINE D == {k \in 0..n : u[k] \in T}
<1>11. \A k \in 0..n : k \in D
  <2>1. 0 \in D
    BY <1>1, <1>3, <1>10
  <2>2. ASSUME NEW k \in 1..n, k - 1 \in D PROVE k \in D
    <3>1. u[k] \in T
      BY <1>2, <1>10, <2>2
    <3> QED BY <1>1, <3>1
  <2> HIDE DEF D
  <2> QED BY <1>1, <2>1, <2>2, Induct
<1> QED BY <1>1, <1>9, <1>11 DEF T

LEMMA NoIPs == IPs(<<>>) = <<>>
<1> DEFINE Up(f) == f = [i \in 0..0 |-> IF i = 0 THEN <<>> ELSE IF <<>>[i] = Nothing THEN f[i - 1] ELSE Append(f[i - 1], <<>>[i])]
           u == CHOOSE u : Up(u)
<1>1. Up([i \in 0..0 |-> <<>>])
  OBVIOUS
<1>2. Up(u)
  <2> HIDE DEF Up
  <2> QED BY <1>1
<1>3. IPs(<<>>) = u[0]
  BY EmptySeq DEF IPs
<1> HIDE DEF u
<1> QED BY <1>2, <1>3

-----------------------------------------------------------------------------
(* The invariant                                                           *)

\* An address is the one meant; a scope that came from a socket has its bytes reversed.
Fits(address, m, swapped) ==
  /\ address.type = m.type
  /\ IF m.type = "IPv4" THEN V4(address) = m.data
     ELSE address.data = m.data /\ address.scope = IF swapped THEN Convert[m.scope] ELSE m.scope

Endpoints == [address : Addresses, port : Numbers]
Intents == [address : Meanings, port : Ports, swapped : BOOLEAN]

Kept(e, w) == Fits(e.address, w.address, w.swapped) /\ e.port = w.port
Held == \A o \in Objects : meaning[o] # Nothing => Kept(endpoint[o], meaning[o])
Answered ==
  Len(IPs(found)) = Len(resolved) /\ \A i \in 1..Len(resolved) : Fits(resolved[i], IPs(found)[i], FALSE)

IInv == TypeOK /\ Held /\ Answered

LEMMA Meant4 ==
  ASSUME NEW m \in Meanings, m.type = "IPv4"
  PROVE  m.data \in Bytes(Len4) /\ m.data \in Datas4 /\ m.scope = 0 /\ m = [type |-> "IPv4", data |-> m.data, scope |-> 0]
BY AddressAssumption DEF Meanings

LEMMA Meant6 ==
  ASSUME NEW m \in Meanings, m.type # "IPv4"
  PROVE  /\ m.data \in Bytes(Len6) /\ m.data \in Datas6 /\ m.scope \in Numbers /\ m.type = "IPv6"
         /\ m = [type |-> "IPv6", data |-> m.data, scope |-> m.scope]
BY AddressAssumption DEF Meanings

LEMMA First4 ==
  ASSUME NEW a \in Addresses
  PROVE  V4(a) = [i \in 1..Len4 |-> a.data[i]] /\ V4(a) \in Bytes(Len4)
<1>1. PICK d \in Bytes(Len6) : d = a.data
  BY DEF Addresses
<1>2. d \in Seq(0..(Byte - 1)) /\ Len(d) = Len6
  BY Sizes, BytesAreSeq
<1>3. SubSeq(d, 1, Len4) = [i \in 1..Len4 |-> d[i]]
  BY <1>2, Sizes
<1>4. \A i \in 1..Len4 : d[i] \in 0..(Byte - 1)
  <2>1. \A i \in 1..Len4 : i \in 1..Len6
    BY Sizes
  <2> QED BY <2>1 DEF Bytes
<1> QED BY <1>1, <1>3, <1>4 DEF V4, Bytes

\* The first bytes of an address are overwritten.
LEMMA Overwritten ==
  ASSUME NEW a \in Addresses, NEW d \in Bytes(Len4), NEW t \in {"IPv4", "IPv6"}, NEW b,
         b = [type |-> t, data |-> [i \in 1..Len6 |-> IF i <= Len4 THEN d[i] ELSE a.data[i]], scope |-> a.scope]
  PROVE  b \in Addresses /\ V4(b) = d
<1>1. b \in Addresses
  <2>1. \A i \in 1..Len4 : d[i] \in 0..(Byte - 1)
    BY DEF Bytes
  <2>2. \A i \in 1..Len6 : a.data[i] \in 0..(Byte - 1) /\ (i <= Len4 => i \in 1..Len4)
    BY Sizes DEF Addresses, Bytes
  <2>3. b.data \in Bytes(Len6)
    BY <2>1, <2>2 DEF Bytes
  <2> QED BY <2>3 DEF Addresses
<1>2. V4(b) = [i \in 1..Len4 |-> b.data[i]]
  BY <1>1, First4
<1>3. \A i \in 1..Len4 : b.data[i] = d[i]
  BY Sizes
<1>4. d = [i \in 1..Len4 |-> d[i]]
  BY DEF Bytes
<1> QED BY <1>1, <1>2, <1>3, <1>4

LEMMA Becomes4 ==
  ASSUME NEW a \in Addresses, NEW d \in Bytes(Len4)
  PROVE  AsIPv4(a, d) \in Addresses /\ V4(AsIPv4(a, d)) = d /\ AsIPv4(a, d).type = "IPv4"
BY Overwritten DEF AsIPv4

LEMMA Becomes6 ==
  ASSUME NEW a, NEW d \in Bytes(Len6), NEW n \in Numbers
  PROVE  AsIPv6(a, d, n) \in Addresses /\ AsIPv6(a, d, n) = [type |-> "IPv6", data |-> d, scope |-> n]
BY DEF AsIPv6, Addresses

LEMMA GarbageType == Blank \in Addresses /\ Garbage \subseteq Addresses
<1>1. 0 \in 0..(Byte - 1)
  BY Sizes
<1>2. \A b \in 0..(Byte - 1) : [i \in 1..Len6 |-> b] \in Bytes(Len6)
  BY DEF Bytes
<1> QED BY <1>1, <1>2, Zero DEF Blank, Garbage, Addresses

-----------------------------------------------------------------------------
(* What the system reads and writes                                        *)

\* What a socket is connected to.
LEMMA Reads ==
  ASSUME NEW e \in Endpoints, NEW w \in Intents, Kept(e, w)
  PROVE  /\ SystemReads(ToSockaddr(e)).port = w.port
         /\ SystemReads(ToSockaddr(e)).address =
              [w.address EXCEPT !.scope = IF w.address.type = "IPv4" THEN 0 ELSE Convert[e.address.scope]]
         /\ SystemReads(ToSockaddr(e)) \in [address : Meanings, port : Ports]
<1> DEFINE m == w.address
           a == e.address
           r == SystemReads(ToSockaddr(e))
<1>1. m \in Meanings /\ a \in Addresses /\ e.port \in Numbers /\ w.port \in Ports /\ e.port = w.port /\ a.scope \in Numbers
  BY DEF Endpoints, Intents, Kept, Addresses
<1>2. ToNumber[Store(Convert[e.port])] = w.port
  BY <1>1, Stored
<1>3. CASE m.type = "IPv4"
  <2>1. a.type = "IPv4" /\ V4(a) = m.data
    BY <1>3 DEF Kept, Fits
  <2>2. Store(Convert[ToNumber[m.data]]) = m.data
    BY <1>1, <1>3, Meant4, Loaded
  <2>3. Load(Store(0)) = 0
    BY Zero, Stored
  <2>4. r = [address |-> [type |-> "IPv4", data |-> m.data, scope |-> 0], port |-> w.port]
    BY <1>2, <2>1, <2>2, <2>3 DEF SystemReads, ToSockaddr
  <2>5. m = [type |-> "IPv4", data |-> m.data, scope |-> 0]
    BY <1>1, <1>3, Meant4
  <2> HIDE DEF m, r
  <2> QED BY <1>1, <1>3, <2>4, <2>5 DEF m, r
<1>4. CASE m.type # "IPv4"
  <2>1. a.type = "IPv6" /\ a.data = m.data /\ m.type = "IPv6" /\ m.data \in Datas6
    BY <1>1, <1>4, Meant6 DEF Kept, Fits
  <2>2. Convert[a.scope] \in Numbers /\ Load(Store(Convert[a.scope])) = Convert[a.scope]
    BY <1>1, Stored
  <2>3. r = [address |-> [type |-> "IPv6", data |-> m.data, scope |-> Convert[a.scope]], port |-> w.port]
    BY <1>2, <2>1, <2>2 DEF SystemReads, ToSockaddr
  <2>4. m = [type |-> "IPv6", data |-> m.data, scope |-> m.scope]
    BY <1>1, <1>4, Meant6
  <2>5. r.address \in Meanings
    BY <2>1, <2>2, <2>3 DEF Meanings
  <2> HIDE DEF m, r
  <2> QED BY <1>1, <1>4, <2>3, <2>4, <2>5 DEF m, r
<1> QED BY <1>3, <1>4

\* What a socket shows.
LEMMA Shows ==
  ASSUME NEW m \in Meanings, NEW port \in Ports, NEW before \in Addresses
  PROVE  LET e == FromSockaddr(SystemWrites(m, port), before)
         IN  e \in Endpoints /\ Fits(e.address, m, TRUE) /\ e.port = port
<1> DEFINE e == FromSockaddr(SystemWrites(m, port), before)
<1>1. port \in Numbers /\ Convert[Load(FromNumber[port])] = port
  BY AddressAssumption, Stored
<1>2. CASE m.type = "IPv4"
  <2>1. m.data \in Bytes(Len4) /\ FromNumber[Convert[Load(m.data)]] = m.data
    BY <1>2, Meant4, Loaded
  <2>2. e = [address |-> AsIPv4(before, m.data), port |-> port]
    BY <1>1, <1>2, <2>1 DEF FromSockaddr, SystemWrites
  <2> QED BY <1>1, <1>2, <2>1, <2>2, Becomes4 DEF Endpoints, Fits
<1>3. CASE m.type # "IPv4"
  <2>1. m.data \in Bytes(Len6) /\ m.scope \in Numbers /\ m.type = "IPv6"
    BY <1>3, Meant6
  <2>2. Load(Store(m.scope)) = m.scope /\ Convert[m.scope] \in Numbers
    BY <2>1, Stored
  <2>3. e = [address |-> AsIPv6(before, m.data, Convert[m.scope]), port |-> port]
    BY <1>1, <1>3, <2>2 DEF FromSockaddr, SystemWrites
  <2> QED BY <1>1, <1>3, <2>1, <2>2, <2>3, Becomes6 DEF Endpoints, Fits
<1> QED BY <1>2, <1>3

\* What the resolver makes of an address.
LEMMA Resolves ==
  ASSUME NEW m \in Meanings, NEW before \in Addresses
  PROVE  ToAddress(m, before) \in Addresses /\ Fits(ToAddress(m, before), m, FALSE)
<1>1. CASE m.type = "IPv4"
  <2>1. m.data \in Bytes(Len4) /\ FromNumber[Convert[Load(m.data)]] = m.data
    BY <1>1, Meant4, Loaded
  <2>2. ToAddress(m, before) = AsIPv4(before, m.data)
    BY <1>1, <2>1 DEF ToAddress, SystemWrites
  <2> QED BY <1>1, <2>1, <2>2, Becomes4 DEF Fits
<1>2. CASE m.type # "IPv4"
  <2>1. m.data \in Bytes(Len6) /\ m.scope \in Numbers /\ m.type = "IPv6"
    BY <1>2, Meant6
  <2>2. Load(Store(m.scope)) = m.scope
    BY <2>1, Stored
  <2>3. ToAddress(m, before) = AsIPv6(before, m.data, m.scope)
    BY <1>2, <2>2 DEF ToAddress, SystemWrites
  <2> QED BY <1>2, <2>1, <2>3, Becomes6 DEF Fits
<1> QED BY <1>1, <1>2

-----------------------------------------------------------------------------
(* The invariant is inductive                                              *)

LEMMA InitIInv == Init => IInv
<1> SUFFICES ASSUME Init PROVE IInv
  OBVIOUS
<1>1. TypeOK
  BY Zero, GarbageType, EmptySeq DEF Init, TypeOK
<1>2. Held
  BY DEF Init, Held
<1>3. Answered
  <2>1. IPs(found) = <<>> /\ resolved = <<>>
    BY NoIPs DEF Init
  <2> QED BY <2>1, EmptySeq DEF Answered
<1> QED BY <1>1, <1>2, <1>3 DEF IInv

\* An endpoint gets an address that is the one meant.
LEMMA Placed ==
  ASSUME IInv, NEW o \in Objects, NEW e \in Endpoints, NEW w \in Intents, Kept(e, w),
         endpoint' = [endpoint EXCEPT ![o] = e], meaning' = [meaning EXCEPT ![o] = w], UNCHANGED <<peer, found, resolved>>
  PROVE  IInv'
<1>1. endpoint \in [Objects -> Endpoints] /\ meaning \in [Objects -> Intents \cup {Nothing}]
  BY DEF IInv, TypeOK, Endpoints, Intents
<1>2. endpoint' \in [Objects -> Endpoints] /\ meaning' \in [Objects -> Intents \cup {Nothing}]
  BY <1>1
<1>3. TypeOK'
  BY <1>2 DEF IInv, TypeOK, Endpoints, Intents
<1>4. Held'
  <2>1. ASSUME NEW q \in Objects, meaning'[q] # Nothing PROVE Kept(endpoint'[q], meaning'[q])
    <3>1. CASE q = o
      BY <1>1, <3>1
    <3>2. CASE q # o
      BY <1>1, <2>1, <3>2 DEF IInv, Held
    <3> QED BY <3>1, <3>2
  <2> QED BY <2>1 DEF Held
<1>5. Answered'
  BY DEF IInv, Answered
<1> QED BY <1>3, <1>4, <1>5 DEF IInv

\* Only where a socket is connected to changes.
LEMMA Peered ==
  ASSUME IInv, peer' \in [address : Meanings, port : Ports], UNCHANGED <<endpoint, meaning, found, resolved>>
  PROVE  IInv'
<1>1. TypeOK'
  BY DEF IInv, TypeOK
<1>2. Held' /\ Answered'
  BY DEF IInv, Held, Answered
<1> QED BY <1>1, <1>2 DEF IInv

LEMMA HeldAt ==
  ASSUME IInv, NEW o \in Objects
  PROVE  /\ endpoint[o] \in Endpoints
         /\ endpoint[o] = [address |-> endpoint[o].address, port |-> endpoint[o].port]
         /\ endpoint[o].address \in Addresses /\ endpoint[o].port \in Numbers
         /\ meaning[o] # Nothing =>
              /\ meaning[o] \in Intents /\ Meant(o) \in Meanings /\ Kept(endpoint[o], meaning[o])
              /\ meaning[o] = [address |-> Meant(o), port |-> meaning[o].port, swapped |-> meaning[o].swapped]
BY DEF IInv, TypeOK, Held, Endpoints, Intents, Meant

\* One field of a record changes.
LEMMA AddressChanged ==
  ASSUME NEW e \in Endpoints, NEW b \in Addresses
  PROVE  [e EXCEPT !.address = b] = [address |-> b, port |-> e.port]
BY DEF Endpoints

LEMMA IntentChanged ==
  ASSUME NEW w \in Intents, NEW m \in Meanings
  PROVE  [w EXCEPT !.address = m] = [address |-> m, port |-> w.port, swapped |-> w.swapped]
BY DEF Intents

LEMMA DataChanged ==
  ASSUME NEW a, NEW t, NEW d, NEW n, a = [type |-> t, data |-> d, scope |-> n], NEW x
  PROVE  [a EXCEPT !.data = x] = [type |-> t, data |-> x, scope |-> n]
OBVIOUS

LEMMA ScopeChanged ==
  ASSUME NEW a, NEW t, NEW d, NEW n, a = [type |-> t, data |-> d, scope |-> n], NEW x
  PROVE  [a EXCEPT !.scope = x] = [type |-> t, data |-> d, scope |-> x]
OBVIOUS

LEMMA SetStep ==
  ASSUME IInv, NEW o \in Objects, NEW m \in Inputs, NEW port \in Ports, Set(o, m, port)
  PROVE  IInv'
<1> DEFINE a == endpoint[o].address
           b == IF m.type = "IPv4" THEN AsIPv4(a, m.data) ELSE AsIPv6(a, m.data, m.scope)
           e == [address |-> b, port |-> port]
           w == [address |-> m, port |-> port, swapped |-> FALSE]
<1>1. m \in Meanings /\ a \in Addresses /\ port \in Numbers
  BY HeldAt, AddressAssumption DEF Inputs
<1>2. b \in Addresses /\ Fits(b, m, FALSE)
  <2>1. CASE m.type = "IPv4"
    BY <1>1, <2>1, Meant4, Becomes4 DEF Fits
  <2>2. CASE m.type # "IPv4"
    BY <1>1, <2>2, Meant6, Becomes6 DEF Fits
  <2> QED BY <2>1, <2>2
<1>3. endpoint' = [endpoint EXCEPT ![o] = e] /\ meaning' = [meaning EXCEPT ![o] = w] /\ UNCHANGED <<peer, found, resolved>>
  BY DEF Set
<1> HIDE DEF b
<1>4. e \in Endpoints /\ w \in Intents /\ Kept(e, w)
  BY <1>1, <1>2 DEF Endpoints, Intents, Kept
<1> QED BY <1>3, <1>4, Placed

LEMMA SetNumberStep ==
  ASSUME IInv, NEW o \in Objects, NEW n \in Numbers, SetNumber(o, n)
  PROVE  IInv'
<1> DEFINE a == endpoint[o].address
           d == FromNumber[n]
           b == AsIPv4(a, d)
           m == [type |-> "IPv4", data |-> d, scope |-> 0]
           e == [address |-> b, port |-> endpoint[o].port]
           w == [address |-> m, port |-> meaning[o].port, swapped |-> FALSE]
<1>1. a \in Addresses /\ d \in Datas4 /\ d \in Bytes(Len4) /\ m \in Meanings
  BY HeldAt, OfNumber DEF SetNumber, Meanings
<1>2. b \in Addresses /\ Fits(b, m, FALSE)
  BY <1>1, Becomes4 DEF Fits
<1>3. endpoint' = [endpoint EXCEPT ![o] = e]
  <2>1. endpoint' = [endpoint EXCEPT ![o] = [endpoint[o] EXCEPT !.address = b]]
    BY DEF SetNumber
  <2> HIDE DEF b
  <2> QED BY <1>2, <2>1, HeldAt, AddressChanged
<1>4. meaning' = [meaning EXCEPT ![o] = w] /\ UNCHANGED <<peer, found, resolved>>
  BY DEF SetNumber
<1> HIDE DEF b, m
<1>5. e \in Endpoints /\ w \in Intents /\ Kept(e, w)
  BY <1>1, <1>2, HeldAt DEF SetNumber, Endpoints, Intents, Kept
<1> QED BY <1>3, <1>4, <1>5, Placed

LEMMA SetDataStep ==
  ASSUME IInv, NEW o \in Objects, NEW data \in Datas4 \cup Datas6, SetData(o, data)
  PROVE  IInv'
<1> DEFINE a == endpoint[o].address
           x == [i \in 1..Len6 |-> IF i <= Len(data) THEN data[i] ELSE a.data[i]]
           b == [type |-> a.type, data |-> x, scope |-> a.scope]
           m == [type |-> a.type, data |-> data, scope |-> Meant(o).scope]
           e == [address |-> b, port |-> endpoint[o].port]
           w == [address |-> m, port |-> meaning[o].port, swapped |-> meaning[o].swapped]
<1>1. /\ a \in Addresses /\ meaning[o] # Nothing /\ Meant(o) \in Meanings /\ Meant(o).type = a.type
      /\ data \in IF a.type = "IPv4" THEN Datas4 ELSE Datas6
  BY HeldAt DEF SetData, Kept, Fits, Meant
<1>2. b \in Addresses /\ m \in Meanings /\ Fits(b, m, meaning[o].swapped)
  <2>1. CASE a.type = "IPv4"
    <3>1. data \in Bytes(Len4) /\ Len(data) = Len4
      BY <1>1, <2>1, BytesAreSeq, Sizes, AddressAssumption
    <3>2. b \in Addresses /\ V4(b) = data
      BY <1>1, <2>1, <3>1, Overwritten
    <3>3. m \in Meanings
      BY <1>1, <2>1, Meant4 DEF Meanings
    <3> QED BY <2>1, <3>2, <3>3 DEF Fits
  <2>2. CASE a.type # "IPv4"
    <3>1. data \in Bytes(Len6) /\ Len(data) = Len6 /\ data \in Datas6
      BY <1>1, <2>2, BytesAreSeq, Sizes, AddressAssumption
    <3>2. x = data
      BY <3>1, Sizes DEF Bytes
    <3>3. a.type = "IPv6" /\ a.scope \in Numbers /\ Meant(o).scope \in Numbers
      BY <1>1, <2>2, Meant6 DEF Addresses
    <3>4. a.scope = IF meaning[o].swapped THEN Convert[Meant(o).scope] ELSE Meant(o).scope
      BY <1>1, <2>2, HeldAt DEF Kept, Fits, Meant
    <3> HIDE DEF x
    <3> QED BY <3>1, <3>2, <3>3, <3>4 DEF Fits, Meanings, Addresses
  <2> QED BY <2>1, <2>2
<1>3. endpoint' = [endpoint EXCEPT ![o] = e]
  <2>1. endpoint' = [endpoint EXCEPT ![o] = [endpoint[o] EXCEPT !.address = [a EXCEPT !.data = x]]]
    BY DEF SetData
  <2>2. a = [type |-> a.type, data |-> a.data, scope |-> a.scope]
    BY <1>1 DEF Addresses
  <2> HIDE DEF x
  <2>3. [a EXCEPT !.data = x] = b
    BY <2>2, DataChanged
  <2> HIDE DEF b
  <2> QED BY <1>2, <2>1, <2>3, HeldAt, AddressChanged
<1>4. meaning' = [meaning EXCEPT ![o] = w] /\ UNCHANGED <<peer, found, resolved>>
  <2>1. Meant(o) = [type |-> a.type, data |-> Meant(o).data, scope |-> Meant(o).scope]
    BY <1>1, Meant4, Meant6
  <2>2. meaning' = [meaning EXCEPT ![o] = [meaning[o] EXCEPT !.address = [Meant(o) EXCEPT !.data = data]]]
    BY DEF SetData, Meant
  <2>3. [Meant(o) EXCEPT !.data = data] = m
    BY <2>1, DataChanged
  <2> HIDE DEF m
  <2>4. [meaning[o] EXCEPT !.address = m] = w
    BY <1>1, <1>2, HeldAt, IntentChanged
  <2> QED BY <2>2, <2>3, <2>4 DEF SetData
<1> HIDE DEF b, m
<1>5. e \in Endpoints /\ w \in Intents /\ Kept(e, w)
  BY <1>1, <1>2, HeldAt DEF Endpoints, Intents, Kept
<1> QED BY <1>3, <1>4, <1>5, Placed

LEMMA SetScopeStep ==
  ASSUME IInv, NEW o \in Objects, NEW n \in Scopes, SetScope(o, n)
  PROVE  IInv'
<1> DEFINE a == endpoint[o].address
           b == [type |-> "IPv6", data |-> a.data, scope |-> n]
           m == [type |-> "IPv6", data |-> a.data, scope |-> n]
           e == [address |-> b, port |-> endpoint[o].port]
           w == [address |-> m, port |-> meaning[o].port, swapped |-> FALSE]
<1>1. /\ a \in Addresses /\ meaning[o] # Nothing /\ Meant(o) \in Meanings /\ a.type = "IPv6" /\ Meant(o).type = "IPv6"
      /\ a.data = Meant(o).data /\ n \in Numbers
  BY HeldAt, AddressAssumption DEF SetScope, Kept, Fits, Meant
<1>2. a.data \in Datas6 /\ a.data \in Bytes(Len6)
  BY <1>1, Meant6
<1>3. b \in Addresses /\ m \in Meanings /\ Fits(b, m, FALSE)
  BY <1>1, <1>2 DEF Addresses, Meanings, Fits
<1>4. endpoint' = [endpoint EXCEPT ![o] = e]
  <2>1. a = [type |-> "IPv6", data |-> a.data, scope |-> a.scope]
    BY <1>1 DEF Addresses
  <2>2. endpoint' = [endpoint EXCEPT ![o] = [endpoint[o] EXCEPT !.address = [a EXCEPT !.scope = n]]]
    BY DEF SetScope
  <2>3. [a EXCEPT !.scope = n] = b
    BY <2>1, ScopeChanged
  <2> HIDE DEF b
  <2> QED BY <1>3, <2>2, <2>3, HeldAt, AddressChanged
<1>5. meaning' = [meaning EXCEPT ![o] = w] /\ UNCHANGED <<peer, found, resolved>>
  <2>1. Meant(o) = [type |-> "IPv6", data |-> a.data, scope |-> Meant(o).scope]
    BY <1>1, Meant6
  <2>2. [Meant(o) EXCEPT !.scope = n] = m
    BY <2>1, ScopeChanged
  <2> QED BY <2>2 DEF SetScope, Meant
<1> HIDE DEF b, m
<1>6. e \in Endpoints /\ w \in Intents /\ Kept(e, w)
  BY <1>1, <1>3, HeldAt DEF Endpoints, Intents, Kept
<1> QED BY <1>4, <1>5, <1>6, Placed

LEMMA CopyStep ==
  ASSUME IInv, NEW o \in Objects, NEW p \in Objects, Copy(o, p)
  PROVE  IInv'
<1>1. CASE meaning[p] # Nothing
  BY <1>1, HeldAt, Placed DEF Copy
<1>2. CASE meaning[p] = Nothing
  <2>1. TypeOK'
    <3>1. endpoint \in [Objects -> Endpoints] /\ meaning \in [Objects -> Intents \cup {Nothing}]
      BY DEF IInv, TypeOK, Endpoints, Intents
    <3>2. endpoint' \in [Objects -> Endpoints] /\ meaning' \in [Objects -> Intents \cup {Nothing}]
      BY <3>1 DEF Copy
    <3> QED BY <3>2 DEF IInv, TypeOK, Endpoints, Intents, Copy
  <2>2. Held'
    <3>1. ASSUME NEW q \in Objects, meaning'[q] # Nothing PROVE endpoint'[q] = endpoint[q] /\ meaning'[q] = meaning[q]
      BY <1>2, <3>1 DEF IInv, TypeOK, Copy
    <3> QED BY <3>1 DEF IInv, Held
  <2>3. Answered'
    BY DEF IInv, Answered, Copy
  <2> QED BY <2>1, <2>2, <2>3 DEF IInv
<1> QED BY <1>1, <1>2

LEMMA ConnectStep ==
  ASSUME IInv, NEW o \in Objects, Connect(o)
  PROVE  IInv'
<1>1. SystemReads(ToSockaddr(endpoint[o])) \in [address : Meanings, port : Ports]
  BY HeldAt, Reads DEF Connect
<1> QED BY <1>1, Peered DEF Connect

LEMMA GetRemoteEndpointStep ==
  ASSUME IInv, NEW o \in Objects, GetRemoteEndpoint(o)
  PROVE  IInv'
<1>1. PICK before \in Garbage :
        endpoint' = [endpoint EXCEPT ![o] = FromSockaddr(SystemWrites(peer.address, peer.port), before)]
  BY DEF GetRemoteEndpoint
<1> DEFINE e == FromSockaddr(SystemWrites(peer.address, peer.port), before)
           w == [address |-> peer.address, port |-> peer.port, swapped |-> TRUE]
<1>2. peer.address \in Meanings /\ peer.port \in Ports
  BY DEF GetRemoteEndpoint, IInv, TypeOK
<1>3. e \in Endpoints /\ Fits(e.address, peer.address, TRUE) /\ e.port = peer.port
  BY <1>2, GarbageType, Shows
<1>4. meaning' = [meaning EXCEPT ![o] = w] /\ UNCHANGED <<peer, found, resolved>>
  BY DEF GetRemoteEndpoint
<1> HIDE DEF e
<1>5. w \in Intents /\ Kept(e, w)
  BY <1>2, <1>3 DEF Intents, Kept
<1> QED BY <1>1, <1>3, <1>4, <1>5, Placed DEF e

LEMMA ResolveStep ==
  ASSUME IInv, NEW list \in Lists, Resolve(list)
  PROVE  IInv'
<1>1. PICK before \in Garbage : resolved' = [i \in 1..Len(IPs(list)) |-> ToAddress(IPs(list)[i], before)]
  BY DEF Resolve
<1>2. list \in Seq(Meanings \cup {Nothing})
  BY AddressAssumption
<1>3. PICK ip \in Seq(Meanings) : ip = IPs(list)
  BY <1>2, IPsType
<1>4. PICK n \in Nat : n = Len(ip) /\ \A i \in 1..n : ip[i] \in Meanings
  BY LenProperties
<1>5. \A i \in 1..n : ToAddress(ip[i], before) \in Addresses /\ Fits(ToAddress(ip[i], before), ip[i], FALSE)
  BY <1>4, GarbageType, Resolves
<1>6. resolved' = [i \in 1..n |-> ToAddress(ip[i], before)]
  BY <1>1, <1>3, <1>4
<1>7. resolved' \in [1..n -> Addresses]
  BY <1>5, <1>6
<1>8. resolved' \in Seq(Addresses) /\ Len(resolved') = n
  <2>1. resolved' \in Seq(Addresses)
    BY <1>7, SeqDef
  <2>2. Len(resolved') \in Nat /\ DOMAIN resolved' = 1..Len(resolved')
    BY <2>1, LenProperties
  <2>3. DOMAIN resolved' = 1..n
    BY <1>7
  <2>4. PICK k \in Nat : k = Len(resolved')
    BY <2>2
  <2>5. 1..k = 1..n
    BY <2>2, <2>3, <2>4, Zenon
  <2>6. k = n
    BY <2>5
  <2> QED BY <2>1, <2>4, <2>6, Zenon
<1>9. TypeOK'
  BY <1>2, <1>8 DEF IInv, TypeOK, Resolve
<1>10. Held'
  BY DEF IInv, Held, Resolve
<1>11. Answered'
  <2>1. IPs(found') = ip
    BY <1>3 DEF Resolve
  <2>2. \A i \in 1..n : Fits(resolved'[i], ip[i], FALSE)
    BY <1>5, <1>6
  <2> QED BY <1>4, <1>8, <2>1, <2>2 DEF Answered
<1> QED BY <1>9, <1>10, <1>11 DEF IInv

LEMMA TakeStep ==
  ASSUME IInv, NEW o \in Objects, NEW i \in 1..Len(resolved), NEW port \in Ports, Take(o, i, port)
  PROVE  IInv'
<1> DEFINE e == [address |-> resolved[i], port |-> port]
           w == [address |-> IPs(found)[i], port |-> port, swapped |-> FALSE]
<1>1. resolved[i] \in Addresses /\ port \in Numbers
  BY AddressAssumption DEF IInv, TypeOK
<1>2. IPs(found)[i] \in Meanings
  <2>1. IPs(found) \in Seq(Meanings)
    BY IPsType DEF IInv, TypeOK
  <2>2. i \in 1..Len(IPs(found))
    BY DEF IInv, Answered
  <2> QED BY <2>1, <2>2
<1>3. Fits(resolved[i], IPs(found)[i], FALSE)
  BY DEF IInv, Answered
<1>4. e \in Endpoints /\ w \in Intents /\ Kept(e, w)
  BY <1>1, <1>2, <1>3 DEF Endpoints, Intents, Kept
<1> QED BY <1>4, Placed DEF Take

LEMMA StepIInv == IInv /\ [Next]_vars => IInv'
<1> SUFFICES ASSUME IInv, [Next]_vars PROVE IInv'
  OBVIOUS
<1>1. CASE UNCHANGED vars
  BY <1>1 DEF vars, IInv, TypeOK, Held, Answered
<1>2. ASSUME NEW o \in Objects, NEW m \in Inputs, NEW port \in Ports, Set(o, m, port) PROVE IInv'
  BY <1>2, SetStep
<1>3. ASSUME NEW o \in Objects, NEW n \in Numbers, SetNumber(o, n) PROVE IInv'
  BY <1>3, SetNumberStep
<1>4. ASSUME NEW o \in Objects, NEW data \in Datas4 \cup Datas6, SetData(o, data) PROVE IInv'
  BY <1>4, SetDataStep
<1>5. ASSUME NEW o \in Objects, NEW n \in Scopes, SetScope(o, n) PROVE IInv'
  BY <1>5, SetScopeStep
<1>6. ASSUME NEW o \in Objects, NEW p \in Objects, Copy(o, p) PROVE IInv'
  BY <1>6, CopyStep
<1>7. ASSUME NEW o \in Objects, Connect(o) PROVE IInv'
  BY <1>7, ConnectStep
<1>8. ASSUME NEW o \in Objects, GetRemoteEndpoint(o) PROVE IInv'
  BY <1>8, GetRemoteEndpointStep
<1>9. ASSUME NEW o \in Objects, NEW i \in 1..Len(resolved), NEW port \in Ports, Take(o, i, port) PROVE IInv'
  BY <1>9, TakeStep
<1>10. ASSUME NEW m \in Inputs, NEW port \in Ports, Accepted(m, port) PROVE IInv'
  BY <1>10, Peered DEF Accepted, Inputs
<1>11. ASSUME NEW list \in Lists, Resolve(list) PROVE IInv'
  BY <1>11, ResolveStep
<1> QED BY <1>1, <1>2, <1>3, <1>4, <1>5, <1>6, <1>7, <1>8, <1>9, <1>10, <1>11 DEF Next

-----------------------------------------------------------------------------
(* What follows                                                            *)

\* The order of two sequences of bytes is that of their numbers.
LEMMA Comparing ==
  ASSUME NEW n \in {Len4, Len6}, NEW a \in Bytes(n), NEW b \in Bytes(n)
  PROVE  /\ Precedes(a, b) <=> ToNumber[b] > ToNumber[a]
         /\ a = b <=> ToNumber[b] = ToNumber[a]
BY Ordered

\* Endpoints hold what they were set to, so that addresses compare as what was meant.
LEMMA Compares ==
  ASSUME NEW a \in Addresses, NEW b \in Addresses, NEW m \in Meanings, NEW n \in Meanings,
         NEW s \in BOOLEAN, NEW t \in BOOLEAN, Fits(a, m, s), Fits(b, n, t),
         s = t \/ (Palindrome(m.scope) /\ Palindrome(n.scope))
  PROVE  /\ Equal(a, b) <=> m = n
         /\ Palindrome(m.scope) /\ Palindrome(n.scope) =>
              (Less(a, b) <=> IF m.type # n.type THEN m.type = "IPv4" ELSE Above(n, m))
<1>t. a.type = m.type /\ b.type = n.type
  BY DEF Fits
<1>1. CASE m.type # n.type
  <2>1. m # n
    BY <1>1
  <2> QED BY <1>t, <1>1, <2>1 DEF Equal, Less
<1>2. CASE m.type = "IPv4" /\ n.type = "IPv4"
  <2>1. V4(a) = m.data /\ V4(b) = n.data
    BY <1>2 DEF Fits
  <2>2. /\ m.data \in Bytes(Len4) /\ m.scope = 0 /\ m = [type |-> "IPv4", data |-> m.data, scope |-> 0]
        /\ n.data \in Bytes(Len4) /\ n.scope = 0 /\ n = [type |-> "IPv4", data |-> n.data, scope |-> 0]
    BY <1>2, Meant4
  <2>3. m = n <=> m.data = n.data
    BY <2>2
  <2>4. Precedes(m.data, n.data) <=> ToNumber[n.data] > ToNumber[m.data]
    BY <2>2, Comparing
  <2>5. ~(n.scope > m.scope)
    BY <2>2
  <2> QED BY <1>t, <1>2, <2>1, <2>3, <2>4, <2>5 DEF Equal, Less, Above
<1>3. CASE m.type = n.type /\ m.type # "IPv4"
  <2>1. /\ a.data = m.data /\ a.scope = IF s THEN Convert[m.scope] ELSE m.scope
        /\ b.data = n.data /\ b.scope = IF t THEN Convert[n.scope] ELSE n.scope
    BY <1>3 DEF Fits
  <2>2. /\ m.data \in Bytes(Len6) /\ m.scope \in Numbers /\ m = [type |-> "IPv6", data |-> m.data, scope |-> m.scope]
        /\ n.data \in Bytes(Len6) /\ n.scope \in Numbers /\ n = [type |-> "IPv6", data |-> n.data, scope |-> n.scope]
    BY <1>3, Meant6
  <2>3. Convert[Convert[m.scope]] = m.scope /\ Convert[Convert[n.scope]] = n.scope
    BY <2>2, Stored
  <2>4. a.scope = b.scope <=> m.scope = n.scope
    BY <2>1, <2>3 DEF Palindrome
  <2>5. m = n <=> m.data = n.data /\ m.scope = n.scope
    BY <2>2
  <2>6. Palindrome(m.scope) /\ Palindrome(n.scope) => a.scope = m.scope /\ b.scope = n.scope
    BY <2>1 DEF Palindrome
  <2>7. /\ Precedes(m.data, n.data) <=> ToNumber[n.data] > ToNumber[m.data]
        /\ m.data = n.data <=> ToNumber[n.data] = ToNumber[m.data]
    BY <2>2, Comparing
  <2>8. m.scope < n.scope <=> n.scope > m.scope
    BY <2>2 DEF Numbers
  <2> QED BY <1>t, <1>3, <2>1, <2>4, <2>5, <2>6, <2>7, <2>8 DEF Equal, Less, Above
<1> QED BY <1>1, <1>2, <1>3

-----------------------------------------------------------------------------
(* Theorems                                                                *)

\* The invariant: every address is the one its endpoint was set to, and so is every address that was resolved.
THEOREM Inductive == Spec => []IInv
<1> QED BY InitIInv, StepIInv, PTL DEF Spec

\* Every variable keeps its type, whatever is set, copied, resolved and read back.
THEOREM TypeCorrectness == Spec => []TypeOK
<1>1. IInv => TypeOK
  BY DEF IInv
<1> QED BY <1>1, Inductive, PTL

\* == and < of IPAddress compare the values that were set last, whatever the union
\* held before, in the order of their numbers.
THEOREM Comparison == Spec => []ComparesByValue
<1>1. IInv => ComparesByValue
  <2> SUFFICES ASSUME IInv, NEW o \in Objects, NEW p \in Objects, meaning[o] # Nothing, meaning[p] # Nothing, SameAs(o, p)
               PROVE  LET a == endpoint[o].address
                          b == endpoint[p].address
                      IN  /\ Equal(a, b) <=> Meant(o) = Meant(p)
                          /\ Palindrome(Meant(o).scope) /\ Palindrome(Meant(p).scope) =>
                               (Less(a, b) <=> IF Meant(o).type # Meant(p).type THEN Meant(o).type = "IPv4"
                                               ELSE Above(Meant(p), Meant(o)))
    BY DEF ComparesByValue
  <2>1. /\ endpoint[o].address \in Addresses /\ Meant(o) \in Meanings /\ meaning[o].swapped \in BOOLEAN
        /\ endpoint[p].address \in Addresses /\ Meant(p) \in Meanings /\ meaning[p].swapped \in BOOLEAN
    BY HeldAt DEF Intents
  <2>2. /\ Fits(endpoint[o].address, Meant(o), meaning[o].swapped)
        /\ Fits(endpoint[p].address, Meant(p), meaning[p].swapped)
    BY HeldAt DEF Kept, Meant
  <2>3. meaning[o].swapped = meaning[p].swapped \/ (Palindrome(Meant(o).scope) /\ Palindrome(Meant(p).scope))
    BY DEF SameAs
  <2> QED BY <2>1, <2>2, <2>3, Compares
<1> QED BY <1>1, Inductive, PTL

\* connect() reaches the address and port its endpoint was set to, through the
\* byte order of the machine and that of the network; a scope only if it was taken
\* from a socket, otherwise it arrives with its bytes reversed.
THEOREM TargetsReached == Spec => ReachesTarget
<1>1. ASSUME IInv, NEW o \in Objects, Connect(o)
      PROVE  peer' = [address |-> Arrives(o), port |-> meaning[o].port]
  <2> DEFINE m == Meant(o)
             a == endpoint[o].address
             n == IF m.type = "IPv4" THEN 0 ELSE Convert[a.scope]
             arrived == IF meaning[o].swapped THEN m.scope ELSE Convert[m.scope]
  <2>1. m \in Meanings /\ Fits(a, m, meaning[o].swapped)
    BY <1>1, HeldAt DEF Connect, Kept, Meant
  <2>2. /\ peer' \in [address : Meanings, port : Ports]
        /\ peer'.port = meaning[o].port /\ peer'.address = [m EXCEPT !.scope = n]
    BY <1>1, HeldAt, Reads DEF Connect, Meant
  <2>3. n = arrived
    <3>1. CASE m.type = "IPv4"
      BY <2>1, <3>1, Meant4, Zero, ZeroReads
    <3>2. CASE m.type # "IPv4"
      <4>1. m.scope \in Numbers /\ Convert[Convert[m.scope]] = m.scope
        BY <2>1, <3>2, Meant6, Stored
      <4>2. a.scope = IF meaning[o].swapped THEN Convert[m.scope] ELSE m.scope
        BY <2>1, <3>2 DEF Fits
      <4> QED BY <3>2, <4>1, <4>2
    <3> QED BY <3>1, <3>2
  <2>4. Arrives(o) = [m EXCEPT !.scope = arrived]
    BY DEF Arrives
  <2> HIDE DEF m, n, arrived
  <2>5. peer'.address = Arrives(o)
    BY <2>2, <2>3, <2>4
  <2> QED BY <2>2, <2>5
<1>2. IInv /\ [Next]_vars =>
        \A o \in Objects : Connect(o) => peer' = [address |-> Arrives(o), port |-> meaning[o].port]
  BY <1>1
<1> QED BY <1>2, Inductive, PTL DEF Spec, ReachesTarget

\* getRemoteEndpoint() shows an endpoint that is equal to the one connect() was given.
THEOREM TargetsShown == Spec => ShowsTarget
<1>1. ASSUME IInv, NEW o \in Objects, NEW p \in Objects, meaning[o] # Nothing, GetRemoteEndpoint(p),
             peer = SystemReads(ToSockaddr(endpoint[o]))
      PROVE  Equal(endpoint[o].address, endpoint'[p].address) /\ endpoint[o].port = endpoint'[p].port
  <2> DEFINE m == Meant(o)
             a == endpoint[o].address
             n == IF m.type = "IPv4" THEN 0 ELSE Convert[a.scope]
  <2>1. m \in Meanings /\ a \in Addresses /\ Fits(a, m, meaning[o].swapped) /\ endpoint[o].port = meaning[o].port
    BY <1>1, HeldAt DEF Kept, Meant
  <2>2. peer.port = meaning[o].port /\ peer.address = [m EXCEPT !.scope = n] /\ peer \in [address : Meanings, port : Ports]
    BY <1>1, HeldAt, Reads DEF Meant
  <2>3. PICK before \in Garbage :
          endpoint' = [endpoint EXCEPT ![p] = FromSockaddr(SystemWrites(peer.address, peer.port), before)]
    BY <1>1 DEF GetRemoteEndpoint
  <2>4. PICK e \in Endpoints : endpoint'[p] = e /\ Fits(e.address, peer.address, TRUE) /\ e.port = peer.port
    <3>1. endpoint'[p] = FromSockaddr(SystemWrites(peer.address, peer.port), before)
      BY <1>1, <2>3 DEF IInv, TypeOK
    <3>2. peer.address \in Meanings /\ peer.port \in Ports /\ before \in Addresses
      BY <2>2, GarbageType
    <3> DEFINE e == FromSockaddr(SystemWrites(peer.address, peer.port), before)
    <3>3. e \in Endpoints /\ Fits(e.address, peer.address, TRUE) /\ e.port = peer.port
      BY <3>2, Shows
    <3> HIDE DEF e
    <3> QED BY <3>1, <3>3 DEF e
  <2>5. PICK t, d, c : m = [type |-> t, data |-> d, scope |-> c]
    BY <2>1 DEF Meanings
  <2>6. peer.address = [type |-> t, data |-> d, scope |-> n]
    BY <2>2, <2>5, ScopeChanged
  <2>7. Equal(a, e.address)
    <3>1. CASE t = "IPv4"
      BY <2>1, <2>4, <2>5, <2>6, <3>1 DEF Fits, Equal
    <3>2. CASE t # "IPv4"
      <4>1. a.scope \in Numbers /\ Convert[Convert[a.scope]] = a.scope
        BY <2>1, Stored DEF Addresses
      <4>2. e.address.data = d /\ e.address.type = t /\ e.address.scope = Convert[n]
        BY <2>4, <2>6, <3>2 DEF Fits
      <4>3. a.data = d /\ a.type = t
        BY <2>1, <2>5, <3>2 DEF Fits
      <4>4. n = Convert[a.scope]
        BY <2>5, <3>2
      <4> QED BY <3>2, <4>1, <4>2, <4>3, <4>4 DEF Equal
    <3> QED BY <3>1, <3>2
  <2> QED BY <2>1, <2>2, <2>4, <2>7
<1>2. IInv /\ [Next]_vars =>
        \A o, p \in Objects : meaning[o] # Nothing /\ GetRemoteEndpoint(p) /\ peer = SystemReads(ToSockaddr(endpoint[o])) =>
          Equal(endpoint[o].address, endpoint'[p].address) /\ endpoint[o].port = endpoint'[p].port
  BY <1>1
<1> QED BY <1>2, Inductive, PTL DEF Spec, ShowsTarget
=============================================================================
