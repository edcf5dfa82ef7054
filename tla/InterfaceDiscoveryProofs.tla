----------------------- MODULE InterfaceDiscoveryProofs ---------------------
(***************************************************************************)
(* Theorems about InterfaceDiscovery and the enumeration of the hosts that *)
(* it extends, for every machine and every width of an address.            *)
(***************************************************************************)
EXTENDS InterfaceDiscovery, DataFacts, FiniteSetTheorems

-----------------------------------------------------------------------------
(* Powers of two                                                           *)

(* The subsets of a union of two disjoint sets are the pairs of subsets of *)
(* the two.                                                                *)
LEMMA SubsetPairs ==
  ASSUME NEW S, NEW T, S \cap T = {}
  PROVE  ExistsBijection(SUBSET (S \cup T), (SUBSET S) \X (SUBSET T))
<1> DEFINE f == [x \in SUBSET (S \cup T) |-> <<x \cap S, x \cap T>>]
<1>1. f \in [SUBSET (S \cup T) -> (SUBSET S) \X (SUBSET T)]
  OBVIOUS
<1>2. ASSUME NEW x \in SUBSET (S \cup T), NEW y \in SUBSET (S \cup T), f[x] = f[y]
      PROVE  x = y
  <2>1. x \cap S = y \cap S /\ x \cap T = y \cap T
    BY <1>2
  <2> QED BY <2>1
<1>3. ASSUME NEW p \in (SUBSET S) \X (SUBSET T)
      PROVE  \E x \in SUBSET (S \cup T) : f[x] = p
  <2>1. PICK u \in SUBSET S, v \in SUBSET T : p = <<u, v>>
    OBVIOUS
  <2>2. u \cup v \in SUBSET (S \cup T) /\ (u \cup v) \cap S = u /\ (u \cup v) \cap T = v
    OBVIOUS
  <2>3. f[u \cup v] = p
    BY <2>1, <2>2
  <2> QED BY <2>2, <2>3
<1> HIDE DEF f
<1>4. f \in Bijection(SUBSET (S \cup T), (SUBSET S) \X (SUBSET T))
  BY <1>1, <1>2, <1>3 DEF Bijection, Injection, Surjection, IsInjective
<1> QED BY <1>4 DEF ExistsBijection

(* A power of two is a number, and counts the subsets of an interval. *)
LEMMA PowerIsCount ==
  ASSUME NEW a \in Int, NEW n \in Nat
  PROVE  /\ IsFiniteSet(SUBSET (a + 1 .. a + n))
         /\ Cardinality(SUBSET (a + 1 .. a + n)) = 2^n
         /\ 2^n \in Nat
<1>1. IsFiniteSet(a + 1 .. a + n) /\ Cardinality(a + 1 .. a + n) = n
  <2>1. a + 1 \in Int /\ a + n \in Int
    OBVIOUS
  <2>2. /\ IsFiniteSet(a + 1 .. a + n)
        /\ Cardinality(a + 1 .. a + n) = IF a + 1 > a + n THEN 0 ELSE a + n - (a + 1) + 1
    BY <2>1, FS_Interval
  <2> QED BY <2>2
<1>2. /\ IsFiniteSet(SUBSET (a + 1 .. a + n))
      /\ Cardinality(SUBSET (a + 1 .. a + n)) = 2^n
  BY <1>1, FS_SUBSET, Zenon
<1>3. Cardinality(SUBSET (a + 1 .. a + n)) \in Nat
  BY <1>2, FS_CardinalityType
<1> QED BY <1>2, <1>3, Zenon

(* The powers of two multiply. *)
LEMMA PowerOfSum ==
  ASSUME NEW m \in Nat, NEW n \in Nat
  PROVE  2^(m + n) = 2^m * 2^n
<1> DEFINE S == 0 + 1 .. 0 + m
           T == m + 1 .. m + n
<1>1. S \cap T = {} /\ S \cup T = 0 + 1 .. 0 + (m + n) /\ m + n \in Nat
  OBVIOUS
<1>2. IsFiniteSet(SUBSET S) /\ Cardinality(SUBSET S) = 2^m
  BY PowerIsCount, 0 \in Int, Zenon
<1>3. IsFiniteSet(SUBSET T) /\ Cardinality(SUBSET T) = 2^n
  BY PowerIsCount, m \in Int, Zenon
<1>4. IsFiniteSet(SUBSET (S \cup T)) /\ Cardinality(SUBSET (S \cup T)) = 2^(m + n)
  BY <1>1, PowerIsCount, 0 \in Int, Zenon
<1> HIDE DEF S, T
<1>5. Cardinality((SUBSET S) \X (SUBSET T)) = Cardinality(SUBSET S) * Cardinality(SUBSET T)
  BY <1>2, <1>3, FS_Product
<1>6. Cardinality((SUBSET S) \X (SUBSET T)) = Cardinality(SUBSET (S \cup T))
  <2>1. ExistsBijection(SUBSET (S \cup T), (SUBSET S) \X (SUBSET T))
    BY <1>1, SubsetPairs
  <2> QED BY <1>4, <2>1, FS_Bijection
<1> QED BY <1>2, <1>3, <1>4, <1>5, <1>6, Zenon

(* Doubling; and a power of two is at least one, of one or more at least   *)
(* two, of two or more at least four.                                      *)
LEMMA PowerFacts ==
  ASSUME NEW n \in Nat
  PROVE  /\ 2^n \in Nat /\ 2^(n + 1) = 2 * 2^n
         /\ 2^n >= 1
         /\ n >= 1 => 2^n >= 2
         /\ n >= 2 => 2^n >= 4
<1>1. \A k \in Nat : 2^k \in Nat
  BY PowerIsCount, 0 \in Int, Zenon
<1>2. 2^0 = 1 /\ 2^1 = 2
  OBVIOUS
<1>3. \A k \in Nat : 2^(k + 1) = 2 * 2^k
  <2> SUFFICES ASSUME NEW k \in Nat PROVE 2^(k + 1) = 2 * 2^k
    OBVIOUS
  <2>1. 2^(k + 1) = 2^k * 2^1
    BY PowerOfSum, 1 \in Nat, Zenon
  <2>2. 2^k \in Nat
    BY <1>1
  <2> QED BY <1>2, <2>1, <2>2
<1>4. \A k \in Nat : 2^k >= 1
  <2> DEFINE P(k) == 2^k
             Bad == {k \in Nat : ~(P(k) >= 1)}
  <2>0. P(0) = 1 /\ \A k \in Nat : P(k) \in Nat /\ P(k + 1) = 2 * P(k)
    BY <1>1, <1>2, <1>3
  <2> HIDE DEF P
  <2>1. SUFFICES ASSUME Bad # {} PROVE FALSE
    BY DEF P
  <2>2. PICK k \in Bad : \A y \in Bad : k <= y
    <3>1. Bad \subseteq Nat
      OBVIOUS
    <3> HIDE DEF Bad
    <3> QED BY <2>1, <3>1, LeastNat
  <2>3. k # 0 /\ k - 1 \in Nat /\ k - 1 \notin Bad
    BY <2>0, <2>2
  <2>4. P(k - 1 + 1) = 2 * P(k - 1) /\ P(k - 1) >= 1 /\ P(k - 1) \in Nat
    BY <2>0, <2>3
  <2>5. k - 1 + 1 = k
    BY <2>3
  <2> QED BY <2>2, <2>4, <2>5
<1> DEFINE P(k) == 2^k
<1>5. \A k \in Nat : P(k) \in Nat /\ P(k + 1) = 2 * P(k) /\ P(k) >= 1
  BY <1>1, <1>3, <1>4, Zenon
<1> HIDE DEF P
<1>6. n >= 1 => P(n) >= 2
  <2> SUFFICES ASSUME n >= 1 PROVE P(n) >= 2
    OBVIOUS
  <2>1. n - 1 \in Nat /\ n - 1 + 1 = n
    OBVIOUS
  <2>2. P(n - 1 + 1) = 2 * P(n - 1) /\ P(n - 1) \in Nat /\ P(n - 1) >= 1
    BY <1>5, <2>1
  <2> QED BY <2>1, <2>2
<1>7. n >= 2 => P(n) >= 4
  <2> SUFFICES ASSUME n >= 2 PROVE P(n) >= 4
    OBVIOUS
  <2>1. n - 2 \in Nat /\ n - 1 \in Nat /\ n - 2 + 1 = n - 1 /\ n - 1 + 1 = n
    OBVIOUS
  <2>2. P(n - 2 + 1) = 2 * P(n - 2) /\ P(n - 2) \in Nat /\ P(n - 2) >= 1
    BY <1>5, <2>1
  <2>3. P(n - 1 + 1) = 2 * P(n - 1) /\ P(n - 1) \in Nat
    BY <1>5, <2>1
  <2> QED BY <2>1, <2>2, <2>3
<1>8. P(n) \in Nat /\ P(n + 1) = 2 * P(n) /\ P(n) >= 1
  BY <1>5
<1> QED BY <1>6, <1>7, <1>8, Zenon DEF P

-----------------------------------------------------------------------------
(* Division                                                                *)

(* Quotient and remainder. *)
LEMMA DivFacts ==
  ASSUME NEW x \in Nat, NEW h \in Nat, h >= 1
  PROVE  /\ x \div h \in Nat /\ x % h \in 0 .. h - 1
         /\ x = h * (x \div h) + (x % h)
<1>1. x \div h \in Nat
  OBVIOUS
<1>2. x % h \in 0 .. h - 1
  OBVIOUS
<1>3. x = h * (x \div h) + (x % h)
  OBVIOUS
<1> QED BY <1>1, <1>2, <1>3

(* A product of natural numbers is one, and a factor changes its size. *)
LEMMA ProductFacts ==
  ASSUME NEW h \in Nat, h >= 1, NEW q \in Nat, NEW k \in Nat, q < k
  PROVE  h * q \in Nat /\ h * k \in Nat /\ h * q + h <= h * k
<1>1. PICK d \in Nat : k = q + 1 + d
  <2>1. k - q - 1 \in Nat /\ k = q + 1 + (k - q - 1)
    OBVIOUS
  <2> QED BY <2>1
<1>2. h * (q + 1 + d) = h * q + h + h * d
  OBVIOUS
<1>3. h * d \in Nat /\ h * q \in Nat /\ h * k \in Nat
  OBVIOUS
<1> QED BY <1>1, <1>2, <1>3

(* There is one quotient. *)
LEMMA DivUnique ==
  ASSUME NEW h \in Nat, h >= 1, NEW q \in Nat, NEW r \in 0 .. h - 1
  PROVE  (h * q + r) \div h = q /\ (h * q + r) % h = r
<1>1. h * q \in Nat
  OBVIOUS
<1>2. PICK x \in Nat : x = h * q + r
  BY <1>1
<1>3. /\ x \div h \in Nat /\ x % h \in 0 .. h - 1
      /\ x = h * (x \div h) + (x % h)
  BY DivFacts
<1>4. PICK k \in Nat, s \in 0 .. h - 1 : k = x \div h /\ s = x % h /\ x = h * k + s
  BY <1>3
<1>5. ~(q < k)
  <2> SUFFICES ASSUME q < k PROVE FALSE
    OBVIOUS
  <2>1. h * q + h <= h * k /\ h * k \in Nat
    BY ProductFacts
  <2> QED BY <1>1, <1>2, <1>4, <2>1
<1>6. ~(k < q)
  <2> SUFFICES ASSUME k < q PROVE FALSE
    OBVIOUS
  <2>1. h * k + h <= h * q /\ h * k \in Nat
    BY ProductFacts
  <2> QED BY <1>1, <1>2, <1>4, <2>1
<1>7. q = k
  BY <1>5, <1>6
<1>8. r = s
  BY <1>1, <1>2, <1>4, <1>7
<1> QED BY <1>2, <1>4, <1>7, <1>8

-----------------------------------------------------------------------------
(* Masks                                                                   *)

(* The mask of n ones, cut after k >= n bits. *)
LEMMA MaskQuotient ==
  ASSUME NEW n \in 0 .. Width, NEW k \in n .. Width
  PROVE  /\ (2^Width - 2^(Width - n)) \div 2^(Width - k) = 2^k - 2^(k - n)
         /\ 2^(k - n) <= 2^k
<1>1. /\ n \in Nat /\ k \in Nat /\ Width - k \in Nat /\ k - n \in Nat /\ Width - n \in Nat
      /\ Width = (Width - k) + k /\ Width - n = (Width - k) + (k - n) /\ k = (k - n) + n
  BY WidthAssumption
<1>2. PICK a, b, c, d : /\ a = 2^(Width - k) /\ b = 2^k /\ c = 2^(k - n) /\ d = 2^n
  OBVIOUS
<1>3. a \in Nat /\ a >= 1 /\ b \in Nat /\ c \in Nat /\ d \in Nat /\ d >= 1
  BY <1>1, <1>2, PowerFacts
<1>4. 2^Width = a * b /\ 2^(Width - n) = a * c /\ b = c * d
  <2>1. 2^((Width - k) + k) = 2^(Width - k) * 2^k
    BY <1>1, PowerOfSum, Zenon
  <2>2. 2^((Width - k) + (k - n)) = 2^(Width - k) * 2^(k - n)
    BY <1>1, PowerOfSum, Zenon
  <2>3. 2^((k - n) + n) = 2^(k - n) * 2^n
    BY <1>1, PowerOfSum, Zenon
  <2> QED BY <1>1, <1>2, <2>1, <2>2, <2>3, Zenon
<1>5. c <= b
  <2>1. PICK e \in Nat : d = e + 1
    <3>1. d - 1 \in Nat /\ d = (d - 1) + 1
      BY <1>3
    <3> QED BY <3>1
  <2>2. b = c * e + c /\ c * e \in Nat
    BY <1>3, <1>4, <2>1
  <2> QED BY <1>3, <2>2
<1>6. (a * (b - c) + 0) \div a = b - c
  <2>1. b - c \in Nat /\ 0 \in 0 .. a - 1
    BY <1>3, <1>5
  <2> QED BY <1>3, <2>1, DivUnique
<1>7. a * (b - c) + 0 = a * b - a * c
  BY <1>3
<1>8. (a * b - a * c) \div a = b - c
  BY <1>6, <1>7
<1> QED BY <1>2, <1>4, <1>5, <1>8, Zenon

(* prefix_length() of the mask of n ones is n. *)
LEMMA PrefixOfMask ==
  ASSUME NEW n \in 0 .. Width, NEW mask, mask = 2^Width - 2^(Width - n)
  PROVE  /\ prefix_length(mask) = n
         /\ mask \in Addresses
         /\ mask = 0 <=> n = 0
<1> DEFINE S == {k \in 0 .. Width : mask \div 2^(Width - k) = 2^k - 1}
<1>1. n \in Nat /\ Width \in Nat /\ n <= Width /\ Width - n \in Nat
  BY WidthAssumption
<1>2. 2^0 = 1
  OBVIOUS
<1>3. n \in S
  <2>1. n \in n .. Width /\ n - n = 0
    BY <1>1
  <2>2. mask \div 2^(Width - n) = 2^n - 2^(n - n)
    BY <2>1, MaskQuotient, Zenon
  <2> QED BY <1>2, <2>1, <2>2, Zenon
<1>4. ASSUME NEW k \in S PROVE k <= n
  <2> SUFFICES ASSUME k > n PROVE FALSE
    BY <1>1
  <2>1. k \in n .. Width /\ k - n \in Nat /\ k - n >= 1 /\ k \in Nat
    BY <1>1
  <2>2. mask \div 2^(Width - k) = 2^k - 2^(k - n)
    BY <2>1, MaskQuotient, Zenon
  <2>3. mask \div 2^(Width - k) = 2^k - 1
    OBVIOUS
  <2>4. 2^k \in Nat /\ 2^(k - n) \in Nat /\ 2^(k - n) >= 2
    BY <2>1, PowerFacts
  <2> QED BY <2>2, <2>3, <2>4
<1>5. Max(S) = n
  <2>0. S \subseteq 0 .. Width
    OBVIOUS
  <2> HIDE DEF S
  <2>1. S # {} /\ S \subseteq 0 .. Width /\ S \subseteq Nat
    BY <1>1, <1>3, <2>0
  <2>2. Max(S) \in S /\ \A y \in S : Max(S) >= y
    BY <1>1, <2>1, MaxFacts
  <2>3. Max(S) >= n /\ Max(S) <= n /\ Max(S) \in Nat
    BY <1>3, <1>4, <2>1, <2>2
  <2> QED BY <1>1, <2>3
<1>6. prefix_length(mask) = n
  BY <1>5, Zenon DEF prefix_length
<1>7. /\ 2^(Width - n) \in Nat /\ 2^(Width - n) >= 1 /\ 2^Width \in Nat
      /\ 2^(Width - n) <= 2^Width
  <2>1. Width \in n .. Width /\ Width - n \in Nat
    BY <1>1
  <2> QED BY <1>1, <2>1, PowerFacts, MaskQuotient
<1>8. mask \in Addresses
  BY <1>7 DEF Addresses
<1>9. n = 0 => mask = 0
  <2> SUFFICES ASSUME n = 0 PROVE mask = 0
    OBVIOUS
  <2>1. Width - n = Width
    BY <1>1
  <2> QED BY <1>7, <2>1
<1>10. mask = 0 => n = 0
  <2> SUFFICES ASSUME mask = 0, n # 0 PROVE FALSE
    OBVIOUS
  <2>1. 2^Width = 2^(Width - n) * 2^n
    <3>1. Width = (Width - n) + n
      BY <1>1
    <3> QED BY <1>1, <3>1, PowerOfSum, Zenon
  <2>2. 2^n \in Nat /\ 2^n >= 2
    BY <1>1, PowerFacts
  <2>3. 2^(Width - n) = 2^Width
    BY <1>7
  <2>4. PICK a, b : a = 2^(Width - n) /\ b = 2^n
    OBVIOUS
  <2>5. a \in Nat /\ a >= 1 /\ b \in Nat /\ b >= 2 /\ a = a * b
    BY <1>7, <2>1, <2>2, <2>3, <2>4
  <2>6. a * 1 + a <= a * b
    <3>1. 1 < b
      BY <2>5
    <3> QED BY <2>5, <3>1, ProductFacts
  <2> QED BY <2>5, <2>6
<1> QED BY <1>6, <1>8, <1>9, <1>10

-----------------------------------------------------------------------------
(* The subnet of an interface                                              *)

Interfaces(i) == i.address \in Addresses /\ i.mask \in Masks

(* What the loops and the property use of the arithmetic: h addresses from *)
(* first on, and none beyond the address space.                            *)
SubnetIs(i, prefix, first, h) ==
  /\ prefix = prefix_length(i.mask) /\ prefix \in 0 .. Width
  /\ i.mask = 0 <=> prefix = 0
  /\ h = 2^(Width - prefix) /\ h \in Nat /\ h >= 1
  /\ prefix = Width => h = 1
  /\ prefix = Width - 1 => h = 2
  /\ prefix < Width - 1 => h >= 4
  /\ first = network(i) /\ first \in Nat /\ first + h <= 2^Width
  /\ broadcast(i) = first + h - 1
  /\ i.address \in Nat /\ i.address >= first /\ i.address < first + h
  /\ {a \in Addresses : a \div h = i.address \div h} = first .. first + h - 1

(* The addresses with the prefix of the interface are those from network() *)
(* to broadcast().                                                         *)
LEMMA SubnetFacts ==
  ASSUME NEW i, Interfaces(i)
  PROVE  \E prefix, first, h : SubnetIs(i, prefix, first, h)
<1>1. PICK p \in 0 .. Width : i.mask = 2^Width - 2^(Width - p)
  BY DEF Interfaces, Masks
<1>2. prefix_length(i.mask) = p /\ (i.mask = 0 <=> p = 0)
  BY <1>1, PrefixOfMask
<1>3. p \in Nat /\ Width \in Nat /\ Width - p \in Nat /\ Width = p + (Width - p)
  BY WidthAssumption
<1>4. PICK h : h = 2^(Width - p)
  OBVIOUS
<1>5. h \in Nat /\ h >= 1 /\ (Width - p >= 2 => h >= 4)
  BY <1>3, <1>4, PowerFacts
<1>6. (p = Width => h = 1) /\ (p = Width - 1 => h = 2)
  <2>1. CASE p = Width
    <3>1. Width - p = 0
      BY <1>3, <2>1
    <3>2. 2^0 = 1
      OBVIOUS
    <3> QED BY <1>3, <1>4, <2>1, <3>1, <3>2
  <2>2. CASE p = Width - 1
    <3>1. Width - p = 1
      BY <1>3, <2>2
    <3>2. 2^1 = 2
      OBVIOUS
    <3> QED BY <1>3, <1>4, <2>2, <3>1, <3>2
  <2> QED BY <2>1, <2>2
<1>7. PICK c : c = 2^p
  OBVIOUS
<1>8. c \in Nat /\ 2^Width = h * c /\ 2^Width \in Nat
  <2>1. c \in Nat /\ 2^Width \in Nat
    BY <1>3, <1>7, PowerFacts
  <2>2. 2^(p + (Width - p)) = 2^p * 2^(Width - p)
    BY <1>3, PowerOfSum, Zenon
  <2>3. 2^Width = c * h
    BY <1>3, <1>4, <1>7, <2>2, Zenon
  <2> QED BY <1>5, <2>1, <2>3
<1>9. i.address \in Nat /\ i.address < 2^Width
  BY <1>8 DEF Interfaces, Addresses
<1>10. PICK a \in Nat : a = i.address
  BY <1>9
<1>11. PICK q \in Nat, r \in 0 .. h - 1 : q = a \div h /\ r = a % h /\ a = h * q + r
  BY <1>5, DivFacts
<1>12. q < c
  <2> SUFFICES ASSUME c <= q PROVE FALSE
    BY <1>8
  <2>1. CASE c = q
    <3>1. h * c \in Nat /\ a < h * c /\ a = h * c + r
      BY <1>8, <1>9, <1>10, <1>11, <2>1
    <3> QED BY <1>5, <3>1
  <2>2. CASE c < q
    <3>1. h * c + h <= h * q /\ h * c \in Nat /\ h * q \in Nat
      BY <1>5, <1>8, <2>2, ProductFacts
    <3> QED BY <1>5, <1>8, <1>9, <1>10, <1>11, <3>1
  <2> QED BY <1>8, <2>1, <2>2
<1>13. h * q \in Nat /\ h * q + h <= 2^Width
  BY <1>5, <1>8, <1>12, ProductFacts
<1>14. PICK first \in Nat : first = h * q
  BY <1>13
<1>15. HostBits(i) = h
  BY <1>2, <1>4, Zenon DEF HostBits
<1>16. network(i) = first
  <2>1. network(i) = a - (a % h)
    BY <1>10, <1>15, Zenon DEF network
  <2> QED BY <1>5, <1>11, <1>14, <2>1
<1>17. broadcast(i) = first + h - 1
  BY <1>15, <1>16, Zenon DEF broadcast
<1>18. {x \in Addresses : x \div h = a \div h} = first .. first + h - 1
  <2>1. ASSUME NEW x \in Addresses, x \div h = q PROVE x \in first .. first + h - 1
    <3>1. x \in Nat
      BY <1>8 DEF Addresses
    <3>2. x = h * (x \div h) + (x % h) /\ x % h \in 0 .. h - 1
      BY <1>5, <3>1, DivFacts
    <3>3. PICK s \in 0 .. h - 1 : x = first + s
      BY <1>14, <2>1, <3>2
    <3> QED BY <1>5, <3>3
  <2>2. ASSUME NEW x \in first .. first + h - 1 PROVE x \in Addresses /\ x \div h = q
    <3>1. PICK s \in 0 .. h - 1 : x = first + s
      <4>1. x - first \in 0 .. h - 1 /\ x = first + (x - first)
        BY <1>5
      <4> QED BY <4>1
    <3>2. x \div h = q
      BY <1>5, <1>14, <3>1, DivUnique
    <3>3. x \in Addresses
      BY <1>5, <1>8, <1>13, <1>14, <3>1 DEF Addresses
    <3> QED BY <3>2, <3>3
  <2> QED BY <1>11, <2>1, <2>2
<1>19. a >= first /\ a < first + h
  BY <1>5, <1>11, <1>14
<1>20. SubnetIs(i, p, first, h)
  <2>1. p < Width - 1 => h >= 4
    BY <1>3, <1>5
  <2>2. first + h <= 2^Width
    BY <1>13, <1>14
  <2> QED BY <1>2, <1>4, <1>5, <1>6, <1>10, <1>16, <1>17, <1>18, <1>19, <2>1, <2>2
          DEF SubnetIs
<1> QED BY <1>20

-----------------------------------------------------------------------------
(* The loops of enumerate_subnet_hosts()                                   *)

(* A list of the addresses from lo to before hi without the PC's own. *)
Collected(list, own, lo, hi) ==
  /\ list \in Seq(Nat)
  /\ Range(list) = (lo .. hi - 1) \ {own}
  /\ \A i, j \in DOMAIN list : i < j => list[i] < list[j]
  /\ Len(list) = IF own \in lo .. hi - 1 THEN hi - lo - 1 ELSE hi - lo

(* Where the loops start and end, of an interface whose subnet is swept. *)
FirstHost(i) == IF prefix_length(i.mask) >= Width - 1 THEN network(i) ELSE network(i) + 1
EndOfHosts(i) == IF prefix_length(i.mask) >= Width - 1 THEN broadcast(i) + 1 ELSE broadcast(i)

AtHosts == {"start", "link", "subnet", "done"}

(* The loop invariant: the interface is one with an address and a mask,    *)
(* and what was collected ends before the loop variable.                   *)
LoopInv ==
  /\ Allowed(prefix_length(iface.mask))
  /\ at = "link" <=> prefix_length(iface.mask) >= Width - 1
  /\ address \in FirstHost(iface) .. broadcast(iface)
  /\ Collected(hosts, iface.address, FirstHost(iface), address)

HostsInv ==
  /\ at \in AtHosts => Interfaces(iface)
  /\ at \in {"link", "subnet"} => LoopInv
  /\ at = "done" =>
       IF Allowed(prefix_length(iface.mask))
         THEN Collected(hosts, iface.address, FirstHost(iface), EndOfHosts(iface))
         ELSE hosts = <<>>
  /\ at \notin {"link", "subnet", "done"} => hosts = <<>>

(* Before the first turn nothing is collected. *)
LEMMA NothingCollected ==
  ASSUME NEW own \in Nat, NEW lo \in Nat
  PROVE  Collected(<<>>, own, lo, lo)
<1>1. Range(<<>>) = {}
  BY DEF Range
<1>2. lo .. lo - 1 = {}
  OBVIOUS
<1> QED BY <1>1, <1>2 DEF Collected

(* One turn collects one address, if it is not the PC's own. *)
LEMMA TurnCollects ==
  ASSUME NEW own \in Nat, NEW lo \in Nat, NEW hi \in Nat, lo <= hi,
         NEW list, Collected(list, own, lo, hi)
  PROVE  Collected(IF hi = own THEN list ELSE Append(list, hi), own, lo, hi + 1)
<1>1. list \in Seq(Nat) /\ DOMAIN list = 1 .. Len(list) /\ Len(list) \in Nat
  BY DEF Collected
<1>2. \A k \in DOMAIN list : list[k] \in lo .. hi - 1
  BY DEF Collected, Range
<1>3. lo .. hi + 1 - 1 = (lo .. hi - 1) \cup {hi} /\ hi \notin lo .. hi - 1
  OBVIOUS
<1>4. CASE hi = own
  <2>1. (lo .. hi + 1 - 1) \ {own} = (lo .. hi - 1) \ {own}
    BY <1>3, <1>4
  <2>2. own \in lo .. hi + 1 - 1 /\ own \notin lo .. hi - 1
    BY <1>3, <1>4
  <2>3. Len(list) = hi + 1 - lo - 1
    BY <2>2 DEF Collected
  <2> QED BY <1>4, <2>1, <2>2, <2>3 DEF Collected
<1>5. CASE hi # own
  <2>1. PICK new : new = Append(list, hi)
    OBVIOUS
  <2>2. /\ new \in Seq(Nat) /\ Len(new) = Len(list) + 1 /\ DOMAIN new = 1 .. Len(list) + 1
        /\ new[Len(list) + 1] = hi /\ \A k \in 1 .. Len(list) : new[k] = list[k]
    BY <1>1, <2>1
  <2>3. Range(new) = Range(list) \cup {hi}
    BY <1>1, <2>2, SMTT(20) DEF Range
  <2>4. Range(new) = (lo .. hi + 1 - 1) \ {own}
    BY <1>3, <1>5, <2>3 DEF Collected
  <2>5. ASSUME NEW j \in DOMAIN new, NEW k \in DOMAIN new, j < k PROVE new[j] < new[k]
    <3>1. CASE k = Len(list) + 1
      <4>1. j \in DOMAIN list
        BY <1>1, <2>2, <2>5, <3>1
      <4>2. new[j] = list[j] /\ list[j] \in lo .. hi - 1
        BY <1>1, <1>2, <2>2, <4>1
      <4> QED BY <2>2, <3>1, <4>2
    <3>2. CASE k # Len(list) + 1
      <4>1. j \in DOMAIN list /\ k \in DOMAIN list
        BY <1>1, <2>2, <2>5, <3>2, SMTT(20)
      <4>2. list[j] < list[k]
        BY <2>5, <4>1 DEF Collected
      <4> QED BY <1>1, <2>2, <4>1, <4>2
    <3> QED BY <3>1, <3>2
  <2>6. own \in lo .. hi + 1 - 1 <=> own \in lo .. hi - 1
    BY <1>3, <1>5
  <2>7. Len(new) = IF own \in lo .. hi + 1 - 1 THEN hi + 1 - lo - 1 ELSE hi + 1 - lo
    BY <1>1, <2>2, <2>6 DEF Collected
  <2>8. Collected(new, own, lo, hi + 1)
    BY <2>2, <2>4, <2>5, <2>7 DEF Collected
  <2> QED BY <1>5, <2>1, <2>8
<1> QED BY <1>4, <1>5

(* A step of the enumeration keeps the loop invariant: no turn skips or    *)
(* repeats an address, and the addition does not wrap around before the    *)
(* end.                                                                    *)
LEMMA HostsStep ==
  ASSUME HostsInv, Start \/ LinkTurn \/ SubnetTurn
  PROVE  HostsInv'
<1>1. at \in AtHosts /\ Interfaces(iface) /\ iface' = iface
  BY DEF HostsInv, AtHosts, Start, LinkTurn, SubnetTurn
<1>2. PICK p, first, h : SubnetIs(iface, p, first, h)
  BY <1>1, SubnetFacts
<1>3. PICK own \in Nat : own = iface.address
  BY <1>2 DEF SubnetIs
<1>4. /\ p = prefix_length(iface.mask) /\ p \in 0 .. Width /\ Width \in Nat
      /\ h \in Nat /\ h >= 1 /\ (p = Width => h = 1) /\ (p = Width - 1 => h = 2)
      /\ (p < Width - 1 => h >= 4)
      /\ first = network(iface) /\ first \in Nat /\ first + h <= 2^Width
      /\ broadcast(iface) = first + h - 1 /\ 2^Width \in Nat
  <2>1. Width \in Nat /\ 2^Width \in Nat
    BY WidthAssumption, PowerFacts
  <2> QED BY <1>2, <2>1 DEF SubnetIs
<1>5. \A x \in Nat : x < first + h => Plus(x, 1) = IF x + 1 = 2^Width THEN 0 ELSE x + 1
  <2> SUFFICES ASSUME NEW x \in Nat, x < first + h
               PROVE  Plus(x, 1) = IF x + 1 = 2^Width THEN 0 ELSE x + 1
    OBVIOUS
  <2>1. PICK m \in Nat : m = 2^Width /\ x + 1 <= m /\ m >= 1
    BY <1>4
  <2>2. (x + 1) % m = IF x + 1 = m THEN 0 ELSE x + 1
    <3>1. CASE x + 1 = m
      <4>1. 1 \in Nat /\ 0 \in 0 .. m - 1
        BY <2>1
      <4>2. (m * 1 + 0) % m = 0 /\ m * 1 + 0 = x + 1
        BY <2>1, <3>1, <4>1, DivUnique
      <4> QED BY <3>1, <4>2
    <3>2. CASE x + 1 # m
      <4>1. 0 \in Nat /\ x + 1 \in 0 .. m - 1
        BY <2>1, <3>2
      <4>2. (m * 0 + (x + 1)) % m = x + 1 /\ m * 0 + (x + 1) = x + 1
        BY <2>1, <4>1, DivUnique
      <4> QED BY <3>2, <4>2
    <3> QED BY <3>1, <3>2
  <2> QED BY <2>1, <2>2 DEF Plus
<1>6. /\ p >= Width - 1 => FirstHost(iface) = first /\ EndOfHosts(iface) = first + h
      /\ p < Width - 1 => FirstHost(iface) = first + 1 /\ EndOfHosts(iface) = first + h - 1
  BY <1>4 DEF FirstHost, EndOfHosts
<1>7. /\ FirstHost(iface)' = FirstHost(iface) /\ EndOfHosts(iface)' = EndOfHosts(iface)
      /\ Interfaces(iface)' /\ broadcast(iface)' = broadcast(iface)
      /\ Allowed(prefix_length(iface.mask))' <=> Allowed(prefix_length(iface.mask))
  BY <1>1 DEF FirstHost, EndOfHosts, Interfaces, Allowed, network, broadcast, prefix_length, HostBits
<1> DEFINE swept == Allowed(prefix_length(iface.mask))
<1>8. ASSUME at' \in {"link", "subnet"}, swept, at' = "link" <=> p >= Width - 1,
             address' \in FirstHost(iface) .. first + h - 1,
             Collected(hosts', own, FirstHost(iface), address')
      PROVE  HostsInv'
  <2>1. LoopInv'
    BY <1>1, <1>3, <1>4, <1>7, <1>8 DEF LoopInv
  <2> QED BY <1>7, <1>8, <2>1 DEF HostsInv, AtHosts
<1>9. ASSUME at' = "done",
             IF swept THEN Collected(hosts', own, FirstHost(iface), EndOfHosts(iface))
             ELSE hosts' = <<>>
      PROVE  HostsInv'
  BY <1>1, <1>3, <1>7, <1>9 DEF HostsInv, AtHosts
<1>10. CASE Start
  <2>1. hosts' = hosts /\ hosts = <<>>
    BY <1>10 DEF Start, HostsInv
  <2>2. CASE ~Allowed(p)
    <3>1. at' = "done"
      BY <1>4, <1>10, <2>2 DEF Start
    <3> QED BY <1>4, <1>9, <2>1, <2>2, <3>1
  <2>3. CASE Allowed(p) /\ p >= Width - 1
    <3>1. at' = "link" /\ address' = first
      BY <1>4, <1>10, <2>3 DEF Start
    <3>2. Collected(hosts', own, first, first)
      BY <1>4, <2>1, NothingCollected
    <3>3. first \in first .. first + h - 1 /\ FirstHost(iface) = first
      BY <1>4, <1>6, <2>3
    <3> QED BY <1>4, <1>8, <2>3, <3>1, <3>2, <3>3
  <2>4. CASE Allowed(p) /\ p < Width - 1
    <3>1. at' = "subnet" /\ address' = Plus(first, 1)
      BY <1>4, <1>10, <2>4 DEF Start
    <3>2. Plus(first, 1) = first + 1 /\ first + 1 \in Nat
      BY <1>4, <1>5, <2>4
    <3>3. Collected(hosts', own, first + 1, first + 1)
      BY <2>1, <3>2, NothingCollected
    <3>4. first + 1 \in first + 1 .. first + h - 1 /\ FirstHost(iface) = first + 1
      BY <1>4, <1>6, <2>4
    <3>5. ~(p >= Width - 1)
      BY <1>4, <2>4
    <3> QED BY <1>4, <1>8, <2>4, <3>1, <3>2, <3>3, <3>4, <3>5
  <2> QED BY <1>4, <2>2, <2>3, <2>4
<1>11. CASE LinkTurn
  <2>1. /\ swept /\ p >= Width - 1 /\ p \in {Width, Width - 1}
        /\ FirstHost(iface) = first /\ EndOfHosts(iface) = first + h
        /\ address \in first .. first + h - 1 /\ address \in Nat
        /\ Collected(hosts, own, first, address)
    BY <1>3, <1>4, <1>6, <1>11 DEF LinkTurn, HostsInv, LoopInv
  <2>2. hosts' = IF address = own THEN hosts ELSE Append(hosts, address)
    BY <1>3, <1>11 DEF LinkTurn, Keep
  <2>3. Collected(hosts', own, first, address + 1)
    <3>1. first \in Nat /\ first <= address
      BY <1>4, <2>1
    <3> QED BY <2>1, <2>2, <3>1, TurnCollects, SMTT(20)
  <2>4. LinkCount = h
    BY <1>4, <2>1 DEF LinkCount
  <2>5. /\ address' = Plus(address, 1)
        /\ at' = IF Plus(address, 1) = Plus(first, h) THEN "done" ELSE "link"
    BY <1>4, <1>11, <2>4 DEF LinkTurn
  <2>6. Plus(first, h) = IF first + h = 2^Width THEN 0 ELSE first + h
    <3>1. first + h - 1 \in Nat /\ first + h - 1 < first + h /\ first + h - 1 + 1 = first + h
      BY <1>4
    <3>2. Plus(first + h - 1, 1) = IF first + h = 2^Width THEN 0 ELSE first + h
      BY <1>5, <3>1
    <3> QED BY <3>1, <3>2 DEF Plus
  <2>7. Plus(address, 1) = IF address + 1 = 2^Width THEN 0 ELSE address + 1
    BY <1>4, <1>5, <2>1
  <2>8. CASE address = first + h - 1
    <3>1. at' = "done" /\ address + 1 = first + h
      BY <1>4, <2>5, <2>6, <2>7, <2>8
    <3> QED BY <1>9, <2>1, <2>3, <3>1
  <2>9. CASE address # first + h - 1
    <3>1. address + 1 < first + h /\ address + 1 \in first .. first + h - 1
      BY <1>4, <2>1, <2>9
    <3>2. address' = address + 1 /\ at' = "link"
      BY <1>4, <2>1, <2>5, <2>6, <2>7, <3>1
    <3> QED BY <1>8, <2>1, <2>3, <3>1, <3>2
  <2> QED BY <2>8, <2>9
<1>12. CASE SubnetTurn
  <2>1. /\ swept /\ p < Width - 1
        /\ FirstHost(iface) = first + 1 /\ EndOfHosts(iface) = first + h - 1
        /\ address \in first + 1 .. first + h - 1 /\ address \in Nat
        /\ Collected(hosts, own, first + 1, address)
    BY <1>3, <1>4, <1>6, <1>12 DEF SubnetTurn, HostsInv, LoopInv
  <2>2. CASE address < first + h - 1
    <3>1. /\ hosts' = IF address = own THEN hosts ELSE Append(hosts, address)
          /\ address' = Plus(address, 1) /\ at' = "subnet"
      BY <1>3, <1>4, <1>12, <2>2 DEF SubnetTurn, InLoop, Keep
    <3>2. Collected(hosts', own, first + 1, address + 1)
      <4>1. first + 1 \in Nat /\ first + 1 <= address
        BY <1>4, <2>1
      <4> QED BY <2>1, <3>1, <4>1, TurnCollects
    <3>3. address' = address + 1 /\ address + 1 \in first + 1 .. first + h - 1
      BY <1>4, <1>5, <2>1, <2>2, <3>1, SMTT(20)
    <3>4. ~(p >= Width - 1)
      BY <1>4, <2>1
    <3> QED BY <1>8, <2>1, <3>1, <3>2, <3>3, <3>4
  <2>3. CASE ~(address < first + h - 1)
    <3>1. at' = "done" /\ hosts' = hosts
      BY <1>4, <1>12, <2>3 DEF SubnetTurn, InLoop
    <3>2. address = first + h - 1
      BY <1>4, <2>1, <2>3
    <3> QED BY <1>9, <2>1, <3>1, <3>2
  <2> QED BY <2>2, <2>3
<1> QED BY <1>10, <1>11, <1>12

(* What the loops have collected when they end is every host once. *)
LEMMA CollectedIsEveryHost ==
  ASSUME HostsInv PROVE EveryHostOnce
<1> SUFFICES ASSUME at = "done" PROVE EveryHostOnce
  BY DEF EveryHostOnce
<1>1. /\ Interfaces(iface)
      /\ IF Allowed(prefix_length(iface.mask))
           THEN Collected(hosts, iface.address, FirstHost(iface), EndOfHosts(iface))
           ELSE hosts = <<>>
  BY DEF HostsInv, AtHosts
<1>2. PICK p, first, h : SubnetIs(iface, p, first, h)
  BY <1>1, SubnetFacts
<1>3. PICK own \in Nat : own = iface.address
  BY <1>2 DEF SubnetIs
<1>4. /\ p = prefix_length(iface.mask) /\ p \in 0 .. Width /\ Width \in Nat
      /\ h \in Nat /\ h >= 1 /\ (p = Width => h = 1) /\ (p = Width - 1 => h = 2)
      /\ (p < Width - 1 => h >= 4) /\ h = 2^(Width - p)
      /\ first = network(iface) /\ first \in Nat
      /\ broadcast(iface) = first + h - 1
      /\ own >= first /\ own < first + h
      /\ (iface.mask = 0 <=> p = 0)
  BY <1>2, <1>3, WidthAssumption DEF SubnetIs
<1> DEFINE subnet == {a \in Addresses : a \div 2^(Width - p) = own \div 2^(Width - p)}
           ends == IF p >= Width - 1 THEN {} ELSE {network(iface), broadcast(iface)}
<1>5. subnet = first .. first + h - 1
  BY <1>2, <1>3, <1>4, Zenon DEF SubnetIs
<1> HIDE DEF subnet
<1>6. Allowed(p) <=> p >= min_prefix /\ p > 0
  BY <1>4 DEF Allowed
<1>7. ASSUME p >= min_prefix, p > 0
      PROVE  /\ Range(hosts) = subnet \ (ends \cup {own})
             /\ \A i, j \in DOMAIN hosts : i < j => hosts[i] < hosts[j]
             /\ Len(hosts) + Cardinality({own} \ ends) = usable_host_count(iface)
  <2>0. Allowed(prefix_length(iface.mask))
    BY <1>4, <1>6, <1>7
  <2>1. Collected(hosts, own, FirstHost(iface), EndOfHosts(iface))
    BY <1>1, <1>3, <2>0
  <2>2. \A i, j \in DOMAIN hosts : i < j => hosts[i] < hosts[j]
    BY <2>1 DEF Collected
  <2>3. Cardinality({own}) = 1 /\ Cardinality({}) = 0
    BY FS_Singleton, FS_EmptySet
  <2>4. CASE p >= Width - 1
    <3>1. FirstHost(iface) = first /\ EndOfHosts(iface) = first + h /\ ends = {}
      BY <1>4, <2>4 DEF FirstHost, EndOfHosts
    <3> HIDE DEF ends
    <3>0. PICK end \in Nat : end = first + h
      BY <1>4
    <3>2. Collected(hosts, own, first, end)
      BY <2>1, <3>0, <3>1
    <3>3. own \in first .. end - 1
      BY <1>4, <3>0
    <3>4. Len(hosts) = h - 1
      <4>1. Len(hosts) = end - first - 1
        BY <3>2, <3>3, Zenon DEF Collected
      <4> QED BY <1>4, <3>0, <4>1
    <3>5. usable_host_count(iface) = h
      BY <1>4, <2>4 DEF usable_host_count
    <3>6. {own} \ ends = {own}
      BY <3>1
    <3>7. Range(hosts) = subnet \ (ends \cup {own})
      <4>1. Range(hosts) = (first .. end - 1) \ {own}
        BY <3>2, Zenon DEF Collected
      <4>2. first .. end - 1 = first .. first + h - 1
        BY <1>4, <3>0
      <4> QED BY <1>5, <3>1, <4>1, <4>2
    <3>8. Cardinality({own} \ ends) = 1
      BY <2>3, <3>6, Zenon
    <3>9. Len(hosts) + Cardinality({own} \ ends) = h
      BY <1>4, <3>4, <3>8
    <3> QED BY <2>2, <3>5, <3>7, <3>9, Zenon
  <2>5. CASE p < Width - 1
    <3>1. /\ FirstHost(iface) = first + 1 /\ EndOfHosts(iface) = first + h - 1
          /\ ends = {first, first + h - 1}
      BY <1>4, <2>5 DEF FirstHost, EndOfHosts
    <3> HIDE DEF ends
    <3>0. PICK start \in Nat, end \in Nat : start = first + 1 /\ end = first + h - 1
      BY <1>4
    <3>2. Collected(hosts, own, start, end)
      BY <2>1, <3>0, <3>1
    <3>3. Range(hosts) = subnet \ (ends \cup {own})
      <4>1. (start .. end - 1) = (first .. first + h - 1) \ {first, first + h - 1}
        BY <1>4, <2>5, <3>0
      <4>2. Range(hosts) = (start .. end - 1) \ {own}
        BY <3>2, Zenon DEF Collected
      <4> QED BY <1>5, <3>1, <4>1, <4>2
    <3>4. usable_host_count(iface) = h - 2
      BY <1>4, <2>5 DEF usable_host_count
    <3>5. CASE own \in ends
      <4>1. {own} \ ends = {} /\ own \notin start .. end - 1
        BY <1>4, <3>0, <3>1, <3>5
      <4>2. Len(hosts) = end - start
        BY <3>2, <4>1, Zenon DEF Collected
      <4>3. Cardinality({own} \ ends) = 0
        BY <2>3, <4>1, Zenon
      <4>4. Len(hosts) + Cardinality({own} \ ends) = h - 2
        <5>1. PICK c, n : c = Cardinality({own} \ ends) /\ n = Len(hosts)
          OBVIOUS
        <5>2. n = end - start /\ c = 0
          BY <4>2, <4>3, <5>1, Zenon
        <5>3. first \in Nat /\ h \in Nat
          BY <1>4
        <5>4. n + c = h - 2
          BY <3>0, <5>2, <5>3
        <5> QED BY <5>1, <5>4, Zenon
      <4> QED BY <2>2, <3>3, <3>4, <4>4, Zenon
    <3>6. CASE own \notin ends
      <4>1. {own} \ ends = {own} /\ own \in start .. end - 1
        BY <1>4, <3>0, <3>1, <3>6
      <4>2. Len(hosts) = end - start - 1
        BY <3>2, <4>1, Zenon DEF Collected
      <4>3. Cardinality({own} \ ends) = 1
        BY <2>3, <4>1, Zenon
      <4>4. Len(hosts) + Cardinality({own} \ ends) = h - 2
        <5>1. PICK c, n : c = Cardinality({own} \ ends) /\ n = Len(hosts)
          OBVIOUS
        <5>2. n = end - start - 1 /\ c = 1
          BY <4>2, <4>3, <5>1, Zenon
        <5>3. first \in Nat /\ h \in Nat
          BY <1>4
        <5>4. n + c = h - 2
          BY <3>0, <5>2, <5>3
        <5> QED BY <5>1, <5>4, Zenon
      <4> QED BY <2>2, <3>3, <3>4, <4>4, Zenon
    <3> QED BY <3>5, <3>6
  <2>6. p >= Width - 1 \/ p < Width - 1
    BY <1>4
  <2> QED BY <2>4, <2>5, <2>6, Zenon
<1>8. ASSUME ~(p >= min_prefix /\ p > 0) PROVE hosts = <<>>
  BY <1>1, <1>4, <1>6, <1>8
<1> QED BY <1>3, <1>4, <1>7, <1>8, Zenon DEF EveryHostOnce, subnet, ends

(* The enumeration by itself, of any interface: every host of the subnet   *)
(* is returned once and in ascending order, without network, broadcast and *)
(* the PC's own address, at both ends of the address space as in between   *)
(* (enumerate_subnet_hosts).                                               *)
THEOREM EnumerationIsComplete == Spec => []EveryHostOnce
<1>1. Init => HostsInv
  BY DEF Init, HostsInv, AtHosts, Interfaces
<1>2. HostsInv /\ [Next]_vars => HostsInv'
  <2> SUFFICES ASSUME HostsInv, [Next]_vars PROVE HostsInv'
    OBVIOUS
  <2>1. CASE Start \/ LinkTurn \/ SubnetTurn
    BY <2>1, HostsStep
  <2>2. CASE UNCHANGED vars
    BY <2>2 DEF vars, HostsInv, LoopInv, AtHosts, Interfaces, Allowed, FirstHost,
                EndOfHosts, network, broadcast, prefix_length, HostBits
  <2> QED BY <2>1, <2>2 DEF Next
<1> QED BY <1>1, <1>2, CollectedIsEveryHost, PTL DEF Spec

-----------------------------------------------------------------------------
(* Dotted text                                                             *)

(* Dividing by a product is dividing by one factor and then the other. *)
LEMMA DivTwice ==
  ASSUME NEW a \in Nat, NEW m \in Nat, m >= 1, NEW n \in Nat, n >= 1
  PROVE  a \div (m * n) = (a \div m) \div n /\ m * n \in Nat /\ m * n >= 1
<1>1. PICK q \in Nat, r \in 0 .. m - 1 : q = a \div m /\ a = m * q + r
  BY DivFacts
<1>2. PICK k \in Nat, s \in 0 .. n - 1 : k = q \div n /\ q = n * k + s
  BY DivFacts
<1>3. PICK p \in Nat : p = m * n
  OBVIOUS
<1>4. a = p * k + (m * s + r)
  <2>1. m * (n * k + s) = m * n * k + m * s /\ m * n * k \in Nat /\ m * s \in Nat
    OBVIOUS
  <2>2. a = m * (n * k + s) + r
    BY <1>1, <1>2
  <2>3. PICK x \in Nat, y \in Nat : x = m * n * k /\ y = m * s
    BY <2>1
  <2>4. a = (x + y) + r /\ x = p * k
    BY <1>3, <2>1, <2>2, <2>3
  <2>5. (x + y) + r = x + (y + r)
    OBVIOUS
  <2> QED BY <2>3, <2>4, <2>5
<1>5. m * s \in Nat /\ m * s + m <= p
  <2>1. s \in Nat /\ s < n
    OBVIOUS
  <2> QED BY <1>3, <2>1, ProductFacts
<1>6. m * s + r \in 0 .. p - 1 /\ p >= 1
  BY <1>5
<1>7. (p * k + (m * s + r)) \div p = k
  BY <1>6, DivUnique
<1> QED BY <1>1, <1>2, <1>3, <1>4, <1>6, <1>7

(* The four numbers of an address, as quotients and remainders of Octet. *)
LEMMA OctetFacts ==
  /\ Octet \in Nat /\ Octet >= 1
  /\ Width \div 4 \in Nat
  /\ 2^(0 * (Width \div 4)) = 1
  /\ 2^(1 * (Width \div 4)) = Octet
  /\ 2^(2 * (Width \div 4)) = Octet * Octet
  /\ 2^(3 * (Width \div 4)) = Octet * Octet * Octet
  /\ 2^Width = Octet * Octet * Octet * Octet
<1>1. PICK w : w = Width \div 4
  OBVIOUS
<1>2. w \in Nat /\ Width = 4 * w
  BY <1>1, WidthAssumption, MachineAssumption
<1>3. PICK o : o = 2^w
  OBVIOUS
<1>4. Octet = o /\ o \in Nat /\ o >= 1
  BY <1>1, <1>2, <1>3, PowerFacts DEF Octet
<1>5. 0 * w = 0 /\ 1 * w = w /\ 2 * w = w + w /\ 3 * w = 2 * w + w /\ Width = 3 * w + w
      /\ 2 * w \in Nat /\ 3 * w \in Nat
  BY <1>2
<1>6. 2^0 = 1
  OBVIOUS
<1>7. 2^(w + w) = 2^w * 2^w
  BY <1>2, PowerOfSum, Zenon
<1>8. 2^(2 * w + w) = 2^(2 * w) * 2^w
  BY <1>2, <1>5, PowerOfSum, Zenon
<1>9. 2^(3 * w + w) = 2^(3 * w) * 2^w
  BY <1>2, <1>5, PowerOfSum, Zenon
<1>10. 2^(2 * w) = o * o
  BY <1>3, <1>5, <1>7, Zenon
<1>11. 2^(3 * w) = o * o * o
  BY <1>3, <1>5, <1>8, <1>10, Zenon
<1>12. 2^Width = o * o * o * o
  BY <1>3, <1>5, <1>9, <1>11, Zenon
<1>13. 2^(0 * w) = 1 /\ 2^(1 * w) = o
  BY <1>3, <1>5, <1>6, Zenon
<1> QED BY <1>1, <1>2, <1>4, <1>10, <1>11, <1>12, <1>13, Zenon

(* parse_ipv4() reads back what to_dotted() wrote. *)
LEMMA DottedReadsBack ==
  ASSUME NEW a \in Addresses
  PROVE  /\ parse_ipv4(to_dotted(a)) = a
         /\ to_dotted(a) # NoText
<1>0. a \in Nat
  <2>1. 2^Width \in Nat
    BY WidthAssumption, PowerFacts
  <2> QED BY <2>1 DEF Addresses
<1>1. PICK o \in Nat : o = Octet /\ o >= 1
  BY OctetFacts
<1>2. PICK w \in Nat : w = Width \div 4
  BY OctetFacts
<1>3. /\ 2^(0 * w) = 1 /\ 2^(1 * w) = o /\ 2^(2 * w) = o * o /\ 2^(3 * w) = o * o * o
      /\ 2^Width = o * o * o * o
  BY <1>1, <1>2, OctetFacts, Zenon
<1>4. a \in Nat /\ a < o * o * o * o
  <2>1. PICK m \in Nat : m = 2^Width
    BY WidthAssumption, PowerFacts
  <2>2. a \in Nat /\ a < m
    BY <2>1 DEF Addresses
  <2> QED BY <1>3, <2>1, <2>2
<1>5. PICK q1 \in Nat, d4 \in 0 .. o - 1 : q1 = a \div o /\ d4 = a % o /\ a = o * q1 + d4
  <2>1. a \div o \in Nat /\ a % o \in 0 .. o - 1 /\ a = o * (a \div o) + (a % o)
    BY <1>0, <1>1, DivFacts
  <2> QED BY <2>1, Zenon
<1>6. PICK q2 \in Nat, d3 \in 0 .. o - 1 : q2 = q1 \div o /\ d3 = q1 % o /\ q1 = o * q2 + d3
  BY <1>1, DivFacts
<1>7. PICK q3 \in Nat, d2 \in 0 .. o - 1 : q3 = q2 \div o /\ d2 = q2 % o /\ q2 = o * q3 + d2
  BY <1>1, DivFacts
<1>8. a \div (o * o) = q2 /\ o * o \in Nat /\ o * o >= 1
  <2>1. a \div (o * o) = (a \div o) \div o /\ o * o \in Nat /\ o * o >= 1
    <3>0. o >= 1
      BY <1>1
    <3>1. ASSUME NEW x \in Nat PROVE x \div (o * o) = (x \div o) \div o /\ o * o \in Nat /\ o * o >= 1
      BY <3>0, DivTwice
    <3> QED BY <1>0, <3>1, Zenon
  <2> QED BY <1>5, <1>6, <2>1, Zenon
<1>9. a \div (o * o * o) = q3 /\ o * o * o \in Nat /\ o * o * o >= 1
  <2>1. PICK oo \in Nat : oo = o * o /\ oo >= 1
    BY <1>8
  <2>0. o >= 1 /\ oo >= 1
    BY <1>1, <2>1
  <2>2. a \div (oo * o) = (a \div oo) \div o /\ oo * o \in Nat /\ oo * o >= 1
    <3>1. ASSUME NEW x \in Nat PROVE x \div (oo * o) = (x \div oo) \div o /\ oo * o \in Nat /\ oo * o >= 1
      BY <2>0, DivTwice
    <3> QED BY <1>0, <3>1, Zenon
  <2> QED BY <1>7, <1>8, <2>1, <2>2
<1>10. q3 < o
  <2> SUFFICES ASSUME o <= q3 PROVE FALSE
    BY <1>1
  <2>1. PICK c \in Nat : c = o * o * o /\ c >= 1
    BY <1>9
  <2>2. a = c * q3 + (a % c) /\ a % c \in Nat
    <3>1. a = c * (a \div c) + (a % c) /\ a % c \in 0 .. c - 1
      BY <1>0, <2>1, DivFacts
    <3>2. a \div c = q3
      BY <1>9, <2>1, Zenon
    <3>3. a % c \in Nat
      BY <2>1, <3>1
    <3> QED BY <3>1, <3>2, <3>3, Zenon
  <2>3. c * o <= c * q3 /\ c * o \in Nat /\ c * q3 \in Nat
    <3>1. CASE o = q3
      BY <1>1, <2>1, <3>1
    <3>2. CASE o < q3
      <4>1. c * o + c <= c * q3 /\ c * o \in Nat /\ c * q3 \in Nat
        BY <1>1, <2>1, <3>2, ProductFacts
      <4> QED BY <2>1, <4>1
    <3> QED BY <1>1, <3>1, <3>2
  <2>4. a < c * o
    BY <1>4, <2>1
  <2> QED BY <1>4, <2>2, <2>3, <2>4
<1>11. q3 % o = q3
  <2>1. q3 \in 0 .. o - 1 /\ 0 \in Nat
    BY <1>1, <1>10
  <2>2. (o * 0 + q3) % o = q3 /\ o * 0 + q3 = q3
    BY <1>1, <2>1, DivUnique
  <2> QED BY <2>2
<1>12. PICK t : t = to_dotted(a)
  OBVIOUS
<1>13. DOMAIN t = 1 .. 4 /\ \A k \in 1 .. 4 : t[k] = (a \div 2^((4 - k) * w)) % o
  BY <1>1, <1>2, <1>12, Zenon DEF to_dotted
<1>14. t[1] = q3 /\ t[2] = d2 /\ t[3] = d3 /\ t[4] = d4
  <2>1. t[1] = (a \div 2^(3 * w)) % o
    BY <1>13
  <2>2. t[2] = (a \div 2^(2 * w)) % o
    BY <1>13
  <2>3. t[3] = (a \div 2^(1 * w)) % o
    BY <1>13
  <2>4. t[4] = (a \div 2^(0 * w)) % o
    BY <1>13
  <2>5. t[1] = q3
    BY <1>3, <1>9, <1>11, <2>1, Zenon
  <2>6. t[2] = d2
    BY <1>3, <1>7, <1>8, <2>2, Zenon
  <2>7. t[3] = d3
    BY <1>3, <1>5, <1>6, <2>3, Zenon
  <2>8. t[4] = d4
    <3>1. a \div 1 = a
      BY <1>4
    <3> QED BY <1>3, <1>5, <2>4, <3>1, Zenon
  <2> QED BY <2>5, <2>6, <2>7, <2>8
<1>15. ((q3 * o + d2) * o + d3) * o + d4 = a
  BY <1>1, <1>5, <1>6, <1>7
<1>16. parse_ipv4(t) = a
  BY <1>1, <1>14, <1>15, Zenon DEF parse_ipv4
<1>17. t # NoText
  <2>1. 1 \in DOMAIN t
    BY <1>13
  <2>2. DOMAIN <<>> = {}
    OBVIOUS
  <2> QED BY <2>1, <2>2 DEF NoText
<1> QED BY <1>12, <1>16, <1>17, Zenon

-----------------------------------------------------------------------------
(* The inductive invariant of the selection                                *)

(* The list in the buffer is one that the machine went through. *)
ListInv ==
  /\ history \in Histories /\ machine \in history
  /\ taken = <<>> \/ taken \in history
  /\ hint \in Hints

(* The size is what the last attempt asked for, and less than what the     *)
(* next one will.                                                          *)
QueryInv ==
  /\ needed \in Seq(Nat) /\ Len(needed) <= Attempts
  /\ size = IF Len(needed) = 0 THEN InitialSize ELSE needed[Len(needed)]
  /\ \A i \in 1 .. Len(needed) : size >= needed[i] /\ needed[i] > InitialSize
  /\ \A i, j \in 1 .. Len(needed) : j < i => needed[i] > needed[j]
  /\ at = "query" => Len(needed) < Attempts

(* Four overflows, and they alone, are the exception that says so. *)
ErrorInv ==
  /\ error = "overflow" <=> Len(needed) = Attempts
  /\ exit_code = "kNoDevice" <=> error # "none"

(* The decision is that of the list in the buffer. *)
DecisionInv ==
  /\ at \in {"query", "select"} => exit_code = "none"
  /\ exit_code = "kNoInterface" => Candidates = {}
  /\ exit_code = "kMultipleInterfaces" => \E i, j \in Candidates : i # j
  /\ at \in AtHosts =>
       \E i \in Candidates : Candidates = {i} /\ iface = Interface(snapshot(taken[i]))

LinkInv == ListInv /\ QueryInv /\ ErrorInv /\ DecisionInv /\ HostsInv

-----------------------------------------------------------------------------
(* What is read of an adapter                                              *)

(* A prefix length that is in range has a mask, which reads back; others   *)
(* have none.                                                              *)
LEMMA NetmaskFacts ==
  ASSUME NEW prefix \in Nat
  PROVE  /\ prefix > Width => netmask_from_prefix(prefix) = NoText
         /\ prefix <= Width =>
              /\ netmask_from_prefix(prefix) # NoText
              /\ parse_ipv4(netmask_from_prefix(prefix)) \in Masks
              /\ prefix_length(parse_ipv4(netmask_from_prefix(prefix))) = prefix
<1>1. Width \in Nat
  BY WidthAssumption
<1>2. CASE prefix > Width
  <2>1. netmask_from_prefix(prefix) = NoText
    BY <1>2, Zenon DEF netmask_from_prefix
  <2> QED BY <1>1, <1>2, <2>1
<1>3. CASE prefix <= Width
  <2>1. prefix \in 0 .. Width /\ ~(prefix > Width)
    BY <1>1, <1>3
  <2>2. PICK mask : mask = 2^Width - 2^(Width - prefix)
    OBVIOUS
  <2>3. mask \in Addresses /\ prefix_length(mask) = prefix /\ (prefix = 0 => mask = 0)
    BY <2>1, <2>2, PrefixOfMask
  <2>4. mask \in Masks
    BY <2>1, <2>2 DEF Masks
  <2>5. netmask_from_prefix(prefix) = to_dotted(mask)
    <3>1. (IF prefix = 0 THEN 0 ELSE 2^Width - 2^(Width - prefix)) = mask
      BY <2>2, <2>3
    <3> QED BY <2>1, <3>1, Zenon DEF netmask_from_prefix
  <2>6. parse_ipv4(to_dotted(mask)) = mask /\ to_dotted(mask) # NoText
    BY <2>3, DottedReadsBack
  <2>7. /\ netmask_from_prefix(prefix) # NoText
        /\ parse_ipv4(netmask_from_prefix(prefix)) \in Masks
        /\ prefix_length(parse_ipv4(netmask_from_prefix(prefix))) = prefix
    BY <2>3, <2>4, <2>5, <2>6, Zenon
  <2> QED BY <2>1, <2>7
<1> QED BY <1>1, <1>2, <1>3

(* The usable addresses are those that are IPv4 and not zero. *)
LEMMA UsableFacts ==
  ASSUME NEW adapter \in Adapters
  PROVE  /\ adapter.unicast \in Seq(Unicasts)
         /\ \A k \in DOMAIN adapter.unicast :
              /\ adapter.unicast[k].address \in Addresses
              /\ adapter.unicast[k].OnLinkPrefixLength \in Nat
         /\ UsableAddresses(adapter) =
              {k \in DOMAIN adapter.unicast :
                 adapter.unicast[k].family = "AF_INET" /\ adapter.unicast[k].address # 0}
         /\ UsableAddresses(adapter) # {} =>
              /\ Min(UsableAddresses(adapter)) \in UsableAddresses(adapter)
              /\ \A k \in UsableAddresses(adapter) : Min(UsableAddresses(adapter)) <= k
<1>1. adapter.unicast \in Seq(Unicasts)
  BY DEF Adapters
<1>2. ASSUME NEW k \in DOMAIN adapter.unicast
      PROVE  /\ adapter.unicast[k].address \in Addresses
             /\ adapter.unicast[k].OnLinkPrefixLength \in Nat
             /\ to_dotted(adapter.unicast[k].address) # to_dotted(0)
                  <=> adapter.unicast[k].address # 0
  <2>1. adapter.unicast[k] \in Unicasts
    BY <1>1
  <2>2. PICK a : a = adapter.unicast[k].address
    OBVIOUS
  <2>3. a \in Addresses /\ adapter.unicast[k].OnLinkPrefixLength \in Nat
    BY <2>1, <2>2 DEF Unicasts
  <2>4. 0 \in Addresses
    <3>1. 2^Width \in Nat /\ 2^Width >= 1
      BY WidthAssumption, PowerFacts
    <3> QED BY <3>1 DEF Addresses
  <2>5. parse_ipv4(to_dotted(a)) = a /\ parse_ipv4(to_dotted(0)) = 0
    BY <2>3, <2>4, DottedReadsBack
  <2>6. to_dotted(a) # to_dotted(0) <=> a # 0
    BY <2>5, Zenon
  <2> QED BY <2>2, <2>3, <2>6, Zenon
<1>3. UsableAddresses(adapter) =
        {k \in DOMAIN adapter.unicast :
           adapter.unicast[k].family = "AF_INET" /\ adapter.unicast[k].address # 0}
  BY <1>2, Zenon DEF UsableAddresses
<1>4. UsableAddresses(adapter) \subseteq Nat
  BY <1>1, <1>3
<1>5. UsableAddresses(adapter) # {} =>
        /\ Min(UsableAddresses(adapter)) \in UsableAddresses(adapter)
        /\ \A k \in UsableAddresses(adapter) : Min(UsableAddresses(adapter)) <= k
  BY <1>4, MinFacts
<1> QED BY <1>1, <1>2, <1>3, <1>5, Zenon

(* What of an adapter makes its interface: an address that it has, and the *)
(* mask of that address.                                                   *)
Source(adapter, k, i) ==
  /\ k \in DOMAIN adapter.unicast
  /\ i.address = adapter.unicast[k].address
  /\ i.address # 0
  /\ adapter.unicast[k].OnLinkPrefixLength \in 0 .. Width
  /\ prefix_length(i.mask) = adapter.unicast[k].OnLinkPrefixLength
  /\ i.if_index = adapter.IfIndex
  /\ Interfaces(i)

(* A candidate satisfies the documented rules, and its interface is made   *)
(* from one of its addresses.                                              *)
LEMMA CandidateFacts ==
  ASSUME NEW adapter \in Adapters, is_candidate(snapshot(adapter))
  PROVE  /\ Documented(adapter)
         /\ \E k : Source(adapter, k, Interface(snapshot(adapter)))
<1> DEFINE usable == UsableAddresses(adapter)
           first == adapter.unicast[Min(usable)]
<1>1. PICK s : s = snapshot(adapter)
  OBVIOUS
<1>2. /\ s.name = IF adapter.FriendlyName # Empty THEN adapter.FriendlyName
                  ELSE adapter.AdapterName
      /\ s.description = adapter.Description /\ s.if_index = adapter.IfIndex
      /\ s.is_loopback <=> adapter.IfType = "IF_TYPE_SOFTWARE_LOOPBACK"
      /\ s.is_up <=> adapter.OperStatus = "IfOperStatusUp"
      /\ s.has_ipv4 <=> s.netmask # NoText
  BY <1>1, Zenon DEF snapshot
<1>3. /\ s.ipv4 = IF usable = {} THEN NoText ELSE to_dotted(first.address)
      /\ s.netmask = IF usable = {} THEN NoText
                     ELSE netmask_from_prefix(first.OnLinkPrefixLength)
  BY <1>1, Zenon DEF snapshot
<1>4. /\ ~s.is_loopback /\ s.is_up /\ s.has_ipv4
      /\ s.name \notin MarkedNames /\ s.description \notin MarkedNames
  BY <1>1 DEF is_candidate, is_virtual_interface_name
<1>5. usable # {} /\ netmask_from_prefix(first.OnLinkPrefixLength) # NoText
  BY <1>2, <1>3, <1>4, Zenon
<1>6. PICK k : k = Min(usable)
  OBVIOUS
<1>7. /\ k \in DOMAIN adapter.unicast /\ adapter.unicast[k].address # 0
      /\ adapter.unicast[k].address \in Addresses
      /\ adapter.unicast[k].OnLinkPrefixLength \in Nat
  BY <1>5, <1>6, UsableFacts, Zenon
<1> HIDE DEF usable
<1>8. PICK a \in Addresses : a = adapter.unicast[k].address
  BY <1>7
<1>9. PICK p \in Nat : p = adapter.unicast[k].OnLinkPrefixLength
  BY <1>7
<1>10. s.ipv4 = to_dotted(a) /\ s.netmask = netmask_from_prefix(p) /\ s.netmask # NoText
  BY <1>3, <1>5, <1>6, <1>8, <1>9, Zenon
<1>11. p \in 0 .. Width
  <2>1. ~(p > Width) /\ Width \in Nat
    BY <1>10, NetmaskFacts, WidthAssumption
  <2> QED BY <2>1
<1>12. /\ parse_ipv4(s.netmask) \in Masks
       /\ prefix_length(parse_ipv4(s.netmask)) = p
  <2>1. p <= Width
    BY <1>11
  <2> QED BY <1>10, <2>1, NetmaskFacts, Zenon
<1>13. parse_ipv4(s.ipv4) = a
  BY <1>10, DottedReadsBack, Zenon
<1>14. PICK i : i = Interface(s)
  OBVIOUS
<1>15. i.address = a /\ i.mask = parse_ipv4(s.netmask) /\ i.if_index = s.if_index
  BY <1>13, <1>14, Zenon DEF Interface
<1>16. Interfaces(i)
  BY <1>8, <1>12, <1>15 DEF Interfaces
<1>17. Source(adapter, k, i)
  BY <1>2, <1>7, <1>8, <1>9, <1>11, <1>12, <1>15, <1>16, Zenon DEF Source
<1>18. {adapter.FriendlyName, adapter.AdapterName, adapter.Description} \cap MarkedNames = {}
  <2>1. adapter.AdapterName \notin MarkedNames
    BY DEF Adapters
  <2>2. adapter.Description \notin MarkedNames
    BY <1>2, <1>4
  <2>3. adapter.FriendlyName \notin MarkedNames
    BY <1>2, <1>4, MachineAssumption, Zenon
  <2> QED BY <2>1, <2>2, <2>3
<1>19. \E u \in Range(adapter.unicast) : u.address # 0 /\ u.OnLinkPrefixLength \in 0 .. Width
  BY <1>7, <1>9, <1>11, Zenon DEF Range
<1>20. Documented(adapter)
  BY <1>2, <1>4, <1>18, <1>19, Zenon DEF Documented
<1> QED BY <1>1, <1>14, <1>17, <1>20, Zenon

(* The size of a list is a number. *)
LEMMA BytesFacts ==
  ASSUME NEW list \in Seq(Adapters)
  PROVE  Bytes(list) \in Nat
<1> DEFINE Part(i) == {i} \X (0 .. Len(list[i].unicast))
           Parts == {Part(i) : i \in DOMAIN list}
<1>1. DOMAIN list = 1 .. Len(list) /\ Len(list) \in Nat
  OBVIOUS
<1>2. IsFiniteSet(DOMAIN list)
  BY <1>1, FS_Interval, 1 \in Int, Len(list) \in Int
<1>3. IsFiniteSet(Parts)
  <2> HIDE DEF Part
  <2>1. PICK f : f = [i \in DOMAIN list |-> Part(i)]
    OBVIOUS
  <2>2. f \in Surjection(DOMAIN list, Parts)
    BY <2>1 DEF Surjection
  <2> QED BY <1>2, <2>2, FS_Surjection
<1>4. ASSUME NEW T \in Parts PROVE IsFiniteSet(T)
  <2>1. PICK i \in DOMAIN list : T = Part(i)
    BY <1>4
  <2>2. list[i].unicast \in Seq(Unicasts)
    BY UsableFacts
  <2>3. Len(list[i].unicast) \in Int /\ 0 \in Int
    BY <2>2
  <2>4. IsFiniteSet(0 .. Len(list[i].unicast))
    BY <2>3, FS_Interval
  <2>5. IsFiniteSet({i})
    BY FS_Singleton
  <2> QED BY <2>1, <2>4, <2>5, FS_Product
<1> HIDE DEF Parts
<1>5. IsFiniteSet(UNION Parts)
  BY <1>3, <1>4, FS_UNION
<1>6. Cardinality(UNION Parts) \in Nat
  BY <1>5, FS_CardinalityType
<1> QED BY <1>6, Zenon DEF Bytes, Parts

(* The lists of adapters have their type. *)
LEMMA ListFacts ==
  ASSUME ListInv
  PROVE  machine \in Seq(Adapters) /\ taken \in Seq(Adapters)
<1>1. history \subseteq Seq(Adapters)
  BY MachineAssumption, Zenon DEF ListInv
<1>2. <<>> \in Seq(Adapters)
  OBVIOUS
<1> QED BY <1>1, <1>2, Zenon DEF ListInv

(* The invariant holds before the first query. *)
LEMMA LinkInitInv == LinkInit => LinkInv
<1> SUFFICES ASSUME LinkInit PROVE LinkInv
  OBVIOUS
<1>1. ListInv
  BY DEF LinkInit, ListInv
<1>2. QueryInv
  BY DEF LinkInit, QueryInv, Attempts
<1>3. DecisionInv
  BY DEF LinkInit, DecisionInv, AtHosts
<1>4. HostsInv
  BY DEF LinkInit, HostsInv, AtHosts
<1>5. ErrorInv
  BY DEF LinkInit, ErrorInv, Attempts
<1> QED BY <1>1, <1>2, <1>3, <1>4, <1>5 DEF LinkInv

(* The candidates depend on the list in the buffer and the hint alone. *)
LEMMA CandidatesSame ==
  ASSUME taken' = taken, hint' = hint
  PROVE  Candidates' = Candidates
BY DEF Candidates

(* Steps that leave the enumeration alone keep its invariant. *)
LEMMA HostsSame ==
  ASSUME HostsInv, UNCHANGED vars
  PROVE  HostsInv'
BY DEF vars, HostsInv, LoopInv, AtHosts, Interfaces, Allowed, FirstHost,
       EndOfHosts, network, broadcast, prefix_length, HostBits

(* Before the enumeration the list of hosts is empty. *)
LEMMA NoHostsYet ==
  ASSUME HostsInv, at \in {"query", "select"}, at' \in {"query", "select", "exited"},
         hosts' = hosts
  PROVE  HostsInv'
BY DEF HostsInv, AtHosts

(* An attempt that overflows asks for more than those before. *)
LEMMA OverflowStep ==
  ASSUME LinkInv, QueryOverflows PROVE LinkInv'
<1>1. PICK b \in Nat : b = Bytes(machine)
  BY ListFacts, BytesFacts DEF LinkInv
<1>2. /\ at = "query" /\ b > size /\ size' = b /\ needed' = Append(needed, b)
      /\ history' = history /\ machine' = machine /\ hint' = hint /\ taken' = taken
      /\ iface' = iface /\ hosts' = hosts
      /\ \/ Len(needed) + 1 < Attempts /\ at' = at /\ exit_code' = exit_code
            /\ error' = error
         \/ ~(Len(needed) + 1 < Attempts) /\ at' = "exited" /\ exit_code' = "kNoDevice"
            /\ error' = "overflow"
  BY <1>1 DEF QueryOverflows, Overflows, Throws, Exit, world
<1>3. ListInv'
  BY <1>2 DEF LinkInv, ListInv
<1>4. QueryInv'
  <2>1. /\ needed \in Seq(Nat) /\ Len(needed) < Attempts /\ Len(needed) \in Nat
        /\ size = IF Len(needed) = 0 THEN InitialSize ELSE needed[Len(needed)]
        /\ \A i \in 1 .. Len(needed) : size >= needed[i] /\ needed[i] > InitialSize
        /\ \A i, j \in 1 .. Len(needed) : j < i => needed[i] > needed[j]
        /\ InitialSize \in Nat
    BY <1>2, MachineAssumption DEF LinkInv, QueryInv
  <2>2. PICK n \in Nat : n = Len(needed)
    BY <2>1
  <2>3. PICK new : new = needed'
    OBVIOUS
  <2>4. /\ new \in Seq(Nat) /\ Len(new) = n + 1 /\ new[n + 1] = b
        /\ \A i \in 1 .. n : new[i] = needed[i] /\ needed[i] \in Nat
    BY <1>2, <2>1, <2>2, <2>3
  <2>5. size \in Nat /\ size >= InitialSize
    <3>1. CASE n = 0
      BY <2>1, <2>2, <3>1
    <3>2. CASE n # 0
      <4>1. n \in 1 .. n
        BY <3>2
      <4> QED BY <2>1, <2>2, <2>4, <3>2, <4>1
    <3> QED BY <3>1, <3>2
  <2>6. ASSUME NEW i \in 1 .. n + 1 PROVE b >= new[i] /\ new[i] > InitialSize
    <3>1. CASE i = n + 1
      BY <1>2, <2>1, <2>4, <2>5, <3>1
    <3>2. CASE i # n + 1
      <4>1. i \in 1 .. n
        BY <3>2
      <4> QED BY <1>2, <2>1, <2>2, <2>4, <2>5, <4>1
    <3> QED BY <3>1, <3>2
  <2>7. ASSUME NEW i \in 1 .. n + 1, NEW j \in 1 .. n + 1, j < i PROVE new[i] > new[j]
    <3>0. j \in 1 .. n
      BY <2>7
    <3>1. CASE i = n + 1
      BY <1>2, <2>1, <2>2, <2>4, <2>5, <3>0, <3>1
    <3>2. CASE i # n + 1
      <4>1. i \in 1 .. n
        BY <3>2
      <4> QED BY <2>1, <2>2, <2>4, <2>7, <3>0, <4>1
    <3> QED BY <3>1, <3>2
  <2>8. n + 1 <= Attempts /\ (at' = "query" => n + 1 < Attempts)
    BY <1>2, <2>1, <2>2 DEF Attempts
  <2>9. size' = IF Len(new) = 0 THEN InitialSize ELSE new[Len(new)]
    BY <1>2, <2>4
  <2> QED BY <1>2, <2>3, <2>4, <2>6, <2>7, <2>8, <2>9 DEF QueryInv
<1>5. DecisionInv'
  <2>1. Candidates' = Candidates
    BY <1>2, CandidatesSame
  <2>2. exit_code = "none"
    BY <1>2 DEF LinkInv, DecisionInv
  <2> QED BY <1>2, <2>1, <2>2 DEF DecisionInv, AtHosts
<1>6. HostsInv'
  BY <1>2, NoHostsYet DEF LinkInv
<1>7. ErrorInv'
  <2>1. needed \in Seq(Nat) /\ Len(needed) < Attempts /\ Attempts = 4
    BY <1>2 DEF LinkInv, QueryInv, Attempts
  <2>2. Len(needed') = Len(needed) + 1 /\ Len(needed) \in Nat
    BY <1>2, <2>1
  <2>3. exit_code = "none" /\ error = "none"
    BY <1>2 DEF LinkInv, DecisionInv, ErrorInv
  <2> QED BY <1>2, <2>1, <2>2, <2>3 DEF ErrorInv, Attempts
<1> QED BY <1>3, <1>4, <1>5, <1>6, <1>7 DEF LinkInv

(* A query that succeeds or fails otherwise. *)
LEMMA QueryStep ==
  ASSUME LinkInv, Query \/ QueryFails PROVE LinkInv'
<1>1. /\ at = "query" /\ size' = size /\ needed' = needed
      /\ history' = history /\ machine' = machine /\ hint' = hint
      /\ iface' = iface /\ hosts' = hosts
      /\ \/ at' = "select" /\ taken' = machine /\ exit_code' = exit_code
            /\ error' = error
         \/ at' = "exited" /\ taken' = taken /\ exit_code' = "kNoDevice"
            /\ error' = "failure"
  BY DEF Query, QueryFails, Throws, Exit, world
<1>2. ListInv'
  BY <1>1 DEF LinkInv, ListInv
<1>3. QueryInv'
  BY <1>1 DEF LinkInv, QueryInv
<1>4. DecisionInv'
  <2>1. exit_code = "none"
    BY <1>1 DEF LinkInv, DecisionInv
  <2> QED BY <1>1, <2>1 DEF DecisionInv, AtHosts
<1>5. HostsInv'
  BY <1>1, NoHostsYet DEF LinkInv
<1>6. ErrorInv'
  <2>1. exit_code = "none" /\ error = "none" /\ Len(needed) # Attempts
    BY <1>1 DEF LinkInv, DecisionInv, ErrorInv
  <2> QED BY <1>1, <2>1 DEF ErrorInv, Attempts
<1> QED BY <1>2, <1>3, <1>4, <1>5, <1>6 DEF LinkInv

(* The adapter at a candidate's position, and where its interface is from. *)
LEMMA CandidatePositions ==
  ASSUME ListInv, NEW i \in Candidates
  PROVE  /\ i \in DOMAIN taken /\ taken[i] \in Adapters
         /\ Documented(taken[i])
         /\ \E k : Source(taken[i], k, Interface(snapshot(taken[i])))
<1>1. i \in DOMAIN taken /\ is_candidate(snapshot(taken[i]))
  BY DEF Candidates, filter_candidate_interfaces
<1>2. taken[i] \in Adapters
  BY <1>1, ListFacts
<1> QED BY <1>1, <1>2, CandidateFacts

(* The selection: the interface of the one candidate has an address and a  *)
(* mask.                                                                   *)
LEMMA SelectStep ==
  ASSUME LinkInv, SelectInterface PROVE LinkInv'
<1>1. /\ at = "select" /\ size' = size /\ needed' = needed /\ taken' = taken
      /\ history' = history /\ machine' = machine /\ hint' = hint /\ hosts' = hosts
  BY DEF SelectInterface, world
<1>2. ListInv'
  BY <1>1 DEF LinkInv, ListInv
<1>7. ASSUME exit_code' \in {"none", "kNoInterface", "kMultipleInterfaces"} PROVE ErrorInv'
  <2>1. exit_code = "none" /\ error = "none" /\ error' = error
    BY <1>1 DEF SelectInterface, LinkInv, DecisionInv, ErrorInv
  <2> QED BY <1>1, <1>7, <2>1 DEF LinkInv, ErrorInv, Attempts
<1>3. Candidates' = Candidates /\ exit_code = "none"
  BY <1>1, CandidatesSame DEF LinkInv, DecisionInv
<1>4. CASE Candidates = {} /\ Exit("kNoInterface") /\ UNCHANGED iface
  <2>1. at' = "exited" /\ exit_code' = "kNoInterface"
    BY <1>4 DEF Exit
  <2>2. QueryInv'
    BY <1>1, <2>1 DEF LinkInv, QueryInv
  <2>3. DecisionInv'
    BY <1>3, <1>4, <2>1 DEF DecisionInv, AtHosts
  <2>4. HostsInv'
    BY <1>1, <2>1, NoHostsYet DEF LinkInv
  <2>5. ErrorInv'
    BY <1>7, <2>1
  <2> QED BY <1>2, <2>2, <2>3, <2>4, <2>5 DEF LinkInv
<1>5. CASE \E i, j \in Candidates : i # j /\ Exit("kMultipleInterfaces") /\ UNCHANGED iface
  <2>1. at' = "exited" /\ exit_code' = "kMultipleInterfaces" /\ \E i, j \in Candidates : i # j
    BY <1>5 DEF Exit
  <2>2. QueryInv'
    BY <1>1, <2>1 DEF LinkInv, QueryInv
  <2>3. DecisionInv'
    BY <1>3, <2>1 DEF DecisionInv, AtHosts
  <2>4. HostsInv'
    BY <1>1, <2>1, NoHostsYet DEF LinkInv
  <2>5. ErrorInv'
    BY <1>7, <2>1
  <2> QED BY <1>2, <2>2, <2>3, <2>4, <2>5 DEF LinkInv
<1>6. CASE \E i \in Candidates :
             /\ Candidates = {i}
             /\ at' = "start" /\ iface' = Interface(snapshot(taken[i]))
             /\ UNCHANGED exit_code
  <2>1. PICK i \in Candidates :
          /\ Candidates = {i} /\ at' = "start" /\ exit_code' = exit_code
          /\ iface' = Interface(snapshot(taken[i]))
    BY <1>6
  <2>2. PICK k : Source(taken[i], k, Interface(snapshot(taken[i])))
    BY CandidatePositions DEF LinkInv
  <2>3. Interfaces(iface')
    BY <2>1, <2>2, Zenon DEF Source
  <2>4. QueryInv'
    BY <1>1, <2>1 DEF LinkInv, QueryInv
  <2>5. DecisionInv'
    <3>1. \E n \in Candidates' :
            Candidates' = {n} /\ iface' = Interface(snapshot(taken'[n]))
      BY <1>1, <1>3, <2>1, Zenon
    <3> QED BY <1>3, <2>1, <3>1 DEF DecisionInv, AtHosts
  <2>6. HostsInv'
    BY <1>1, <2>1, <2>3 DEF LinkInv, HostsInv, AtHosts, Interfaces
  <2>7. ErrorInv'
    BY <1>3, <1>7, <2>1
  <2> QED BY <1>2, <2>4, <2>5, <2>6, <2>7 DEF LinkInv
<1> QED BY <1>4, <1>5, <1>6 DEF SelectInterface

(* The enumeration, a change of the machine, and stuttering. *)
LEMMA OtherStep ==
  ASSUME LinkInv, EnumerateHosts \/ MachineChanges \/ UNCHANGED <<world, selection, vars>>
  PROVE  LinkInv'
<1>1. /\ size' = size /\ needed' = needed /\ taken' = taken /\ hint' = hint
      /\ error' = error /\ exit_code' = exit_code
      /\ history' = history /\ machine' \in history /\ iface' = iface
  BY DEF EnumerateHosts, MachineChanges, world, selection, vars, LinkInv, ListInv,
         Start, LinkTurn, SubnetTurn
<1>2. at' = at \/ (at \in AtHosts /\ at' \in AtHosts)
  BY DEF EnumerateHosts, MachineChanges, vars, Start, LinkTurn, SubnetTurn, AtHosts
<1>3. ListInv'
  BY <1>1 DEF LinkInv, ListInv
<1>4. QueryInv'
  BY <1>1, <1>2 DEF LinkInv, QueryInv, AtHosts
<1>5. DecisionInv'
  <2>1. Candidates' = Candidates
    BY <1>1, CandidatesSame
  <2>2. at' \in AtHosts => at \in AtHosts
    BY <1>2
  <2>3. at' \in AtHosts =>
          \E i \in Candidates : Candidates = {i} /\ iface = Interface(snapshot(taken[i]))
    BY <2>2 DEF LinkInv, DecisionInv
  <2>4. at' \in {"query", "select"} => exit_code = "none"
    BY <1>2 DEF LinkInv, DecisionInv, AtHosts
  <2> QED BY <1>1, <2>1, <2>3, <2>4, Zenon DEF LinkInv, DecisionInv
<1>6. HostsInv'
  BY HostsStep, HostsSame DEF LinkInv, EnumerateHosts, MachineChanges
<1>7. ErrorInv'
  BY <1>1 DEF LinkInv, ErrorInv, Attempts
<1> QED BY <1>3, <1>4, <1>5, <1>6, <1>7 DEF LinkInv

(* Every step of the program and of the machine keeps the invariant. *)
LEMMA LinkStepInv == LinkInv /\ [LinkNext]_<<world, selection, vars>> => LinkInv'
<1> SUFFICES ASSUME LinkInv, [LinkNext]_<<world, selection, vars>> PROVE LinkInv'
  OBVIOUS
<1>1. CASE Query \/ QueryFails
  BY <1>1, QueryStep
<1>2. CASE QueryOverflows
  BY <1>2, OverflowStep
<1>3. CASE SelectInterface
  BY <1>3, SelectStep
<1>4. CASE EnumerateHosts \/ MachineChanges \/ UNCHANGED <<world, selection, vars>>
  BY <1>4, OtherStep
<1> QED BY <1>1, <1>2, <1>3, <1>4, Zenon DEF LinkNext, ProgramStep

(* The invariant holds in every reachable state, for every machine.        *)
THEOREM LinkInvariance == LinkSpec => []LinkInv
BY LinkInitInv, LinkStepInv, PTL DEF LinkSpec

(* query_adapter_addresses() gives up on the buffer exactly when four      *)
(* attempts have failed, each of which asked for more than all before; an  *)
(* exception of its, and nothing else here, ends without a device.         *)
THEOREM RetriesUntilGrown == LinkSpec => []GivesUpOnlyWhileGrowing
<1>1. LinkInv => GivesUpOnlyWhileGrowing
  <2> SUFFICES ASSUME LinkInv PROVE GivesUpOnlyWhileGrowing
    OBVIOUS
  <2>1. /\ needed \in Seq(Nat)
        /\ \A i \in 1 .. Len(needed) : needed[i] > InitialSize
        /\ \A i, j \in 1 .. Len(needed) : j < i => needed[i] > needed[j]
    BY DEF LinkInv, QueryInv
  <2>2. DOMAIN needed = 1 .. Len(needed) /\ Len(needed) \in Nat
    BY <2>1
  <2>3. \A i \in DOMAIN needed : \A j \in 1 .. i - 1 : j \in 1 .. Len(needed) /\ j < i
    BY <2>2
  <2>4. /\ error = "overflow" <=> Len(needed) = Attempts
        /\ exit_code = "kNoDevice" <=> error # "none"
    BY DEF LinkInv, ErrorInv
  <2> QED BY <2>1, <2>2, <2>3, <2>4 DEF GivesUpOnlyWhileGrowing
<1> QED BY <1>1, LinkInvariance, PTL

(* On the interface that was selected, whatever the adapters are, the hosts *)
(* are enumerated once each and none is left out (enumerate_subnet_hosts).  *)
THEOREM LinkHostsComplete == LinkSpec => []EveryHostOnce
<1>1. LinkInv => EveryHostOnce
  BY CollectedIsEveryHost DEF LinkInv
<1> QED BY <1>1, LinkInvariance, PTL

(* At any moment the hosts that were collected are of the interface's      *)
(* subnet, which is not larger than min_prefix allows.                     *)
LEMMA HostsWithin ==
  ASSUME HostsInv, hosts # <<>>
  PROVE  /\ at \in AtHosts
         /\ prefix_length(iface.mask) \in min_prefix .. Width
         /\ Len(hosts) <= 2^(Width - min_prefix)
         /\ \A host \in Range(hosts) :
              host \div 2^(Width - prefix_length(iface.mask))
                = iface.address \div 2^(Width - prefix_length(iface.mask))
<1>1. at \in {"link", "subnet", "done"} /\ at \in AtHosts /\ Interfaces(iface)
  BY DEF HostsInv, AtHosts
<1>2. PICK p, first, h : SubnetIs(iface, p, first, h)
  BY <1>1, SubnetFacts
<1>3. PICK own \in Nat : own = iface.address
  BY <1>2 DEF SubnetIs
<1>4. /\ p = prefix_length(iface.mask) /\ p \in 0 .. Width /\ Width \in Nat
      /\ h \in Nat /\ h >= 1
      /\ first = network(iface) /\ first \in Nat
      /\ broadcast(iface) = first + h - 1
      /\ min_prefix \in 0 .. Width
  BY <1>2, <1>3, WidthAssumption DEF SubnetIs
<1>0. h = 2^(Width - p)
  BY <1>2 DEF SubnetIs
<1>5. {a \in Addresses : a \div h = own \div h} = first .. first + h - 1
  BY <1>2, <1>3, Zenon DEF SubnetIs
<1>6. Allowed(p)
  BY <1>1, <1>4 DEF HostsInv, LoopInv
<1>7. p \in min_prefix .. Width
  BY <1>4, <1>6 DEF Allowed
<1>8. PICK lo \in Nat, hi \in Nat :
        Collected(hosts, own, lo, hi) /\ first <= lo /\ lo <= hi /\ hi <= first + h
  <2>1. FirstHost(iface) \in Nat /\ first <= FirstHost(iface) /\ FirstHost(iface) <= first + 1
    BY <1>4 DEF FirstHost
  <2>2. CASE at = "done"
    <3>1. Collected(hosts, own, FirstHost(iface), EndOfHosts(iface))
      BY <1>3, <1>4, <1>6, <2>2 DEF HostsInv
    <3>2. EndOfHosts(iface) \in Nat /\ EndOfHosts(iface) <= first + h
      BY <1>4 DEF EndOfHosts
    <3>3. FirstHost(iface) <= EndOfHosts(iface)
      <4>1. p < Width - 1 => h >= 4
        BY <1>2 DEF SubnetIs
      <4> QED BY <1>4, <4>1 DEF FirstHost, EndOfHosts
    <3> QED BY <2>1, <3>1, <3>2, <3>3
  <2>3. CASE at \in {"link", "subnet"}
    <3>1. /\ address \in FirstHost(iface) .. broadcast(iface)
          /\ Collected(hosts, own, FirstHost(iface), address)
      BY <1>3, <2>3 DEF HostsInv, LoopInv
    <3>2. address \in Nat /\ FirstHost(iface) <= address /\ address <= first + h
      BY <1>4, <2>1, <3>1
    <3> QED BY <2>1, <3>1, <3>2
  <2> QED BY <1>1, <2>2, <2>3
<1>9. Len(hosts) <= h
  <2>1. Len(hosts) = hi - lo - 1 \/ Len(hosts) = hi - lo
    BY <1>8, Zenon DEF Collected
  <2>2. hi - lo <= h /\ hi - lo - 1 <= h
    BY <1>4, <1>8
  <2> QED BY <2>1, <2>2
<1>10. Range(hosts) \subseteq first .. first + h - 1
  <2>1. Range(hosts) = (lo .. hi - 1) \ {own}
    BY <1>8, Zenon DEF Collected
  <2> QED BY <1>4, <1>8, <2>1
<1>11. h <= 2^(Width - min_prefix)
  <2>1. /\ Width - p \in Nat /\ p - min_prefix \in Nat
        /\ Width - min_prefix = (Width - p) + (p - min_prefix)
    BY <1>4, <1>7
  <2>2. 2^((Width - p) + (p - min_prefix)) = 2^(Width - p) * 2^(p - min_prefix)
    BY <2>1, PowerOfSum, Zenon
  <2>3. PICK d \in Nat : d = 2^(p - min_prefix) /\ d >= 1
    BY <2>1, PowerFacts
  <2>4. 2^(Width - min_prefix) = h * d
    BY <1>0, <2>1, <2>2, <2>3, Zenon
  <2>5. h * 0 + h <= h * d
    <3>1. 0 < d /\ 0 \in Nat
      BY <2>3
    <3> QED BY <1>4, <3>1, ProductFacts
  <2>6. h * 0 + h = h
    BY <1>4
  <2> QED BY <2>4, <2>5, <2>6
<1>12. Len(hosts) <= 2^(Width - min_prefix)
  <2>1. Len(hosts) \in Nat
    BY <1>8 DEF Collected
  <2>2. 2^(Width - min_prefix) \in Nat
    BY <1>4, PowerFacts, Width - min_prefix \in Nat
  <2> QED BY <1>4, <1>9, <1>11, <2>1, <2>2
<1>13. \A host \in Range(hosts) : host \div h = own \div h
  BY <1>5, <1>10
<1> QED BY <1>0, <1>1, <1>3, <1>4, <1>7, <1>12, <1>13, Zenon

(* Nothing but the link is swept: every host that is ever collected is in  *)
(* the subnet of an address of an adapter that satisfies the documented    *)
(* rules, and there are never more than a subnet of min_prefix has.        *)
THEOREM NothingButTheLink == LinkSpec => []OnlyTheLinkIsSwept
<1>1. LinkInv => OnlyTheLinkIsSwept
  <2> SUFFICES ASSUME LinkInv PROVE OnlyTheLinkIsSwept
    OBVIOUS
  <2>1. CASE hosts = <<>>
    <3>1. Len(hosts) = 0 /\ Range(hosts) = {}
      BY <2>1 DEF Range
    <3>2. 2^(Width - min_prefix) \in Nat
      <4>1. Width - min_prefix \in Nat
        BY WidthAssumption
      <4> QED BY <4>1, PowerFacts
    <3>3. Len(hosts) <= 2^(Width - min_prefix)
      BY <3>1, <3>2
    <3> QED BY <3>1, <3>3, Zenon DEF OnlyTheLinkIsSwept
  <2>2. CASE hosts # <<>>
    <3>1. /\ at \in AtHosts
          /\ prefix_length(iface.mask) \in min_prefix .. Width
          /\ Len(hosts) <= 2^(Width - min_prefix)
          /\ \A host \in Range(hosts) :
               host \div 2^(Width - prefix_length(iface.mask))
                 = iface.address \div 2^(Width - prefix_length(iface.mask))
      BY <2>2, HostsWithin DEF LinkInv
    <3>2. PICK i \in Candidates : iface = Interface(snapshot(taken[i]))
      BY <3>1 DEF LinkInv, DecisionInv
    <3>3. /\ i \in DOMAIN taken /\ Documented(taken[i])
          /\ \E k : Source(taken[i], k, iface)
      BY <3>2, CandidatePositions DEF LinkInv
    <3>4. PICK k : Source(taken[i], k, iface)
      BY <3>3
    <3>5. PICK a, u : a = taken[i] /\ u = a.unicast[k]
      OBVIOUS
    <3>6. /\ a \in Range(taken) /\ Documented(a) /\ u \in Range(a.unicast)
          /\ u.address = iface.address
          /\ u.OnLinkPrefixLength = prefix_length(iface.mask)
      BY <3>3, <3>4, <3>5, Zenon DEF Source, Range
    <3>7. u.OnLinkPrefixLength >= min_prefix
      BY <3>1, <3>6, WidthAssumption
    <3> QED BY <3>1, <3>6, <3>7, Zenon DEF OnlyTheLinkIsSwept
  <2> QED BY <2>1, <2>2
<1> QED BY <1>1, LinkInvariance, PTL

-----------------------------------------------------------------------------
(* The selection follows the documented rules                              *)

(* What OrdinaryAdapters says of one adapter. *)
Ordinary(adapter) ==
  /\ adapter.AdapterName \notin Hints
  /\ \A k, m \in DOMAIN adapter.unicast :
       /\ adapter.unicast[k].family = "AF_INET"
       /\ adapter.unicast[k].OnLinkPrefixLength <= Width =>
            adapter.unicast[m].OnLinkPrefixLength <= Width

(* An adapter that satisfies the documented rules is a candidate. *)
LEMMA DocumentedIsCandidate ==
  ASSUME NEW adapter \in Adapters, Ordinary(adapter), Documented(adapter)
  PROVE  is_candidate(snapshot(adapter))
<1> DEFINE usable == UsableAddresses(adapter)
           first == adapter.unicast[Min(usable)]
<1>1. PICK s : s = snapshot(adapter)
  OBVIOUS
<1>2. /\ s.name = IF adapter.FriendlyName # Empty THEN adapter.FriendlyName
                  ELSE adapter.AdapterName
      /\ s.description = adapter.Description
      /\ s.is_loopback <=> adapter.IfType = "IF_TYPE_SOFTWARE_LOOPBACK"
      /\ s.is_up <=> adapter.OperStatus = "IfOperStatusUp"
      /\ s.has_ipv4 <=> s.netmask # NoText
      /\ s.netmask = IF usable = {} THEN NoText
                     ELSE netmask_from_prefix(first.OnLinkPrefixLength)
  BY <1>1, Zenon DEF snapshot
<1>3. PICK n \in DOMAIN adapter.unicast :
        /\ adapter.unicast[n].address # 0
        /\ adapter.unicast[n].OnLinkPrefixLength \in 0 .. Width
  BY Zenon DEF Documented, Range
<1>4. adapter.unicast[n].family = "AF_INET"
  BY <1>3, Zenon DEF Ordinary
<1>5. n \in usable
  BY <1>3, <1>4, UsableFacts, Zenon
<1>6. PICK k : k = Min(usable)
  OBVIOUS
<1>7. k \in DOMAIN adapter.unicast /\ adapter.unicast[k].OnLinkPrefixLength \in Nat
  BY <1>5, <1>6, UsableFacts, Zenon
<1> HIDE DEF usable
<1>8. adapter.unicast[k].OnLinkPrefixLength <= Width
  <2>1. adapter.unicast[n].OnLinkPrefixLength <= Width
    BY <1>3, WidthAssumption
  <2> QED BY <1>3, <1>7, <2>1, Zenon DEF Ordinary
<1>9. netmask_from_prefix(adapter.unicast[k].OnLinkPrefixLength) # NoText
  <2>1. PICK p \in Nat : p = adapter.unicast[k].OnLinkPrefixLength
    BY <1>7
  <2>2. netmask_from_prefix(p) # NoText
    BY <1>8, <2>1, NetmaskFacts
  <2> QED BY <2>1, <2>2, Zenon
<1>10. s.has_ipv4
  BY <1>2, <1>5, <1>6, <1>9, Zenon
<1>11. s.name \notin MarkedNames /\ s.description \notin MarkedNames
  <2>1. /\ adapter.FriendlyName \notin MarkedNames /\ adapter.AdapterName \notin MarkedNames
        /\ adapter.Description \notin MarkedNames
    BY Zenon DEF Documented
  <2> QED BY <1>2, <2>1, Zenon
<1>12. ~s.is_loopback /\ s.is_up
  BY <1>2, Zenon DEF Documented
<1> QED BY <1>1, <1>10, <1>11, <1>12, Zenon DEF is_candidate, is_virtual_interface_name

(* The adapters that the documented rules and the hint leave. *)
Left == {a \in Range(taken) : Documented(a) /\ hint \in {Empty, a.FriendlyName}}

(* They are the candidates, and no two candidates are the same adapter. *)
LEMMA LeftAreCandidates ==
  ASSUME OrdinaryAdapters, ListInv
  PROVE  /\ Left = {taken[i] : i \in Candidates}
         /\ \A i, j \in Candidates : i # j => taken[i] # taken[j]
<1>1. taken \in Seq(Adapters) /\ hint \in Hints
  BY ListFacts DEF ListInv
<1>2. /\ \A i \in DOMAIN taken : Ordinary(taken[i])
      /\ \A i, j \in DOMAIN taken : taken[i].IfIndex = taken[j].IfIndex => i = j
  <2>1. CASE taken = <<>>
    BY <2>1
  <2>2. CASE taken \in history
    BY <2>2, Zenon DEF ListInv, OrdinaryAdapters, Ordinary
  <2> QED BY <2>1, <2>2 DEF ListInv
<1>3. ASSUME NEW i \in DOMAIN taken
      PROVE  i \in Candidates
               <=> Documented(taken[i]) /\ hint \in {Empty, taken[i].FriendlyName}
  <2>1. PICK a : a = taken[i]
    OBVIOUS
  <2>2. a \in Adapters /\ Ordinary(a)
    BY <1>1, <1>2, <2>1
  <2>3. i \in Candidates
          <=> is_candidate(snapshot(a)) /\ hint \in {Empty, snapshot(a).name}
    BY <2>1, Zenon DEF Candidates, filter_candidate_interfaces
  <2>4. is_candidate(snapshot(a)) <=> Documented(a)
    BY <2>2, CandidateFacts, DocumentedIsCandidate
  <2>5. snapshot(a).name = IF a.FriendlyName # Empty THEN a.FriendlyName ELSE a.AdapterName
    BY Zenon DEF snapshot
  <2>6. hint # a.AdapterName
    BY <1>1, <2>2, Zenon DEF Ordinary
  <2>7. hint \in {Empty, snapshot(a).name} <=> hint \in {Empty, a.FriendlyName}
    BY <2>5, <2>6, Zenon
  <2> QED BY <2>1, <2>3, <2>4, <2>7, Zenon
<1>4. Candidates \subseteq DOMAIN taken
  BY DEF Candidates, filter_candidate_interfaces
<1>5. Left = {taken[i] : i \in Candidates}
  BY <1>3, <1>4, Zenon DEF Left, Range
<1>6. \A i, j \in Candidates : i # j => taken[i] # taken[j]
  BY <1>2, <1>4, Zenon
<1> QED BY <1>5, <1>6

(* Where adapters are ordinary, the decision is the one that README.md     *)
(* documents, of one moment of the machine: none, one or several adapters  *)
(* satisfied the rules, and the interface is that one's, with an address   *)
(* it has and the mask of this address.                                    *)
THEOREM SelectionIsDocumented == OrdinaryAdapters => (LinkSpec => []SelectsTheLink)
<1>1. ASSUME OrdinaryAdapters, LinkInv PROVE SelectsTheLink
  <2>1. /\ Left = {taken[i] : i \in Candidates}
        /\ \A i, j \in Candidates : i # j => taken[i] # taken[j]
    BY <1>1, LeftAreCandidates DEF LinkInv
  <2>2. ASSUME exit_code = "kNoInterface" PROVE Left = {}
    BY <1>1, <2>1, <2>2, Zenon DEF LinkInv, DecisionInv
  <2>3. ASSUME exit_code = "kMultipleInterfaces" PROVE Cardinality(Left) > 1
    <3>1. PICK i \in Candidates, j \in Candidates : i # j
      BY <1>1, <2>3 DEF LinkInv, DecisionInv
    <3>2. PICK x, y : x = taken[i] /\ y = taken[j]
      OBVIOUS
    <3>3. x \in Left /\ y \in Left /\ x # y
      BY <2>1, <3>1, <3>2, Zenon
    <3>4. IsFiniteSet(Left)
      <4>1. taken \in Seq(Adapters)
        BY <1>1, ListFacts DEF LinkInv
      <4>2. IsFiniteSet(DOMAIN taken)
        <5>1. DOMAIN taken = 1 .. Len(taken) /\ Len(taken) \in Int /\ 1 \in Int
          BY <4>1
        <5> QED BY <5>1, FS_Interval, Zenon
      <4>3. taken \in Surjection(DOMAIN taken, Range(taken))
        BY <4>1 DEF Surjection, Range
      <4>4. IsFiniteSet(Range(taken))
        BY <4>2, <4>3, FS_Surjection
      <4>5. Left \subseteq Range(taken)
        BY DEF Left
      <4> QED BY <4>4, <4>5, FS_Subset
    <3>5. Cardinality({x, y}) = 2
      <4>1. IsFiniteSet({x}) /\ Cardinality({x}) = 1
        BY FS_Singleton
      <4>2. Cardinality({x} \cup {y}) = 1 + 1
        BY <3>3, <4>1, FS_AddElement
      <4>3. {x} \cup {y} = {x, y}
        OBVIOUS
      <4> QED BY <4>2, <4>3
    <3>6. {x, y} \subseteq Left
      BY <3>3
    <3>7. Cardinality({x, y}) <= Cardinality(Left) /\ Cardinality(Left) \in Nat
      BY <3>4, <3>6, FS_Subset, FS_CardinalityType
    <3> QED BY <3>5, <3>7
  <2>4. ASSUME at \in AtHosts
        PROVE  \E a \in Left :
                 /\ Left = {a} /\ iface.if_index = a.IfIndex
                 /\ \E u \in Range(a.unicast) :
                      /\ u.address = iface.address
                      /\ u.OnLinkPrefixLength = prefix_length(iface.mask)
    <3>1. PICK i \in Candidates : Candidates = {i} /\ iface = Interface(snapshot(taken[i]))
      BY <1>1, <2>4 DEF LinkInv, DecisionInv
    <3>2. \E k : Source(taken[i], k, iface)
      BY <1>1, <3>1, CandidatePositions DEF LinkInv
    <3>3. PICK k : Source(taken[i], k, iface)
      BY <3>2
    <3>4. Left = {taken[i]}
      BY <2>1, <3>1, Zenon
    <3>5. PICK a, u : a = taken[i] /\ u = a.unicast[k]
      OBVIOUS
    <3>6. /\ iface.if_index = a.IfIndex /\ u \in Range(a.unicast)
          /\ u.address = iface.address
          /\ u.OnLinkPrefixLength = prefix_length(iface.mask)
      BY <3>3, <3>5, Zenon DEF Source, Range
    <3> QED BY <3>4, <3>5, <3>6, Zenon
  <2> QED BY <2>2, <2>3, <2>4, Zenon DEF SelectsTheLink, Left, AtHosts
<1>2. OrdinaryAdapters /\ LinkInv => SelectsTheLink
  BY <1>1
<1>3. SUFFICES ASSUME OrdinaryAdapters PROVE LinkSpec => []SelectsTheLink
  OBVIOUS
<1>4. LinkInv => SelectsTheLink
  BY <1>2, <1>3
<1> QED BY <1>4, LinkInvariance, PTL
=============================================================================
