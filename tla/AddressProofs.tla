--------------------------- MODULE AddressProofs ----------------------------
(***************************************************************************)
(* Theorems about prefixes and about the items of the Config form, for     *)
(* every width of an address and of its last octet, and every limit.       *)
(***************************************************************************)
EXTENDS AddressSpecs, FunctionTheorems, FiniteSetTheorems, SequenceTheorems,
        NaturalsInduction, WellFoundedInduction, TLAPS

(* What is true of some number is first true of a least one: the form of    *)
(* induction the proofs below use.                                          *)
LEMMA Least ==
  ASSUME NEW T \in SUBSET Nat, T # {}
  PROVE  \E n \in T : \A m \in T : n <= m
<1>1. PICK n \in T : \A m \in T : ~(<<m, n>> \in OpToRel(<, Nat))
  BY NatLessThanWellFounded, WFMin
<1>2. ASSUME NEW m \in T PROVE n <= m
  <2>1. ~(m < n)
    BY <1>1 DEF OpToRel
  <2> QED BY <2>1
<1> QED BY <1>2

---------------------------------------------------------------------------
(* Powers of two. *)

(* The first n powers follow from each other. *)
Powers(n, g) == g = [k \in 0 .. n |-> IF k = 0 THEN 1 ELSE 2 * g[k - 1]]

(* So they exist. *)
LEMMA PowersExist ==
  ASSUME NEW n \in Nat
  PROVE  \E g : Powers(n, g)
<1> DEFINE T == {m \in Nat : ~\E g : Powers(m, g)}
<1> SUFFICES ASSUME T # {} PROVE FALSE
  OBVIOUS
<1>1. PICK m \in T : \A j \in T : m <= j
  BY Least
<1>2. CASE m = 0
  <2>1. Powers(0, [k \in 0 .. 0 |-> 1])
    BY DEF Powers
  <2> QED BY <1>2, <2>1
<1>3. CASE m # 0
  <2>1. m - 1 \in Nat /\ m - 1 \notin T
    BY <1>1, <1>3
  <2>2. PICK g : Powers(m - 1, g)
    BY <2>1
  <2> DEFINE h == [k \in 0 .. m |-> IF k <= m - 1 THEN g[k] ELSE 2 * g[m - 1]]
  <2>3. \A k \in 0 .. m - 1 : g[k] = IF k = 0 THEN 1 ELSE 2 * g[k - 1]
    BY <2>2 DEF Powers
  <2>4. ASSUME NEW k \in 0 .. m
        PROVE  h[k] = IF k = 0 THEN 1 ELSE 2 * h[k - 1]
    <3>1. CASE k = 0
      BY <2>1, <2>3, <3>1
    <3>2. CASE k \in 1 .. m - 1
      <4>1. k - 1 \in 0 .. m - 1 /\ k \in 0 .. m - 1
        BY <2>1, <3>2
      <4>2. h[k] = g[k] /\ h[k - 1] = g[k - 1]
        BY <2>1, <4>1
      <4> QED BY <2>3, <3>2, <4>1, <4>2
    <3>3. CASE k = m
      BY <1>3, <2>1, <3>3
    <3> QED BY <2>1, <3>1, <3>2, <3>3
  <2>5. h = [k \in 0 .. m |-> IF k = 0 THEN 1 ELSE 2 * h[k - 1]]
    <3> DEFINE rest == [k \in 0 .. m |-> IF k = 0 THEN 1 ELSE 2 * h[k - 1]]
    <3>1. h = [k \in 0 .. m |-> h[k]]
      OBVIOUS
    <3> HIDE DEF h
    <3>2. \A k \in 0 .. m : h[k] = rest[k]
      BY <2>4
    <3>3. rest = [k \in 0 .. m |-> rest[k]]
      OBVIOUS
    <3> HIDE DEF rest
    <3>4. h = rest
      BY <3>1, <3>2, <3>3
    <3> QED BY <3>4 DEF rest
  <2> HIDE DEF h
  <2>6. Powers(m, h)
    BY <2>5 DEF Powers
  <2> QED BY <2>6
<1> QED BY <1>2, <1>3

(* Pow2 is what its equation says. *)
LEMMA Pow2Is ==
  \A n \in 0 .. Width : Pow2[n] = IF n = 0 THEN 1 ELSE 2 * Pow2[n - 1]
<1>1. Width \in Nat
  BY AddressAssumption
<1> DEFINE p == CHOOSE g : Powers(Width, g)
<1>2. Powers(Width, p)
  BY <1>1, PowersExist
<1>3. Pow2 = p
  BY DEF Pow2, Powers
<1> HIDE DEF p
<1> QED BY <1>1, <1>2, <1>3 DEF Powers

(* Powers of two are positive numbers. *)
LEMMA Pow2Positive ==
  \A n \in 0 .. Width : Pow2[n] \in Nat /\ Pow2[n] >= 1
<1> DEFINE T == {n \in 0 .. Width : ~(Pow2[n] \in Nat /\ Pow2[n] >= 1)}
<1> SUFFICES ASSUME T # {} PROVE FALSE
  OBVIOUS
<1>0. Width \in Nat
  BY AddressAssumption
<1>1. PICK n \in T : \A m \in T : n <= m
  <2>1. T \in SUBSET Nat
    BY <1>0
  <2> HIDE DEF T
  <2> QED BY <2>1, Least
<1>2. Pow2[n] = IF n = 0 THEN 1 ELSE 2 * Pow2[n - 1]
  BY Pow2Is
<1>3. CASE n = 0
  BY <1>2, <1>3
<1>4. CASE n # 0
  <2>1. n - 1 \in 0 .. Width /\ n - 1 \notin T
    BY <1>0, <1>1, <1>4
  <2>2. Pow2[n - 1] \in Nat /\ Pow2[n - 1] >= 1
    BY <2>1
  <2> QED BY <1>2, <1>4, <2>2
<1> QED BY <1>3, <1>4

(* A greater power of two is greater. *)
LEMMA PowersGrow ==
  \A n \in 0 .. Width : \A m \in 0 .. n : m # n => Pow2[m] < Pow2[n]
<1> DEFINE T == {n \in 0 .. Width : ~\A m \in 0 .. n : m # n => Pow2[m] < Pow2[n]}
<1> SUFFICES ASSUME T # {} PROVE FALSE
  OBVIOUS
<1>0. Width \in Nat
  BY AddressAssumption
<1>1. PICK n \in T : \A m \in T : n <= m
  <2>1. T \in SUBSET Nat
    BY <1>0
  <2> HIDE DEF T
  <2> QED BY <2>1, Least
<1>2. PICK m \in 0 .. n : m # n /\ ~(Pow2[m] < Pow2[n])
  OBVIOUS
<1>3. n - 1 \in 0 .. Width /\ n - 1 \notin T /\ n \in 0 .. Width
  BY <1>0, <1>1, <1>2
<1>4. m \in 0 .. n - 1 /\ m \in 0 .. Width
  BY <1>0, <1>2, <1>3
<1>5. Pow2[n] = 2 * Pow2[n - 1]
  BY <1>2, <1>3, Pow2Is
<1>6. Pow2[n - 1] \in Nat /\ Pow2[n - 1] >= 1 /\ Pow2[m] \in Nat
  BY <1>3, <1>4, Pow2Positive
<1>7. m = n - 1 \/ Pow2[m] < Pow2[n - 1]
  BY <1>3, <1>4
<1> QED BY <1>2, <1>5, <1>6, <1>7

(* The width is cut by a prefix in two. *)
LEMMA PowersMultiply ==
  \A n \in 0 .. Width : Pow2[Width] = Pow2[Width - n] * Pow2[n]
<1> DEFINE T == {n \in 0 .. Width : Pow2[Width] # Pow2[Width - n] * Pow2[n]}
<1> SUFFICES ASSUME T # {} PROVE FALSE
  OBVIOUS
<1>0. Width \in Nat
  BY AddressAssumption
<1>1. PICK n \in T : \A m \in T : n <= m
  <2>1. T \in SUBSET Nat
    BY <1>0
  <2> HIDE DEF T
  <2> QED BY <2>1, Least
<1>2. CASE n = 0
  <2>1. Pow2[0] = 1 /\ Pow2[Width] \in Nat /\ Width - 0 = Width
    BY <1>0, Pow2Is, Pow2Positive
  <2> QED BY <1>2, <2>1
<1>3. CASE n # 0
  <2>1. /\ n - 1 \in 0 .. Width /\ n - 1 \notin T /\ n \in 0 .. Width
        /\ Width - n \in 0 .. Width /\ Width - (n - 1) \in 0 .. Width
        /\ Width - (n - 1) # 0 /\ Width - (n - 1) - 1 = Width - n
    BY <1>0, <1>1, <1>3
  <2>2. Pow2[n] = 2 * Pow2[n - 1] /\ Pow2[Width - (n - 1)] = 2 * Pow2[Width - n]
    BY <1>3, <2>1, Pow2Is
  <2>3. Pow2[n - 1] \in Nat /\ Pow2[Width - n] \in Nat
    BY <2>1, Pow2Positive
  <2>4. Pow2[Width] = Pow2[Width - (n - 1)] * Pow2[n - 1]
    BY <2>1
  <2>5. Pow2[Width] = Pow2[Width - n] * Pow2[n]
    <3> DEFINE x == Pow2[Width - n]
               y == Pow2[n - 1]
    <3>1. x \in Nat /\ y \in Nat
      BY <2>3
    <3>2. (2 * x) * y = x * (2 * y)
      <4> HIDE DEF x, y
      <4> QED BY <3>1
    <3> QED BY <2>2, <2>4, <3>2
  <2> QED BY <2>5
<1> QED BY <1>2, <1>3

---------------------------------------------------------------------------
(* The networks of a scan and their hosts. *)

(* What is left of a number without its remainder is not negative. *)
LEMMA Remainder ==
  ASSUME NEW a \in Nat, NEW b \in Nat, b >= 1
  PROVE  a % b \in 0 .. b - 1 /\ a % b <= a /\ a - (a % b) \in 0 .. a
OBVIOUS

(* A number is its quotient times the divisor and a remainder. *)
LEMMA Division ==
  ASSUME NEW a \in Nat, NEW b \in Nat, b >= 1
  PROVE  /\ a \div b \in Nat /\ a % b \in 0 .. b - 1
         /\ a = b * (a \div b) + (a % b)
OBVIOUS

(* A product grows with its factor. *)
LEMMA Product ==
  ASSUME NEW b \in Nat, b >= 1, NEW m \in Int, NEW n \in Int, m < n
  PROVE  b * m + b <= b * n
<1>1. b * (n - m - 1) >= 0
  OBVIOUS
<1>2. b * (n - m - 1) = b * n - b * m - b
  OBVIOUS
<1> QED BY <1>1, <1>2

(* Only one quotient leaves a remainder that is less than the divisor. *)
LEMMA OneQuotient ==
  ASSUME NEW b \in Nat, b >= 1, NEW m \in Int, NEW n \in Int,
         NEW r \in 0 .. b - 1, NEW s \in 0 .. b - 1, b * m + r = b * n + s
  PROVE  m = n /\ r = s
<1>1. ~(m < n)
  <2> SUFFICES ASSUME m < n PROVE FALSE
    OBVIOUS
  <2> DEFINE x == b * m
             y == b * n
  <2>1. x + b <= y /\ x \in Int /\ y \in Int
    BY Product
  <2> HIDE DEF x, y
  <2>2. x + r = y + s
    BY DEF x, y
  <2> QED BY <2>1, <2>2
<1>2. ~(n < m)
  <2> SUFFICES ASSUME n < m PROVE FALSE
    OBVIOUS
  <2> DEFINE x == b * m
             y == b * n
  <2>1. y + b <= x /\ x \in Int /\ y \in Int
    BY Product
  <2> HIDE DEF x, y
  <2>2. x + r = y + s
    BY DEF x, y
  <2> QED BY <2>1, <2>2
<1>3. m = n
  BY <1>1, <1>2
<1>4. r = s
  <2> DEFINE x == b * n
  <2>1. x + r = x + s /\ x \in Int
    BY <1>3
  <2> HIDE DEF x
  <2> QED BY <2>1
<1> QED BY <1>3, <1>4

(* The hosts of a prefix come one after the other. *)
LEMMA HostsAre ==
  ASSUME NEW p \in Prefix
  PROVE  /\ BlockSize(p) \in Nat /\ BlockSize(p) >= 1 /\ Masked(p) \in Nat
         /\ Hosts(p) \in Seq(Nat)
         /\ Len(Hosts(p)) = IF BlockSize(p) > 2 THEN BlockSize(p) - 2 ELSE BlockSize(p) - 1
         /\ \A k \in 1 .. Len(Hosts(p)) : Hosts(p)[k] = Masked(p) + k
<1> DEFINE b == BlockSize(p)
           m == Masked(p)
           after == [k \in 1 .. b - 1 |-> m + k]
<1>1. p.addr \in Nat /\ p.ones \in 0 .. Width /\ Width \in Nat
  <2>1. Width \in Nat
    BY AddressAssumption
  <2>2. Pow2[Width] \in Nat
    BY <2>1, Pow2Positive
  <2> QED BY <2>1, <2>2 DEF Prefix, Address
<1>2. b \in Nat /\ b >= 1
  BY <1>1, Pow2Positive DEF BlockSize
<1>3. m \in Nat
  <2>1. p.addr - (p.addr % b) \in 0 .. p.addr
    BY <1>1, <1>2, Remainder, Zenon
  <2> QED BY <1>1, <2>1 DEF Masked
<1>4. Hosts(p) = IF Len(after) > 1 THEN SubSeq(after, 1, Len(after) - 1) ELSE after
  BY DEF Hosts, AfterBase, Front
<1> HIDE DEF b, m
<1>5. after \in Seq(Nat) /\ Len(after) = b - 1 /\ \A k \in 1 .. b - 1 : after[k] = m + k
  BY <1>2, <1>3
<1> HIDE DEF after
<1>6. CASE b > 2
  <2> DEFINE front == SubSeq(after, 1, b - 2)
  <2>1. Hosts(p) = front
    BY <1>2, <1>4, <1>5, <1>6
  <2>2. front \in Seq(Nat) /\ Len(front) = b - 2 /\ \A k \in 1 .. b - 2 : front[k] = after[k]
    BY <1>2, <1>5, <1>6
  <2> HIDE DEF front
  <2>3. \A k \in 1 .. b - 2 : front[k] = m + k
    BY <1>2, <1>5, <2>2
  <2> QED BY <1>2, <1>3, <1>6, <2>1, <2>2, <2>3 DEF b, m
<1>7. CASE ~(b > 2)
  BY <1>2, <1>3, <1>4, <1>5, <1>7 DEF b, m
<1> QED BY <1>6, <1>7

(* The addresses of a network come one after the other. *)
LEMMA BlockIs ==
  ASSUME NEW p \in Prefix
  PROVE  /\ BlockSize(p) \in Nat /\ BlockSize(p) >= 1 /\ Masked(p) \in Nat
         /\ InBlock(p) = Masked(p) .. Masked(p) + BlockSize(p) - 1
<1> DEFINE b == BlockSize(p)
           c == Pow2[p.ones]
           all == Pow2[Width]
           q == p.addr \div b
           r == p.addr % b
<1>1. p.addr \in Nat /\ p.addr < all /\ p.ones \in 0 .. Width /\ Width \in Nat /\ all \in Nat
  <2>1. Width \in Nat
    BY AddressAssumption
  <2>2. Pow2[Width] \in Nat
    BY <2>1, Pow2Positive
  <2> QED BY <2>1, <2>2 DEF Prefix, Address
<1>2. b \in Nat /\ b >= 1 /\ c \in Nat
  BY <1>1, Pow2Positive DEF BlockSize
<1>3. all = b * c
  BY <1>1, PowersMultiply DEF BlockSize
<1>4. q \in Nat /\ r \in 0 .. b - 1 /\ p.addr = b * q + r
  BY <1>1, <1>2, Division
<1>5. Masked(p) = p.addr - r
  BY DEF Masked
<1> DEFINE m == b * q
<1>6. m \in Nat /\ Masked(p) = m
  <2>1. m \in Nat /\ p.addr = m + r
    BY <1>2, <1>4
  <2> HIDE DEF m, q, r
  <2> QED BY <1>4, <1>5, <2>1
<1> HIDE DEF r
<1>7. m + b <= all
  <2>1. q < c
    <3> SUFFICES ASSUME ~(q < c) PROVE FALSE
      OBVIOUS
    <3>1. b * c <= b * q
      <4>1. CASE q = c
        BY <1>2, <1>4, <4>1
      <4>2. CASE c < q
        <5> DEFINE x == b * c
                   y == b * q
        <5>1. x + b <= y /\ x \in Int /\ y \in Int
          <6> HIDE DEF q, b, c
          <6> QED BY <1>2, <1>4, <4>2, Product
        <5> HIDE DEF x, y, b
        <5>2. x <= y
          BY <1>2, <5>1
        <5> QED BY <5>2 DEF x, y
      <4> HIDE DEF q, b, c
      <4> QED BY <1>2, <1>4, <4>1, <4>2
    <3> HIDE DEF m
    <3>2. p.addr = m + r /\ all <= m
      BY <1>3, <1>4, <3>1 DEF m
    <3> HIDE DEF all, b
    <3> QED BY <1>1, <1>2, <1>4, <1>6, <3>2
  <2> HIDE DEF b, c, q
  <2> QED BY <1>2, <1>3, <1>4, <2>1, Product
<1>8. ASSUME NEW a \in m .. m + b - 1
      PROVE  a \in Address /\ a \div b = q
  <2>1. a \in Nat /\ a - m \in 0 .. b - 1 /\ a < all
    <3> HIDE DEF m, b, all
    <3> QED BY <1>1, <1>2, <1>6, <1>7
  <2>2. a \in Address
    BY <1>1, <2>1 DEF Address
  <2>3. a \div b \in Nat /\ a % b \in 0 .. b - 1 /\ a = b * (a \div b) + (a % b)
    BY <1>2, <2>1, Division
  <2>4. a = b * q + (a - m)
    <3>1. a = m + (a - m)
      <4> HIDE DEF m
      <4> QED BY <1>6, <2>1
    <3> QED BY <3>1
  <2> DEFINE d == a \div b
             s == a % b
             t == a - m
  <2>5. b * d + s = b * q + t /\ d \in Int /\ q \in Int /\ s \in 0 .. b - 1 /\ t \in 0 .. b - 1
    BY <1>4, <2>1, <2>3, <2>4
  <2> HIDE DEF d, s, t, b, q
  <2>6. d = q
    BY <1>2, <2>5, OneQuotient
  <2> QED BY <2>2, <2>6 DEF d
<1>9. ASSUME NEW a \in Address, a \div b = q
      PROVE  a \in m .. m + b - 1
  <2>1. a \in Nat
    BY <1>1 DEF Address
  <2> DEFINE s == a % b
  <2>2. s \in 0 .. b - 1 /\ a = m + s
    BY <1>2, <1>9, <2>1, Division
  <2> HIDE DEF s, m, b
  <2> QED BY <1>2, <1>6, <2>1, <2>2
<1>10. InBlock(p) = {a \in Address : a \div b = q}
  BY DEF InBlock
<1> HIDE DEF b, q, m
<1>11. InBlock(p) = m .. m + b - 1
  BY <1>8, <1>9, <1>10
<1> QED BY <1>2, <1>6, <1>11 DEF b

(* Networks without host bits that have the same addresses are the same. *)
LEMMA BlocksDiffer ==
  ASSUME NEW p \in Prefix, NEW q \in Prefix, Masked(p) = p.addr, Masked(q) = q.addr,
         InBlock(p) = InBlock(q)
  PROVE  p = q
<1> DEFINE b == BlockSize(p)
           c == BlockSize(q)
           m == p.addr
           n == q.addr
<1>1. b \in Nat /\ b >= 1 /\ c \in Nat /\ c >= 1 /\ m \in Nat /\ n \in Nat
  BY BlockIs
<1>2. m .. m + b - 1 = n .. n + c - 1
  BY BlockIs
<1>3. /\ p.ones \in 0 .. Width /\ q.ones \in 0 .. Width /\ Width \in Nat
      /\ p = [addr |-> m, ones |-> p.ones] /\ q = [addr |-> n, ones |-> q.ones]
  BY AddressAssumption DEF Prefix
<1>4. m = n /\ b = c
  <2> HIDE DEF b, c, m, n
  <2>1. /\ m \in m .. m + b - 1 /\ m + b - 1 \in m .. m + b - 1
        /\ n \in n .. n + c - 1 /\ n + c - 1 \in n .. n + c - 1
    BY <1>1
  <2>2. /\ m \in n .. n + c - 1 /\ m + b - 1 \in n .. n + c - 1
        /\ n \in m .. m + b - 1 /\ n + c - 1 \in m .. m + b - 1
    BY <1>2, <2>1
  <2> QED BY <1>1, <2>2
<1>5. p.ones = q.ones
  <2> DEFINE i == Width - p.ones
             j == Width - q.ones
  <2>1. i \in 0 .. Width /\ j \in 0 .. Width /\ Pow2[i] = Pow2[j]
    BY <1>3, <1>4 DEF BlockSize
  <2>2. Pow2[i] \in Nat /\ Pow2[j] \in Nat
    BY <2>1, Pow2Positive
  <2>3. ~(i < j) /\ ~(j < i)
    <3>1. ASSUME i < j PROVE FALSE
      <4>1. i \in 0 .. j /\ i # j
        BY <1>3, <2>1, <3>1
      <4> HIDE DEF i, j
      <4> QED BY <2>1, <2>2, <4>1, PowersGrow
    <3>2. ASSUME j < i PROVE FALSE
      <4>1. j \in 0 .. i /\ i # j
        BY <1>3, <2>1, <3>2
      <4> HIDE DEF i, j
      <4> QED BY <2>1, <2>2, <4>1, PowersGrow
    <3> QED BY <3>1, <3>2
  <2> QED BY <1>3, <2>3
<1> QED BY <1>3, <1>4, <1>5

(* Masking a network changes nothing. *)
LEMMA MaskedOnce ==
  ASSUME NEW p \in Prefix
  PROVE  LET n == [addr |-> Masked(p), ones |-> p.ones]
         IN  n \in Prefix /\ Masked(n) = n.addr
<1> DEFINE n == [addr |-> Masked(p), ones |-> p.ones]
           b == BlockSize(p)
           q == p.addr \div b
           r == p.addr % b
           m == b * q
<1>1. b \in Nat /\ b >= 1 /\ Masked(p) \in InBlock(p) /\ Masked(p) \in Nat
  BY BlockIs
<1>2. p.addr \in Nat /\ p.ones \in 0 .. Width
  <2>1. Width \in Nat
    BY AddressAssumption
  <2>2. Pow2[Width] \in Nat
    BY <2>1, Pow2Positive
  <2> QED BY <2>1, <2>2 DEF Prefix, Address
<1>3. n \in Prefix
  BY <1>1, <1>2 DEF Prefix, InBlock
<1>4. q \in Nat /\ r \in 0 .. b - 1 /\ p.addr = b * q + r
  BY <1>1, <1>2, Division
<1>5. Masked(p) = m /\ m \in Nat
  <2>1. m \in Nat /\ p.addr = m + r /\ Masked(p) = p.addr - r
    BY <1>1, <1>4 DEF Masked
  <2> HIDE DEF m, r, q, b
  <2> QED BY <1>4, <2>1
<1>6. m % b = 0
  <2> DEFINE d == m \div b
             s == m % b
  <2>1. d \in Nat /\ s \in 0 .. b - 1 /\ m = b * d + s
    BY <1>1, <1>5, Division
  <2>2. b * d + s = b * q + 0
    <3>1. b * d + s = m /\ m + 0 = m
      BY <1>5, <2>1
    <3> QED BY <3>1
  <2>3. 0 \in 0 .. b - 1 /\ q \in Int /\ d \in Int
    BY <1>1, <1>4, <2>1
  <2> HIDE DEF d, q, b, s
  <2>4. s = 0
    BY <1>1, <2>1, <2>2, <2>3, OneQuotient
  <2> QED BY <2>4 DEF s
<1>7. BlockSize(n) = b
  BY DEF BlockSize
<1>8. Masked(n) = m - (m % b)
  BY <1>5, <1>7 DEF Masked
<1> HIDE DEF m, b
<1>9. Masked(n) = n.addr
  BY <1>5, <1>6, <1>8
<1> QED BY <1>3, <1>9

(* The hosts that are scanned are the addresses a host can have. *)
LEMMA HostsAreUsable ==
  ASSUME NEW p \in Prefix
  PROVE  Usable(p) = {Hosts(p)[k] : k \in 1 .. Len(Hosts(p))}
<1> DEFINE b == BlockSize(p)
           m == Masked(p)
           n == Len(Hosts(p))
           few == Cardinality(InBlock(p))
<1>1. b \in Nat /\ b >= 1 /\ m \in Nat /\ InBlock(p) = m .. m + b - 1
  BY BlockIs
<1>2. /\ n = IF b > 2 THEN b - 2 ELSE b - 1
      /\ \A k \in 1 .. n : Hosts(p)[k] = m + k
  BY HostsAre
<1>3. few = b
  <2> HIDE DEF b, m
  <2>1. m \in Int /\ m + b - 1 \in Int
    BY <1>1
  <2>2. Cardinality(m .. m + b - 1) = IF m > m + b - 1 THEN 0 ELSE (m + b - 1) - m + 1
    BY <2>1, FS_Interval
  <2>3. Cardinality(m .. m + b - 1) = b
    BY <1>1, <2>2
  <2> QED BY <1>1, <2>3
<1>4. Usable(p) = {a \in InBlock(p) : (\E x \in InBlock(p) : x < a)
                                      /\ (few > 2 => \E x \in InBlock(p) : a < x)}
  BY Zenon DEF Usable
<1> HIDE DEF b, m, n, few
<1>5. \A a : a \in Usable(p) <=> a \in m + 1 .. m + n
  <2>1. ASSUME NEW a, a \in Usable(p) PROVE a \in m + 1 .. m + n
    <3>1. /\ a \in m .. m + b - 1
          /\ \E x \in m .. m + b - 1 : x < a
          /\ b > 2 => \E x \in m .. m + b - 1 : a < x
      BY <1>1, <1>3, <1>4, <2>1
    <3>2. a > m /\ (b > 2 => a < m + b - 1) /\ a \in Int /\ a <= m + b - 1
      BY <1>1, <3>1
    <3>3. a <= m + n /\ n \in Int
      BY <1>1, <1>2, <3>2
    <3> QED BY <1>1, <3>2, <3>3
  <2>2. ASSUME NEW a \in m + 1 .. m + n PROVE a \in Usable(p)
    <3>0. n \in Int /\ n <= b - 1 /\ (b > 2 => n = b - 2)
      BY <1>1, <1>2
    <3>1. a \in Int /\ a \in m .. m + b - 1 /\ m \in m .. m + b - 1 /\ m < a
      BY <1>1, <3>0
    <3>2. b > 2 => m + b - 1 \in m .. m + b - 1 /\ a < m + b - 1
      BY <1>1, <3>0, <3>1
    <3>3. a \in InBlock(p) /\ \E x \in InBlock(p) : x < a
      BY <1>1, <3>1
    <3>4. few > 2 => \E x \in InBlock(p) : a < x
      BY <1>1, <1>3, <3>2
    <3> QED BY <1>4, <3>3, <3>4
  <2> QED BY <2>1, <2>2
<1>6. ASSUME NEW a \in m + 1 .. m + n PROVE \E k \in 1 .. n : a = Hosts(p)[k]
  <2>1. a - m \in 1 .. n /\ a = m + (a - m)
    BY <1>1, <1>2
  <2> QED BY <1>2, <2>1
<1>7. ASSUME NEW k \in 1 .. n PROVE Hosts(p)[k] \in m + 1 .. m + n
  BY <1>1, <1>2
<1>8. Usable(p) = {Hosts(p)[k] : k \in 1 .. n}
  BY <1>5, <1>6, <1>7
<1> QED BY <1>8 DEF n

---------------------------------------------------------------------------
(* Numbers in order. *)

(* InOrder lists each element of a finite set once, the smaller ones first: *)
(* an element comes behind just as many as there are smaller ones.          *)
LEMMA Enumerates ==
  ASSUME NEW S \in SUBSET Int, IsFiniteSet(S)
  PROVE  LET n == Cardinality(S)
         IN  /\ n \in Nat /\ InOrder(S) \in [1 .. n -> S]
             /\ \A x \in S : /\ Cardinality({m \in S : m < x}) \in 0 .. n - 1
                             /\ InOrder(S)[Cardinality({m \in S : m < x}) + 1] = x
             /\ \A j, k \in 1 .. n : InOrder(S)[j] = InOrder(S)[k] => j = k
<1> DEFINE n == Cardinality(S)
           below == [x \in S |-> {m \in S : m < x}]
           place == [x \in S |-> Cardinality(below[x]) + 1]
<1>0. n \in Nat
  BY FS_CardinalityType
<1>1. ASSUME NEW x \in S
      PROVE  /\ IsFiniteSet(below[x]) /\ Cardinality(below[x]) \in Nat
             /\ Cardinality(below[x]) <= n - 1
  <2>1. below[x] \subseteq S \ {x}
    OBVIOUS
  <2>2. IsFiniteSet(S \ {x}) /\ Cardinality(S \ {x}) = n - 1
    BY FS_RemoveElement
  <2> HIDE DEF below, n
  <2>3. IsFiniteSet(below[x]) /\ Cardinality(below[x]) <= Cardinality(S \ {x})
    BY <2>1, <2>2, FS_Subset
  <2> QED BY <2>2, <2>3, FS_CardinalityType
<1>2. ASSUME NEW x \in S, NEW y \in S, x < y
      PROVE  Cardinality(below[x]) < Cardinality(below[y])
  <2>0. below[x] = {m \in S : m < x} /\ below[y] = {m \in S : m < y}
    OBVIOUS
  <2> HIDE DEF below
  <2>a. \A m \in S : m < x => m < y
    BY <1>2
  <2>b. ~(x < x)
    OBVIOUS
  <2>1. below[x] \cup {x} \subseteq below[y] /\ x \notin below[x]
    BY <1>2, <2>0, <2>a, <2>b, Zenon
  <2>2. Cardinality(below[x] \cup {x}) = Cardinality(below[x]) + 1
    BY <1>1, <2>1, FS_AddElement
  <2>3. Cardinality(below[x] \cup {x}) <= Cardinality(below[y])
    BY <1>1, <2>1, FS_Subset
  <2> QED BY <1>1, <2>2, <2>3
<1>3. \A x \in S : place[x] = Cardinality({m \in S : m < x}) + 1
  OBVIOUS
<1>e. InOrder(S) = [k \in 1 .. n |-> CHOOSE x \in S : Cardinality({m \in S : m < x}) = k - 1]
  BY DEF InOrder
<1>c. \A x \in S : below[x] = {m \in S : m < x}
  OBVIOUS
<1> HIDE DEF below, n
<1>4. place \in [S -> 1 .. n]
  BY <1>0, <1>1
<1>5. \A x, y \in S : place[x] = place[y] => x = y
  <2> SUFFICES ASSUME NEW x \in S, NEW y \in S, x # y PROVE place[x] # place[y]
    OBVIOUS
  <2>1. x < y \/ y < x
    OBVIOUS
  <2> QED BY <1>1, <1>2, <2>1
<1> HIDE DEF place
<1>6. IsFiniteSet(1 .. n) /\ Cardinality(1 .. n) = n
  BY <1>0, FS_Interval
<1>7. \A k \in 1 .. n : \E x \in S : place[x] = k
  <2>1. place \in Injection(S, 1 .. n)
    BY <1>4, <1>5, Fun_IsInj
  <2>2. place \in Surjection(S, 1 .. n)
    BY <1>6, <2>1, FS_Injection, Zenon DEF n
  <2> QED BY <2>2 DEF Surjection
<1>8. \A k \in 1 .. n : InOrder(S)[k] \in S /\ place[InOrder(S)[k]] = k
  <2> SUFFICES ASSUME NEW k \in 1 .. n PROVE InOrder(S)[k] \in S /\ place[InOrder(S)[k]] = k
    OBVIOUS
  <2>1. PICK y \in S : place[y] = k
    BY <1>7
  <2>2. Cardinality(below[y]) = k - 1
    BY <1>1, <1>3, <1>c, <2>1
  <2>3. \E x \in S : Cardinality({m \in S : m < x}) = k - 1
    BY <1>c, <2>2
  <2> DEFINE z == CHOOSE x \in S : Cardinality({m \in S : m < x}) = k - 1
  <2>4. z \in S /\ Cardinality({m \in S : m < z}) = k - 1
    BY <2>3
  <2>5. InOrder(S)[k] = z
    BY <1>e
  <2> HIDE DEF z
  <2> QED BY <1>3, <2>4, <2>5
<1>9. ASSUME NEW x \in S
      PROVE  /\ Cardinality({m \in S : m < x}) \in 0 .. n - 1
             /\ InOrder(S)[Cardinality({m \in S : m < x}) + 1] = x
  <2>1. Cardinality({m \in S : m < x}) \in 0 .. n - 1
    BY <1>0, <1>1, <1>c
  <2>2. place[x] \in 1 .. n /\ place[InOrder(S)[place[x]]] = place[x] /\ InOrder(S)[place[x]] \in S
    BY <1>4, <1>8
  <2>3. InOrder(S)[place[x]] = x
    BY <1>5, <2>2
  <2> QED BY <1>3, <2>1, <2>3
<1>10. InOrder(S) \in [1 .. n -> S]
  BY <1>e, <1>8
<1>11. \A j, k \in 1 .. n : InOrder(S)[j] = InOrder(S)[k] => j = k
  BY <1>8
<1> QED BY <1>0, <1>9, <1>10, <1>11 DEF n

(* The elements of the list are those of the set. *)
LEMMA ListsAll ==
  ASSUME NEW S \in SUBSET Int, IsFiniteSet(S)
  PROVE  /\ InOrder(S) \in Seq(S) /\ Len(InOrder(S)) = Cardinality(S)
         /\ \A x : x \in S <=> \E k \in 1 .. Len(InOrder(S)) : InOrder(S)[k] = x
         /\ \A j, k \in 1 .. Len(InOrder(S)) : InOrder(S)[j] = InOrder(S)[k] => j = k
<1> DEFINE n == Cardinality(S)
           list == InOrder(S)
<1>1. n \in Nat /\ list \in [1 .. n -> S] /\ \A j, k \in 1 .. n : list[j] = list[k] => j = k
  BY Enumerates
<1>2. \A x \in S : \E k \in 1 .. n : list[k] = x
  <2> SUFFICES ASSUME NEW x \in S PROVE \E k \in 1 .. n : list[k] = x
    OBVIOUS
  <2> DEFINE k == Cardinality({m \in S : m < x})
  <2>1. k \in 0 .. n - 1 /\ list[k + 1] = x
    BY Enumerates
  <2> HIDE DEF k, list
  <2>2. k + 1 \in 1 .. n
    BY <1>1, <2>1
  <2> QED BY <2>1, <2>2
<1> HIDE DEF n, list
<1>3. list \in Seq(S) /\ Len(list) = n
  BY <1>1
<1>4. \A k \in 1 .. n : list[k] \in S
  BY <1>1
<1>5. \A x : x \in S <=> \E k \in 1 .. n : list[k] = x
  BY <1>2, <1>4
<1>6. /\ list \in Seq(S) /\ Len(list) = n
      /\ \A x : x \in S <=> \E k \in 1 .. Len(list) : list[k] = x
      /\ \A j, k \in 1 .. Len(list) : list[j] = list[k] => j = k
  BY <1>1, <1>3, <1>5
<1> QED BY <1>6 DEF n, list

---------------------------------------------------------------------------
(* The items of the Config form. *)

(* The counter of expandRangeSpec, as wide as an address, ends the loop     *)
(* right behind the last address, also when that is the last one there is. *)
LEMMA RoundsAre ==
  ASSUME NEW from \in Address, NEW to \in Address, from <= to
  PROVE  /\ Rounds(from, to) = to - from + 1
         /\ \A k \in 1 .. to - from + 1 : ValueAt(from, k - 1) = from + k - 1
<1> DEFINE P == Pow2[Width]
           n == to - from + 1
           ends == {k \in 1 .. P : BreaksAt(ValueAt(from, k - 1), to) \/ ValueAt(from, k) > to}
<1>1. P \in Nat /\ P >= 1 /\ from \in 0 .. P - 1 /\ to \in 0 .. P - 1
  BY Pow2Positive, AddressAssumption DEF Address
<1>v. \A k : ValueAt(from, k) = (from + k) % P
  BY DEF ValueAt
<1>r. Rounds(from, to) = Min({P} \cup ends)
  BY DEF Rounds
<1>d. \A k : k \in ends <=> k \in 1 .. P /\ (ValueAt(from, k - 1) = to \/ ValueAt(from, k) > to)
  BY DEF BreaksAt
<1> HIDE DEF P, ends
<1>2. \A j \in 0 .. to - from : ValueAt(from, j) = from + j
  <2> SUFFICES ASSUME NEW j \in 0 .. to - from PROVE ValueAt(from, j) = from + j
    OBVIOUS
  <2>1. from + j \in 0 .. P - 1
    BY <1>1
  <2>2. (from + j) % P = from + j
    BY <1>1, <2>1
  <2> QED BY <1>v, <2>2
<1>3. n \in 1 .. P /\ n \in ends
  <2>1. n \in 1 .. P /\ n - 1 \in 0 .. to - from /\ from + (n - 1) = to
    BY <1>1
  <2> HIDE DEF n
  <2>2. ValueAt(from, n - 1) = to
    BY <1>2, <2>1
  <2> QED BY <1>d, <2>1, <2>2
<1>4. ASSUME NEW k \in ends PROVE n <= k
  <2> SUFFICES ASSUME k < n PROVE FALSE
    BY <1>1, <1>d
  <2>1. k \in 1 .. P /\ k - 1 \in 0 .. to - from /\ k \in 0 .. to - from
    BY <1>1, <1>d
  <2>2. ValueAt(from, k - 1) = from + (k - 1) /\ ValueAt(from, k) = from + k
    BY <1>2, <2>1
  <2>3. from + (k - 1) # to /\ ~(from + k > to)
    BY <1>1, <2>1
  <2> QED BY <1>d, <2>2, <2>3
<1>5. n \in {P} \cup ends /\ \A k \in {P} \cup ends : n <= k
  BY <1>3, <1>4
<1>6. ASSUME NEW k \in {P} \cup ends, \A j \in {P} \cup ends : k <= j PROVE k = n
  <2>1. k <= n /\ n <= k
    BY <1>5, <1>6
  <2>2. k \in Int /\ n \in Int
    BY <1>1, <1>d
  <2> HIDE DEF n
  <2> QED BY <2>1, <2>2
<1>7. Min({P} \cup ends) = n
  <2>1. Min({P} \cup ends) = CHOOSE k \in {P} \cup ends : \A j \in {P} \cup ends : k <= j
    BY DEF Min
  <2> HIDE DEF n
  <2> QED BY <1>5, <1>6, <2>1
<1>8. ASSUME NEW k \in 1 .. n PROVE ValueAt(from, k - 1) = from + k - 1
  <2>1. k - 1 \in 0 .. to - from /\ from + (k - 1) = from + k - 1
    BY <1>1
  <2>2. ValueAt(from, k - 1) = from + (k - 1)
    BY <1>2, <2>1
  <2> QED BY <2>1, <2>2
<1> QED BY <1>7, <1>8, <1>r

(* What expandRangeSpec yields, if anything. *)
LEMMA RangeIs ==
  ASSUME NEW from \in Address, NEW to \in Address, NEW maxHosts \in Nat,
         ExpandRange(from, to, maxHosts).ok
  PROVE  /\ ToSet(ExpandRange(from, to, maxHosts).addresses) = from .. to
         /\ Cardinality(from .. to) <= maxHosts
<1> DEFINE n == to - from + 1
           list == [k \in 1 .. n |-> from + k - 1]
<1>0. from \in Nat /\ to \in Nat
  BY Pow2Positive, AddressAssumption DEF Address
<1>1. from <= to /\ n <= maxHosts
  BY <1>0 DEF ExpandRange, RangeCount, Refusal
<1>2. /\ Rounds(from, to) = n
      /\ \A k \in 1 .. n : ValueAt(from, k - 1) = from + k - 1
  BY <1>1, RoundsAre
<1>3. ExpandRange(from, to, maxHosts).addresses = [k \in 1 .. Rounds(from, to) |-> ValueAt(from, k - 1)]
  BY <1>0, <1>1 DEF ExpandRange, RangeCount, Expansion
<1>4. [k \in 1 .. n |-> ValueAt(from, k - 1)] = list
  BY <1>2
<1>5. ExpandRange(from, to, maxHosts).addresses = list
  BY <1>2, <1>3, <1>4, Zenon
<1>6. ToSet(list) = from .. to
  <2>1. ToSet(list) = {list[k] : k \in 1 .. n}
    BY DEF ToSet
  <2>2. ASSUME NEW k \in 1 .. n PROVE list[k] \in from .. to
    BY <1>0
  <2>3. ASSUME NEW x \in from .. to PROVE \E k \in 1 .. n : list[k] = x
    <3>1. x - from + 1 \in 1 .. n /\ list[x - from + 1] = x
      BY <1>0
    <3> QED BY <3>1
  <2> HIDE DEF list
  <2> QED BY <2>1, <2>2, <2>3
<1>7. Cardinality(from .. to) = n
  <2>1. from \in Int /\ to \in Int
    BY <1>0
  <2>2. Cardinality(from .. to) = IF from > to THEN 0 ELSE to - from + 1
    BY <2>1, FS_Interval
  <2> QED BY <1>0, <1>1, <2>2
<1> QED BY <1>1, <1>5, <1>6, <1>7

(* The addresses with the octets of another and a last one not above a      *)
(* limit are those up to one address, which is one of the space.            *)
LEMMA OctetRange ==
  ASSUME NEW from \in Address, NEW last \in 0 .. Pow2[OctetBits] - 1
  PROVE  LET o == Pow2[OctetBits]
             to == from - (from % o) + last
         IN  /\ to \in Address
             /\ {a \in Address : from <= a /\ a \div o = from \div o /\ a % o <= last} = from .. to
<1> DEFINE o == Pow2[OctetBits]
           P == Pow2[Width]
           c == Pow2[Width - OctetBits]
           q == from \div o
           s == from % o
           base == o * q
           to == from - s + last
<1>1. Width \in Nat /\ OctetBits \in 0 .. Width /\ Width - OctetBits \in 0 .. Width /\ Width \in 0 .. Width
  BY AddressAssumption
<1>2. o \in Nat /\ o >= 1 /\ P \in Nat /\ c \in Nat
  BY <1>1, Pow2Positive
<1>3. P = c * o
  BY <1>1, PowersMultiply
<1>4. from \in Nat /\ from <= P - 1 /\ Address = 0 .. P - 1
  BY <1>2 DEF Address
<1>5. q \in Nat /\ s \in 0 .. o - 1 /\ from = base + s /\ base \in Nat
  <2>1. q \in Nat /\ s \in 0 .. o - 1 /\ from = o * q + s
    BY <1>2, <1>4, Division
  <2> HIDE DEF q, s, o
  <2> QED BY <1>2, <2>1
<1>t. to = from - s + last
  OBVIOUS
<1>a. \A a \in Nat : a \div o \in Nat /\ a % o \in 0 .. o - 1 /\ a = o * (a \div o) + (a % o)
  BY <1>2, Division
<1>m. last \in 0 .. o - 1
  OBVIOUS
<1>s. {a \in Address : from <= a /\ a \div o = q /\ a % o <= last} =
        {a \in Address : from <= a /\ a \div o = from \div o /\ a % o <= last}
  OBVIOUS
<1> HIDE DEF to, s
<1>b. o * q = base
  OBVIOUS
<1> HIDE DEF base, q
<1>h. o * c = P
  <2> HIDE DEF o, c, P
  <2> QED BY <1>2, <1>3
<1> HIDE DEF o, c, P
<1>6. base + o <= P
  <2>1. q < c
    <3> SUFFICES ASSUME c <= q PROVE FALSE
      BY <1>2, <1>5
    <3>1. c = q \/ c < q
      BY <1>2, <1>5
    <3>2. c < q => o * c + o <= o * q
      BY <1>2, <1>5, Product
    <3> QED BY <1>2, <1>4, <1>5, <1>b, <1>h, <3>1, <3>2
  <2>2. o * q + o <= o * c
    BY <1>2, <1>5, <2>1, Product
  <2> QED BY <1>b, <1>h, <2>2
<1>7. to = base + last /\ to \in Address
  BY <1>2, <1>4, <1>5, <1>6, <1>m, <1>t
<1>8. ASSUME NEW a \in Address, from <= a, a \div o = q, a % o <= last PROVE a \in from .. to
  <2>0. a \in Nat
    BY <1>2, <1>4
  <2>1. a \in Nat /\ a % o \in 0 .. o - 1 /\ a = o * (a \div o) + (a % o)
    BY <1>a, <2>0, Zenon
  <2>2. a = base + (a % o)
    BY <1>8, <1>b, <2>1
  <2> DEFINE r == a % o
  <2>3. r \in Nat /\ a = base + r /\ r <= last
    BY <1>8, <2>1, <2>2
  <2> HIDE DEF r
  <2> QED BY <1>4, <1>5, <1>7, <1>8, <1>m, <2>1, <2>3
<1>9. ASSUME NEW a \in from .. to PROVE a \in Address /\ a \div o = q /\ a % o <= last
  <2>0. last \in Nat /\ to \in Nat /\ to <= P - 1
    BY <1>2, <1>4, <1>7, <1>m
  <2>a. a \in Int /\ from <= a /\ a <= to
    BY <1>4, <2>0
  <2>b. a \in Nat /\ a <= P - 1
    BY <1>2, <1>4, <2>0, <2>a
  <2>1. a \in Nat /\ a \in Address /\ a - base \in 0 .. last
    <3>1. a \in Address
      BY <1>4, <2>b
    <3>2. a - base \in 0 .. last
      BY <1>2, <1>5, <1>7, <2>0, <2>a
    <3> QED BY <2>b, <3>1, <3>2
  <2>2. a \div o \in Nat /\ a % o \in 0 .. o - 1 /\ a = o * (a \div o) + (a % o)
    BY <1>a, <2>1
  <2> DEFINE r == a - base
             d == a \div o
             e == a % o
  <2>3. r \in 0 .. o - 1 /\ r \in 0 .. last /\ a = base + r
    BY <1>2, <1>5, <1>m, <2>1
  <2>4. d \in Int /\ e \in 0 .. o - 1 /\ a = o * d + e
    BY <2>2
  <2> HIDE DEF r, d, e
  <2>5. o * q + r = o * d + e
    BY <1>b, <2>3, <2>4
  <2>6. q \in Int
    BY <1>5
  <2>7. q = d /\ r = e
    BY <1>2, <2>3, <2>4, <2>5, <2>6, OneQuotient
  <2> QED BY <2>1, <2>3, <2>7 DEF d, e
<1>10. {a \in Address : from <= a /\ a \div o = q /\ a % o <= last} = from .. to
  <2>1. \A a \in from .. to : from <= a
    BY <1>4, <1>5, <1>7
  <2> QED BY <1>8, <1>9, <2>1, Zenon
<1> QED BY <1>7, <1>10, <1>s DEF to, s, o

(* A CIDR of the form is a prefix with a kind. *)
LEMMA CIDRIs ==
  ASSUME NEW item \in Item, item.kind = "cidr"
  PROVE  /\ ToSet(Hosts(item)) = Usable(item) /\ Usable(item) \subseteq Address
         /\ Len(Hosts(item)) \in Nat /\ Cardinality(Usable(item)) <= Len(Hosts(item))
<1> DEFINE p == [addr |-> item.addr, ones |-> item.ones]
           n == Len(Hosts(p))
<1>1. p \in Prefix
  BY DEF Item, Prefix
<1>2. BlockSize(item) = BlockSize(p) /\ Masked(item) = Masked(p)
  BY DEF BlockSize, Masked
<1>3. Hosts(item) = Hosts(p)
  BY <1>2, Zenon DEF Hosts, AfterBase
<1>4. InBlock(item) = InBlock(p)
  BY <1>2 DEF InBlock
<1>5. Usable(item) = Usable(p)
  BY <1>4, Zenon DEF Usable
<1> HIDE DEF p
<1>6. Usable(p) = {Hosts(p)[k] : k \in 1 .. n}
  BY <1>1, HostsAreUsable
<1>7. Hosts(p) \in Seq(Nat) /\ n \in Nat /\ DOMAIN Hosts(p) = 1 .. n
  BY <1>1, HostsAre
<1>8. ToSet(Hosts(p)) = Usable(p)
  BY <1>6, <1>7 DEF ToSet
<1>9. Usable(p) \subseteq Address
  BY DEF Usable, InBlock
<1>10. Cardinality(Usable(p)) <= n
  <2> DEFINE f == [k \in 1 .. n |-> Hosts(p)[k]]
  <2>1. f \in Surjection(1 .. n, Usable(p))
    <3>1. f \in [1 .. n -> Usable(p)]
      BY <1>6
    <3>2. \A x \in Usable(p) : \E k \in 1 .. n : f[k] = x
      BY <1>6
    <3> HIDE DEF f
    <3> QED BY <3>1, <3>2, Fun_IsSurj
  <2>2. IsFiniteSet(1 .. n) /\ Cardinality(1 .. n) = n
    BY <1>7, FS_Interval
  <2> QED BY <2>1, <2>2, FS_Surjection
<1> QED BY <1>3, <1>5, <1>7, <1>8, <1>9, <1>10 DEF n

(* An item that is not refused yields the addresses it means, and not more  *)
(* of them than the limit unless it is one address.                         *)
LEMMA ItemIs ==
  ASSUME NEW item \in Item, NEW maxHosts \in Nat, ExpandItem(item, maxHosts).ok
  PROVE  /\ ToSet(ExpandItem(item, maxHosts).addresses) = Meant(item)
         /\ Meant(item) \subseteq Address
         /\ item.kind # "bad"
         /\ item.kind # "one" => Cardinality(Meant(item)) <= maxHosts
<1>0. item.kind \in {"bad", "one", "octet", "range", "cidr"}
  BY DEF Item
<1>a. Address \subseteq Nat /\ IsFiniteSet(Address) /\ Pow2[Width] \in Nat /\ Address = 0 .. Pow2[Width] - 1
  <2>1. Pow2[Width] \in Nat
    BY AddressAssumption, Pow2Positive
  <2> DEFINE top == Pow2[Width] - 1
  <2>2. Address = 0 .. top /\ 0 \in Int /\ top \in Int
    BY <2>1 DEF Address
  <2> HIDE DEF top
  <2>3. IsFiniteSet(Address)
    BY <2>2, FS_Interval
  <2> QED BY <2>1, <2>2, <2>3 DEF top
<1>1. CASE item.kind = "bad"
  <2>1. ExpandItem(item, maxHosts) = Refusal
    BY <1>1 DEF ExpandItem
  <2> QED BY <2>1 DEF Refusal
<1>2. CASE item.kind = "one"
  <2>1. ExpandItem(item, maxHosts).addresses = <<item.addr>>
    BY <1>2 DEF ExpandItem, Expansion
  <2>2. ToSet(<<item.addr>>) = {item.addr}
    BY DEF ToSet
  <2>3. Meant(item) = {item.addr} /\ item.addr \in Address
    BY <1>2 DEF Meant, Item
  <2> QED BY <1>2, <2>1, <2>2, <2>3
<1>3. CASE item.kind = "range"
  <2>1. /\ ExpandItem(item, maxHosts) = ExpandRange(item.from, item.to, maxHosts)
        /\ Meant(item) = {a \in Address : item.from <= a /\ a <= item.to}
        /\ item.from \in Address /\ item.to \in Address
    BY <1>3 DEF ExpandItem, Meant, Item
  <2>2. Meant(item) = item.from .. item.to
    BY <1>a, <2>1
  <2>3. Meant(item) \subseteq Address
    BY <2>1
  <2>4. /\ ToSet(ExpandItem(item, maxHosts).addresses) = Meant(item)
        /\ Cardinality(Meant(item)) <= maxHosts
    BY <2>1, <2>2, RangeIs
  <2> QED BY <1>3, <2>3, <2>4
<1>4. CASE item.kind = "octet"
  <2>1. /\ ExpandItem(item, maxHosts) =
              IF item.last \in 0 .. Pow2[OctetBits] - 1
              THEN ExpandRange(item.from, OctetEnd(item), maxHosts) ELSE Refusal
        /\ Meant(item) = {a \in Address : /\ item.from <= a
                                          /\ a \div Pow2[OctetBits] = item.from \div Pow2[OctetBits]
                                          /\ a % Pow2[OctetBits] <= item.last}
        /\ item.from \in Address
    BY <1>4 DEF ExpandItem, Meant, Item
  <2>2. item.last \in 0 .. Pow2[OctetBits] - 1
    BY <2>1 DEF Refusal
  <2>3. OctetEnd(item) \in Address /\ Meant(item) = item.from .. OctetEnd(item)
    BY <2>1, <2>2, OctetRange, Zenon DEF OctetEnd
  <2>4. ExpandItem(item, maxHosts) = ExpandRange(item.from, OctetEnd(item), maxHosts)
    BY <2>1, <2>2, Zenon
  <2>5. Meant(item) \subseteq Address
    BY <2>1
  <2>6. /\ ToSet(ExpandItem(item, maxHosts).addresses) = Meant(item)
        /\ Cardinality(Meant(item)) <= maxHosts
    BY <2>1, <2>3, <2>4, RangeIs
  <2> QED BY <1>4, <2>5, <2>6
<1>5. CASE item.kind = "cidr"
  <2>1. /\ ExpandItem(item, maxHosts) =
              IF Len(Hosts(item)) > maxHosts THEN Refusal ELSE Expansion(Hosts(item))
        /\ Meant(item) = Usable(item)
    BY <1>5, Zenon DEF ExpandItem, Meant
  <2>2. Len(Hosts(item)) <= maxHosts /\ ExpandItem(item, maxHosts).addresses = Hosts(item)
    BY <1>5, <2>1, CIDRIs DEF Refusal, Expansion
  <2>3. /\ ToSet(Hosts(item)) = Usable(item) /\ Usable(item) \subseteq Address
        /\ Len(Hosts(item)) \in Nat /\ Cardinality(Usable(item)) <= Len(Hosts(item))
    BY <1>5, CIDRIs
  <2>4. IsFiniteSet(Usable(item))
    BY <1>a, <2>3, FS_Subset
  <2>5. Cardinality(Usable(item)) \in Nat
    BY <2>4, FS_CardinalityType
  <2> QED BY <1>5, <2>1, <2>2, <2>3, <2>5
<1> QED BY <1>0, <1>1, <1>2, <1>3, <1>4, <1>5

(* ParseAddressSpecs (address_specs.go): a text that is not refused stands  *)
(* for the addresses its items mean, each once and in order, for every      *)
(* width, every limit and every kind of item; none of its items is bad, and *)
(* only a single address may count for more than the limit.                 *)
THEOREM ParsesWhatIsMeant ==
  ASSUME NEW items \in Seq(Item), NEW limit \in Int, ParseAddressSpecs(items, limit).ok
  PROVE  LET meant == UNION {Meant(items[k]) : k \in DOMAIN items}
             most  == IF limit > 0 THEN limit ELSE DefaultMaxHosts
         IN  /\ ParseAddressSpecs(items, limit).addresses = InOrder(meant)
             /\ meant \subseteq Address /\ IsFiniteSet(meant)
             /\ \A k \in DOMAIN items :
                  /\ items[k].kind # "bad"
                  /\ items[k].kind # "one" => Cardinality(Meant(items[k])) <= most
<1> DEFINE meant == UNION {Meant(items[k]) : k \in DOMAIN items}
           most  == IF limit <= 0 THEN DefaultMaxHosts ELSE limit
           parts == [k \in DOMAIN items |-> ExpandItem(items[k], most)]
           all == UNION {ToSet(parts[k].addresses) : k \in DOMAIN parts}
<1>1. most \in Nat /\ most = (IF limit > 0 THEN limit ELSE DefaultMaxHosts)
  BY AddressAssumption
<1>2. ParseAddressSpecs(items, limit) =
        IF \E k \in DOMAIN parts : ~parts[k].ok THEN Refusal ELSE Expansion(InOrder(all))
  BY Zenon DEF ParseAddressSpecs
<1>d. DOMAIN parts = DOMAIN items /\ \A k \in DOMAIN items : parts[k] = ExpandItem(items[k], most)
  OBVIOUS
<1> HIDE DEF most, parts
<1>3. /\ \A k \in DOMAIN items : parts[k].ok
      /\ ParseAddressSpecs(items, limit).addresses = InOrder(all)
  BY <1>2, <1>d DEF Refusal, Expansion
<1>4. \A k \in DOMAIN items : items[k] \in Item
  OBVIOUS
<1>5. \A k \in DOMAIN items : /\ ToSet(parts[k].addresses) = Meant(items[k])
                              /\ Meant(items[k]) \subseteq Address
                              /\ items[k].kind # "bad"
                              /\ items[k].kind # "one" => Cardinality(Meant(items[k])) <= most
  BY <1>1, <1>3, <1>4, <1>d, ItemIs
<1>6. all = meant
  <2>1. {ToSet(parts[k].addresses) : k \in DOMAIN parts} = {Meant(items[k]) : k \in DOMAIN items}
    BY <1>5, <1>d
  <2> QED BY <2>1
<1>7. meant \subseteq Address
  BY <1>5
<1>8. IsFiniteSet(Address)
  <2> DEFINE top == Pow2[Width] - 1
  <2>1. Address = 0 .. top /\ 0 \in Int /\ top \in Int
    BY AddressAssumption, Pow2Positive DEF Address
  <2> HIDE DEF top
  <2> QED BY <2>1, FS_Interval
<1>9. IsFiniteSet(meant)
  BY <1>7, <1>8, FS_Subset
<1>10. ParseAddressSpecs(items, limit).addresses = InOrder(meant)
  BY <1>3, <1>6, Zenon
<1> HIDE DEF meant
<1>11. \A k \in DOMAIN items :
         /\ items[k].kind # "bad"
         /\ items[k].kind # "one" =>
              Cardinality(Meant(items[k])) <= (IF limit > 0 THEN limit ELSE DefaultMaxHosts)
  BY <1>1, <1>5, Zenon
<1> QED BY <1>7, <1>9, <1>10, <1>11, Zenon DEF meant
=============================================================================
