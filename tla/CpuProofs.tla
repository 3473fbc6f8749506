------------------------------- MODULE CpuProofs -------------------------------
(***************************************************************************)
(* What TLAPS proves of the processor: the interpreter computes what the   *)
(* architecture does (Cpu), and finds operands where the encoding puts     *)
(* them (CpuDecode), for every width of a byte, every program and every    *)
(* state to start from. An execution is one instruction from a state, so   *)
(* the inductive invariants CpuInv and DecInv say only that: what is left  *)
(* to show is an equality of numbers for each instruction, between the     *)
(* masks and shifts of the code and the architecture's definition. It      *)
(* rests on powers of two, quotients and remainders, on the bits of a      *)
(* number, and for shifts and rotates on an induction over the one-bit     *)
(* steps the architecture is defined by.                                   *)
(***************************************************************************)
EXTENDS CpuDecode, StackLemmas, FiniteSetTheorems, TLAPS

-----------------------------------------------------------------------------
(***************************************************************************)
(* Arithmetic: powers of two, quotients and remainders.                    *)
(***************************************************************************)
\* Powers of two count the sets of numbers up to n, which is all the provers know of them.
LEMMA PowerCounts ==
  ASSUME NEW n \in Nat
  PROVE  /\ IsFiniteSet(SUBSET (1..n)) /\ Cardinality(SUBSET (1..n)) = 2 ^ n
         /\ 2 ^ n \in Nat \ {0}
<1>1. IsFiniteSet(1..n) /\ Cardinality(1..n) = n
  BY FS_Interval
<1>2. IsFiniteSet(SUBSET (1..n)) /\ Cardinality(SUBSET (1..n)) = 2 ^ n
  BY <1>1, FS_SUBSET
<1>3. Cardinality(SUBSET (1..n)) \in Nat /\ Cardinality(SUBSET (1..n)) # 0
  <2>1. SUBSET (1..n) # {}
    OBVIOUS
  <2> QED  BY <1>2, <2>1, FS_CardinalityType, FS_EmptySet
<1> QED  BY <1>2, <1>3

LEMMA PowerStep ==
  ASSUME NEW n \in Nat
  PROVE  2 ^ (n + 1) = 2 * 2 ^ n
<1> DEFINE A == 1..n
           x == n + 1
           Ax == {B \cup {x} : B \in SUBSET A}
           f == [B \in SUBSET A |-> B \cup {x}]
<1>1. 1..(n + 1) = A \cup {x} /\ x \notin A
  OBVIOUS
<1>2. SUBSET (A \cup {x}) = (SUBSET A) \cup Ax
  <2>1. ASSUME NEW B \in SUBSET (A \cup {x}), x \in B
        PROVE  B \in Ax
    <3>1. B \ {x} \in SUBSET A /\ B = (B \ {x}) \cup {x}
      BY <2>1
    <3> QED  BY <3>1
  <2>2. ASSUME NEW B \in SUBSET (A \cup {x}), x \notin B
        PROVE  B \in SUBSET A
    BY <2>2
  <2>3. Ax \subseteq SUBSET (A \cup {x}) /\ SUBSET A \subseteq SUBSET (A \cup {x})
    <3> HIDE DEF x, A
    <3> QED  OBVIOUS
  <2> HIDE DEF Ax
  <2> QED  BY <2>1, <2>2, <2>3
<1>3. (SUBSET A) \cap Ax = {}
  BY <1>1
<1>4. ExistsBijection(SUBSET A, Ax)
  <2>1. f \in [SUBSET A -> Ax]
    OBVIOUS
  <2>2. ASSUME NEW B \in SUBSET A, NEW C \in SUBSET A, f[B] = f[C]
        PROVE  B = C
    <3>1. B \cup {x} = C \cup {x} /\ x \notin B /\ x \notin C
      BY <1>1, <2>2
    <3> HIDE DEF x, A, f
    <3> QED  BY <3>1
  <2>3. \A y \in Ax : \E B \in SUBSET A : f[B] = y
    OBVIOUS
  <2> HIDE DEF A, Ax, f
  <2> QED  BY <2>1, <2>2, <2>3 DEF ExistsBijection, Bijection, Injection, Surjection, IsInjective
<1>5. IsFiniteSet(SUBSET A) /\ Cardinality(SUBSET A) = 2 ^ n /\ 2 ^ n \in Nat
  BY PowerCounts
<1>6. IsFiniteSet(Ax) /\ Cardinality(Ax) = 2 ^ n
  <2> HIDE DEF A, Ax
  <2> QED  BY <1>4, <1>5, FS_Bijection
<1>7. Cardinality((SUBSET A) \cup Ax) = Cardinality(SUBSET A) + Cardinality(Ax) - 0
  <2>1. Cardinality((SUBSET A) \cap Ax) = 0
    BY <1>3, FS_EmptySet
  <2> HIDE DEF A, Ax
  <2> QED  BY <1>5, <1>6, <2>1, FS_Union
<1>8. n + 1 \in Nat
  OBVIOUS
<1>9. Cardinality(SUBSET (1..(n + 1))) = 2 ^ (n + 1)
  BY <1>8, PowerCounts
<1> HIDE DEF A, Ax, f, x
<1>10. PICK p \in Nat : p = 2 ^ n
  BY <1>5
<1>11. Cardinality(SUBSET (1..(n + 1))) = p + p
  <2>1. Cardinality((SUBSET A) \cup Ax) = p + p - 0
    BY <1>5, <1>6, <1>7, <1>10, Zenon
  <2>2. p + p - 0 = p + p
    OBVIOUS
  <2>3. SUBSET (1..(n + 1)) = (SUBSET A) \cup Ax
    BY <1>1, <1>2, Zenon
  <2> QED  BY <2>1, <2>2, <2>3, Zenon
<1>12. p + p = 2 * p
  OBVIOUS
<1> QED  BY <1>9, <1>10, <1>11, <1>12, Zenon

LEMMA PowerAdds ==
  ASSUME NEW m \in Nat, NEW n \in Nat
  PROVE  2 ^ (m + n) = 2 ^ m * 2 ^ n
<1> DEFINE N == {k \in Nat : 2 ^ (m + k) = 2 ^ m * 2 ^ k}
<1>1. 2 ^ m \in Nat /\ 2 ^ 0 = 1
  <2>1. 2 ^ m \in Nat
    BY PowerCounts, Zenon
  <2> QED  BY <2>1
<1>2. 0 \in N
  <2>1. m + 0 = m
    OBVIOUS
  <2> QED  BY <1>1, <2>1
<1>3. ASSUME NEW k \in Nat, k \in N
      PROVE  k + 1 \in N
  <2>1. 2 ^ (m + k + 1) = 2 * 2 ^ (m + k) /\ 2 ^ (k + 1) = 2 * 2 ^ k
    BY PowerStep
  <2>2. m + (k + 1) = m + k + 1
    OBVIOUS
  <2>4. 2 ^ k \in Nat
    BY PowerCounts, Zenon
  <2>3. 2 * (2 ^ m * 2 ^ k) = 2 ^ m * (2 * 2 ^ k)
    BY <1>1, <2>4
  <2> QED  BY <1>3, <2>1, <2>2, <2>3
<1>4. Nat \subseteq N
  <2> HIDE DEF N
  <2> QED  BY <1>2, <1>3, SetInduction
<1> QED  BY <1>4

\* Quotient and remainder, and that there is one of each.
LEMMA Divided ==
  ASSUME NEW x \in Int, NEW y \in Nat \ {0}
  PROVE  /\ x \div y \in Int /\ x % y \in Int /\ x = y * (x \div y) + (x % y)
         /\ 0 <= x % y /\ x % y < y
OBVIOUS

LEMMA DividedOnce ==
  ASSUME NEW y \in Nat \ {0}, NEW q \in Int, NEW r \in Int, 0 <= r, r < y
  PROVE  (y * q + r) \div y = q /\ (y * q + r) % y = r
<1>1. PICK x \in Int : x = y * q + r
  OBVIOUS
<1>2. PICK p \in Int : p = x \div y
  OBVIOUS
<1>3. PICK s \in Int : s = x % y
  OBVIOUS
<1>4. x = y * p + s /\ 0 <= s /\ s < y
  BY <1>2, <1>3, Divided
<1>5. y * (p - q) = y * p - y * q
  OBVIOUS
<1>6. y * p \in Int /\ y * q \in Int
  OBVIOUS
<1>7. -y < y * (p - q) /\ y * (p - q) < y
  BY <1>1, <1>4, <1>5, <1>6
<1>8. ~(p - q >= 1)
  <2> SUFFICES ASSUME p - q >= 1 PROVE FALSE
    OBVIOUS
  <2>1. PICK t \in Nat : p - q = t + 1
    <3>1. (p - q) - 1 \in Nat /\ p - q = ((p - q) - 1) + 1
      OBVIOUS
    <3> QED  BY <3>1
  <2>2. y * (t + 1) = y * t + y /\ y * t >= 0 /\ y * t \in Int
    OBVIOUS
  <2> QED  BY <1>7, <2>1, <2>2
<1>9. ~(p - q <= -1)
  <2> SUFFICES ASSUME p - q <= -1 PROVE FALSE
    OBVIOUS
  <2>1. PICK t \in Nat : p - q = -(t + 1)
    <3>1. (q - p) - 1 \in Nat /\ p - q = -(((q - p) - 1) + 1)
      OBVIOUS
    <3> QED  BY <3>1
  <2>2. y * (-(t + 1)) = -(y * t) - y /\ y * t >= 0 /\ y * t \in Int
    OBVIOUS
  <2> QED  BY <1>7, <2>1, <2>2
<1>10. p = q
  BY <1>8, <1>9
<1> QED  BY <1>1, <1>2, <1>3, <1>4, <1>6, <1>10

LEMMA Modulo ==
  ASSUME NEW x \in Int, NEW y \in Nat \ {0}, NEW k \in Int
  PROVE  (x + y * k) % y = x % y /\ (x + y * k) \div y = (x \div y) + k
<1>1. PICK q \in Int : q = x \div y
  OBVIOUS
<1>2. PICK r \in Int : r = x % y
  OBVIOUS
<1>3. x = y * q + r /\ 0 <= r /\ r < y
  BY <1>1, <1>2, Divided
<1>4. y * q + y * k = y * (q + k) /\ y * q \in Int /\ y * k \in Int
  OBVIOUS
<1>5. x + y * k = y * (q + k) + r
  BY <1>3, <1>4
<1>6. PICK p \in Int : p = q + k
  OBVIOUS
<1>7. (y * p + r) \div y = p /\ (y * p + r) % y = r
  BY <1>3, DividedOnce
<1> QED  BY <1>1, <1>2, <1>5, <1>6, <1>7

\* Remainders by a divisor of the divisor, and quotients of quotients: both come from one
\* division by the product.
LEMMA NestedParts ==
  ASSUME NEW x \in Int, NEW y \in Nat \ {0}, NEW z \in Nat \ {0},
         NEW q \in Int, NEW r \in Int, x = y * q + r, 0 <= r, r < y,
         NEW p \in Int, NEW s \in Int, q = z * p + s, 0 <= s, s < z,
         NEW t \in Int, t = y * s + r
  PROVE  /\ x \div (y * z) = p /\ x % (y * z) = t
         /\ t \div y = s /\ t % y = r
<1>1. PICK w \in Nat \ {0} : w = y * z
  OBVIOUS
<1>2. 0 <= t /\ t < w
  <2>1. y * s >= 0 /\ y * s \in Int
    OBVIOUS
  <2>2. y * (z - 1 - s) >= 0
    OBVIOUS
  <2>3. y * (z - 1 - s) = y * z - y - y * s /\ y * z \in Int
    OBVIOUS
  <2> QED  BY <1>1, <2>1, <2>2, <2>3
<1>3. x = w * p + t
  <2>1. y * (z * p + s) = (y * z) * p + y * s
    OBVIOUS
  <2>2. y * s \in Int /\ (y * z) * p \in Int
    OBVIOUS
  <2> QED  BY <1>1, <2>1, <2>2
<1>4. (w * p + t) \div w = p /\ (w * p + t) % w = t
  BY <1>2, DividedOnce
<1>5. (y * s + r) \div y = s /\ (y * s + r) % y = r
  BY DividedOnce
<1> QED  BY <1>1, <1>3, <1>4, <1>5

LEMMA NestedModulo ==
  ASSUME NEW x \in Int, NEW y \in Nat \ {0}, NEW z \in Nat \ {0}
  PROVE  (x % (y * z)) % y = x % y
<1>1. PICK q \in Int : q = x \div y
  OBVIOUS
<1>2. PICK r \in Int : r = x % y
  OBVIOUS
<1>3. PICK p \in Int : p = q \div z
  OBVIOUS
<1>4. PICK s \in Int : s = q % z
  OBVIOUS
<1>5. PICK t \in Int : t = y * s + r
  OBVIOUS
<1>6. x \div (y * z) = p /\ x % (y * z) = t /\ t \div y = s /\ t % y = r
  <2>1. x = y * q + r /\ 0 <= r /\ r < y /\ q = z * p + s /\ 0 <= s /\ s < z
    BY <1>1, <1>2, <1>3, <1>4, Divided
  <2> QED  BY <1>5, <2>1, NestedParts
<1> QED  BY <1>1, <1>2, <1>3, <1>4, <1>6, Zenon

LEMMA NestedQuotient ==
  ASSUME NEW x \in Int, NEW y \in Nat \ {0}, NEW z \in Nat \ {0}
  PROVE  (x \div y) \div z = x \div (y * z)
<1>1. PICK q \in Int : q = x \div y
  OBVIOUS
<1>2. PICK r \in Int : r = x % y
  OBVIOUS
<1>3. PICK p \in Int : p = q \div z
  OBVIOUS
<1>4. PICK s \in Int : s = q % z
  OBVIOUS
<1>5. PICK t \in Int : t = y * s + r
  OBVIOUS
<1>6. x \div (y * z) = p /\ x % (y * z) = t /\ t \div y = s /\ t % y = r
  <2>1. x = y * q + r /\ 0 <= r /\ r < y /\ q = z * p + s /\ 0 <= s /\ s < z
    BY <1>1, <1>2, <1>3, <1>4, Divided
  <2> QED  BY <1>5, <2>1, NestedParts
<1> QED  BY <1>1, <1>2, <1>3, <1>4, <1>6, Zenon

LEMMA NestedMiddle ==
  ASSUME NEW x \in Int, NEW y \in Nat \ {0}, NEW z \in Nat \ {0}
  PROVE  (x % (y * z)) \div y = (x \div y) % z
<1>1. PICK q \in Int : q = x \div y
  OBVIOUS
<1>2. PICK r \in Int : r = x % y
  OBVIOUS
<1>3. PICK p \in Int : p = q \div z
  OBVIOUS
<1>4. PICK s \in Int : s = q % z
  OBVIOUS
<1>5. PICK t \in Int : t = y * s + r
  OBVIOUS
<1>6. x \div (y * z) = p /\ x % (y * z) = t /\ t \div y = s /\ t % y = r
  <2>1. x = y * q + r /\ 0 <= r /\ r < y /\ q = z * p + s /\ 0 <= s /\ s < z
    BY <1>1, <1>2, <1>3, <1>4, Divided
  <2> QED  BY <1>5, <2>1, NestedParts
<1> QED  BY <1>1, <1>2, <1>3, <1>4, <1>6, Zenon

-----------------------------------------------------------------------------
(***************************************************************************)
(* Widths, residues and bits (Cpu).                                        *)
(***************************************************************************)
CpuAllSizes == {1, 2, 4, 8}

LEMMA CpuTops ==
  ASSUME NEW size \in CpuAllSizes
  PROVE  /\ CpuWidth(size) \in Nat /\ CpuWidth(size) - 1 \in Nat /\ CpuWidth(size) >= 2
         /\ CpuTop(size) \in Nat \ {0} /\ CpuSign(size) \in Nat \ {0}
         /\ CpuTop(size) = 2 * CpuSign(size) /\ CpuSign(size) >= 2
<1>1. CpuWidth(size) \in Nat /\ CpuWidth(size) >= 2
  BY CpuAssumption DEF CpuWidth, CpuAllSizes
<1>2. PICK n \in Nat : n = CpuWidth(size) - 2
  BY <1>1
<1>3. CpuWidth(size) = n + 2 /\ CpuWidth(size) - 1 = n + 1 /\ (n + 1) + 1 = n + 2
  BY <1>1, <1>2
<1>4. PICK p \in Nat \ {0} : p = 2 ^ n
  BY PowerCounts, Zenon
<1>5. 2 ^ (n + 1) = 2 * 2 ^ n /\ 2 ^ (n + 1 + 1) = 2 * 2 ^ (n + 1)
  <2>1. n + 1 \in Nat
    OBVIOUS
  <2> QED  BY <2>1, PowerStep
<1>6. CpuSign(size) = 2 * p /\ CpuTop(size) = 2 * CpuSign(size)
  <2>1. CpuSign(size) = 2 ^ (n + 1) /\ CpuTop(size) = 2 ^ (n + 1 + 1)
    BY <1>3 DEF CpuSign, CpuTop
  <2> QED  BY <1>4, <1>5, <2>1, Zenon
<1> QED  BY <1>1, <1>3, <1>4, <1>6

LEMMA CpuTopsNested ==
  ASSUME NEW m \in CpuAllSizes, NEW n \in CpuAllSizes, m <= n
  PROVE  \E k \in Nat \ {0} : CpuTop(n) = CpuTop(m) * k
<1>1. n - m \in Nat /\ m + (n - m) = n
  BY DEF CpuAllSizes
<1>2. CpuByte * (n - m) \in Nat /\ CpuWidth(n) = CpuWidth(m) + CpuByte * (n - m)
  BY <1>1, CpuAssumption DEF CpuWidth, CpuAllSizes
<1>3. PICK j \in Nat : j = CpuByte * (n - m)
  BY <1>2
<1>4. CpuWidth(m) \in Nat
  BY CpuTops
<1>5. CpuTop(n) = 2 ^ CpuWidth(m) * 2 ^ j
  BY <1>2, <1>3, <1>4, PowerAdds DEF CpuTop
<1>6. PICK k \in Nat \ {0} : k = 2 ^ j
  BY PowerCounts, Zenon
<1> QED  BY <1>5, <1>6 DEF CpuTop

LEMMA CpuUnsIs ==
  ASSUME NEW size \in CpuAllSizes, NEW v \in Int
  PROVE  /\ CpuUns(v, size) \in 0..CpuTop(size) - 1 /\ CpuUns(v, size) \in Int
         /\ v \in 0..CpuTop(size) - 1 => CpuUns(v, size) = v
         /\ CpuUns(CpuUns(v, size), size) = CpuUns(v, size)
         /\ \A k \in Int : CpuUns(v + CpuTop(size) * k, size) = CpuUns(v, size)
         /\ \E k \in Int : v = CpuUns(v, size) + CpuTop(size) * k
<1>1. PICK T \in Nat \ {0} : T = CpuTop(size)
  BY CpuTops
<1>2. \A x : CpuUns(x, size) = x % T
  BY <1>1 DEF CpuUns
<1>3. PICK u \in Int : u = v % T
  BY Divided
<1>4. PICK q \in Int : q = v \div T
  BY Divided
<1>5. v = T * q + u /\ 0 <= u /\ u < T
  BY <1>3, <1>4, Divided
<1>6. ASSUME NEW x \in Int, 0 <= x, x < T
      PROVE  x % T = x
  <2>1. x = T * 0 + x
    OBVIOUS
  <2>2. (T * 0 + x) % T = x
    BY <1>6, DividedOnce
  <2> QED  BY <2>1, <2>2
<1>7. \A k \in Int : (v + T * k) % T = v % T
  BY Modulo
<1>8. v = u + T * q
  BY <1>5
<1>9. u % T = u
  BY <1>5, <1>6
<1>10. CpuUns(v, size) = u
  BY <1>2, <1>3
<1>11. \A k \in Int : CpuUns(v + T * k, size) = u
  BY <1>2, <1>3, <1>7
<1>12. v \in 0..T - 1 => v % T = v
  BY <1>6
<1>13. v \in 0..T - 1 => CpuUns(v, size) = v
  BY <1>2, <1>12
<1>14. CpuUns(u, size) = u
  BY <1>2, <1>9
<1>15. u \in 0..T - 1
  BY <1>5
<1> HIDE DEF CpuAllSizes
<1>16. \E k \in Int : v = u + T * k
  BY <1>8
<1> QED  BY <1>1, <1>10, <1>11, <1>13, <1>14, <1>15, <1>16

\* Numbers with the same residue.
LEMMA CpuUnsSame ==
  ASSUME NEW size \in CpuAllSizes, NEW v \in Int, NEW w \in Int, NEW k \in Int,
         v = w + CpuTop(size) * k
  PROVE  CpuUns(v, size) = CpuUns(w, size)
BY CpuUnsIs

LEMMA CpuUnsNested ==
  ASSUME NEW m \in CpuAllSizes, NEW n \in CpuAllSizes, m <= n, NEW v \in Int
  PROVE  CpuUns(CpuUns(v, n), m) = CpuUns(v, m) /\ CpuTop(m) <= CpuTop(n)
<1>1. PICK k \in Nat \ {0} : CpuTop(n) = CpuTop(m) * k
  BY CpuTopsNested
<1>2. PICK T \in Nat \ {0} : T = CpuTop(m)
  BY CpuTops
<1>3. (v % (T * k)) % T = v % T
  <2>1. T \in Nat \ {0} /\ k \in Nat \ {0} /\ v \in Int
    OBVIOUS
  <2> QED  BY <2>1, NestedModulo, Zenon
<1>4. T <= T * k
  <2>1. PICK j \in Nat : k = j + 1
    <3>1. k - 1 \in Nat /\ k = (k - 1) + 1
      OBVIOUS
    <3> QED  BY <3>1
  <2>2. T * (j + 1) = T * j + T /\ T * j \in Nat
    OBVIOUS
  <2> QED  BY <2>1, <2>2
<1> QED  BY <1>1, <1>2, <1>3, <1>4 DEF CpuUns

LEMMA CpuSgnIs ==
  ASSUME NEW size \in CpuAllSizes, NEW v \in Int
  PROVE  LET u == CpuUns(v, size)
             S == CpuSign(size)
             x == CpuSgn(v, size)
         IN  /\ x = (IF u >= S THEN u - 2 * S ELSE u) /\ x \in Int /\ -S <= x /\ x < S
             /\ CpuUns(x, size) = u /\ CpuSgn(u, size) = x
             /\ \E k \in Int : x = v + CpuTop(size) * k
<1>1. PICK S \in Nat \ {0} : S = CpuSign(size) /\ CpuTop(size) = 2 * S
  BY CpuTops
<1>2. PICK u \in Int : u = CpuUns(v, size) /\ 0 <= u /\ u <= 2 * S - 1
  <2>1. CpuUns(v, size) \in 0..CpuTop(size) - 1
    BY CpuUnsIs
  <2> QED  BY <1>1, <2>1
<1>3. PICK x \in Int : x = IF u >= S THEN u - 2 * S ELSE u
  BY <1>1, <1>2
<1>4. CpuSgn(v, size) = x
  BY <1>1, <1>2, <1>3 DEF CpuSgn
<1>5. CpuUns(u, size) = u
  BY <1>2, CpuUnsIs
<1>6. CpuSgn(u, size) = x
  BY <1>1, <1>3, <1>5 DEF CpuSgn
<1>7. PICK j \in Int : x = u + (2 * S) * j
  <2>1. x = u + (2 * S) * 0 \/ x = u + (2 * S) * (-1)
    BY <1>3
  <2> QED  BY <2>1
<1>8. CpuUns(x, size) = CpuUns(u, size)
  BY <1>1, <1>7, CpuUnsSame
<1>9. PICK q \in Int : v = u + (2 * S) * q
  BY <1>1, <1>2, CpuUnsIs
<1>10. x = v + (2 * S) * (j - q)
  <2>1. (2 * S) * (j - q) = (2 * S) * j - (2 * S) * q /\ (2 * S) * j \in Int /\ (2 * S) * q \in Int
    OBVIOUS
  <2> QED  BY <1>7, <1>9, <2>1
<1>11. j - q \in Int
  OBVIOUS
<1>12. \E k \in Int : x = v + CpuTop(size) * k
  BY <1>1, <1>10, <1>11
<1> QED  BY <1>1, <1>2, <1>3, <1>4, <1>5, <1>6, <1>8, <1>12

\* Sums and products may be reduced before or after.
LEMMA CpuUnsSums ==
  ASSUME NEW size \in CpuAllSizes, NEW a \in Int, NEW b \in Int, NEW c \in Int, NEW d \in Int,
         CpuUns(a, size) = CpuUns(c, size), CpuUns(b, size) = CpuUns(d, size)
  PROVE  /\ CpuUns(a + b, size) = CpuUns(c + d, size)
         /\ CpuUns(a - b, size) = CpuUns(c - d, size)
<1>1. PICK T \in Nat \ {0} : T = CpuTop(size)
  BY CpuTops
<1>2. PICK u \in Int : u = CpuUns(a, size)
  BY CpuUnsIs
<1>3. PICK v \in Int : v = CpuUns(b, size)
  BY CpuUnsIs
<1>4. PICK i \in Int : a = u + T * i
  BY <1>1, <1>2, CpuUnsIs
<1>5. PICK j \in Int : b = v + T * j
  BY <1>1, <1>3, CpuUnsIs
<1>6. PICK k \in Int : c = u + T * k
  BY <1>1, <1>2, CpuUnsIs
<1>7. PICK l \in Int : d = v + T * l
  BY <1>1, <1>3, CpuUnsIs
<1>8. CpuUns(a + b, size) = CpuUns(c + d, size)
  <2>1. a + b = (c + d) + T * (i - k + j - l)
    BY <1>4, <1>5, <1>6, <1>7
  <2> QED  BY <1>1, <2>1, CpuUnsSame
<1>9. CpuUns(a - b, size) = CpuUns(c - d, size)
  <2>1. a - b = (c - d) + T * (i - k - j + l)
    BY <1>4, <1>5, <1>6, <1>7
  <2> QED  BY <1>1, <2>1, CpuUnsSame
<1> QED  BY <1>8, <1>9

LEMMA CpuUnsProduct ==
  ASSUME NEW size \in CpuAllSizes, NEW a \in Int, NEW b \in Int, NEW c \in Int, NEW d \in Int,
         CpuUns(a, size) = CpuUns(c, size), CpuUns(b, size) = CpuUns(d, size)
  PROVE  CpuUns(a * b, size) = CpuUns(c * d, size)
<1>1. PICK T \in Nat \ {0} : T = CpuTop(size)
  BY CpuTops
<1>2. PICK u \in Int : u = CpuUns(a, size)
  BY CpuUnsIs
<1>3. PICK v \in Int : v = CpuUns(b, size)
  BY CpuUnsIs
<1>4. PICK i \in Int : a = u + T * i
  BY <1>1, <1>2, CpuUnsIs
<1>5. PICK j \in Int : b = v + T * j
  BY <1>1, <1>3, CpuUnsIs
<1>6. PICK k \in Int : c = u + T * k
  BY <1>1, <1>2, CpuUnsIs
<1>7. PICK l \in Int : d = v + T * l
  BY <1>1, <1>3, CpuUnsIs
<1>8. CpuUns(a * b, size) = CpuUns(c * d, size)
  <2>1. a * b = u * v + T * (u * j + i * v + i * (T * j))
    BY <1>4, <1>5
  <2>2. c * d = u * v + T * (u * l + k * v + k * (T * l))
    BY <1>6, <1>7
  <2>3. CpuUns(a * b, size) = CpuUns(u * v, size)
    BY <1>1, <2>1, CpuUnsSame
  <2>4. CpuUns(c * d, size) = CpuUns(u * v, size)
    BY <1>1, <2>2, CpuUnsSame
  <2> QED  BY <2>3, <2>4
<1> QED  BY <1>8

-----------------------------------------------------------------------------
(***************************************************************************)
(* Registers (Cpu).                                                        *)
(***************************************************************************)
\* What a state is made of.
LEMMA CpuStateParts ==
  ASSUME NEW s \in CpuState
  PROVE  /\ s.reg \in [CpuRegs -> 0..CpuTop(8) - 1]
         /\ s.cf \in BOOLEAN /\ s.zf \in BOOLEAN /\ s.sf \in BOOLEAN
         /\ s.of \in BOOLEAN /\ s.pf \in BOOLEAN
         /\ s = [reg |-> s.reg, cf |-> s.cf, zf |-> s.zf, sf |-> s.sf, of |-> s.of, pf |-> s.pf]
         /\ ~CpuFaults(s)
BY DEF CpuState, CpuFaults

LEMMA CpuStateRegs ==
  ASSUME NEW s \in CpuState, NEW n \in CpuRegs
  PROVE  s.reg[n] \in 0..CpuTop(8) - 1 /\ s.reg[n] \in Nat
<1>1. CpuTop(8) \in Nat
  BY CpuTops DEF CpuAllSizes
<1>2. s.reg \in [CpuRegs -> 0..CpuTop(8) - 1]
  BY CpuStateParts
<1>3. s.reg[n] \in 0..CpuTop(8) - 1
  BY <1>2
<1> QED  BY <1>1, <1>3

\* A register and how it is named.
CpuNamed(n, size, rex) == size \in CpuAllSizes /\ rex \in BOOLEAN /\ n \in CpuNames(size, rex)

LEMMA CpuNamedIs ==
  ASSUME NEW n, NEW size, NEW rex, CpuNamed(n, size, rex)
  PROVE  IF size = 1 /\ ~rex /\ n \in 4..7 THEN n - 4 \in CpuRegs ELSE n \in CpuRegs
BY DEF CpuNamed, CpuNames, CpuRegs, CpuAllSizes

LEMMA CpuNamedLow ==
  ASSUME NEW size \in CpuAllSizes, NEW rex \in BOOLEAN, NEW n \in {0, 1, 2}
  PROVE  CpuNamed(n, size, rex)
BY DEF CpuNamed, CpuNames, CpuRegs

LEMMA CpuReadIs ==
  ASSUME NEW s \in CpuState, NEW n, NEW size, NEW rex, CpuNamed(n, size, rex)
  PROVE  /\ CpuRead(s, n, size, rex) \in 0..CpuTop(size) - 1 /\ CpuRead(s, n, size, rex) \in Nat
         /\ CpuUns(CpuRead(s, n, size, rex), size) = CpuRead(s, n, size, rex)
<1>1. size \in CpuAllSizes
  BY DEF CpuNamed
<1>2. \E v \in Int : CpuRead(s, n, size, rex) = CpuUns(v, size)
  <2>1. CASE size = 1 /\ ~rex /\ n \in 4..7
    <3>1. s.reg[n - 4] \in Nat /\ CpuTop(1) \in Nat \ {0}
      BY <2>1, CpuNamedIs, CpuStateRegs, CpuTops DEF CpuAllSizes
    <3>2. s.reg[n - 4] \div CpuTop(1) \in Int
      BY <3>1
    <3> QED  BY <2>1, <3>2 DEF CpuRead
  <2>2. CASE ~(size = 1 /\ ~rex /\ n \in 4..7)
    <3>1. s.reg[n] \in Nat
      BY <2>2, CpuNamedIs, CpuStateRegs
    <3>2. CpuRead(s, n, size, rex) = CpuUns(s.reg[n], size)
      BY <2>2 DEF CpuRead
    <3> QED  BY <3>1, <3>2
  <2> QED  BY <2>1, <2>2
<1>3. PICK v \in Int : CpuRead(s, n, size, rex) = CpuUns(v, size)
  BY <1>2
<1>4. CpuUns(v, size) \in 0..CpuTop(size) - 1 /\ CpuUns(CpuUns(v, size), size) = CpuUns(v, size)
  BY <1>1, CpuUnsIs
<1> QED  BY <1>1, <1>3, <1>4, CpuTops

\* A register whose low half is replaced.
LEMMA CpuLowReplaced ==
  ASSUME NEW size \in {1, 2}, NEW old \in 0..CpuTop(8) - 1, NEW u \in 0..CpuTop(size) - 1
  PROVE  old - CpuUns(old, size) + u \in 0..CpuTop(8) - 1
<1>1. PICK T \in Nat \ {0} : T = CpuTop(size)
  BY CpuTops DEF CpuAllSizes
<1>2. PICK k \in Nat \ {0} : CpuTop(8) = T * k
  BY <1>1, CpuTopsNested DEF CpuAllSizes
<1>3. PICK q \in Int : q = old \div T
  BY <1>1, <1>2
<1>4. PICK r \in Int : r = old % T
  BY <1>1, <1>2
<1>5. old \in Int /\ old = T * q + r /\ 0 <= r /\ r < T
  <2>1. old \in Int
    BY <1>1, <1>2
  <2>2. old = T * (old \div T) + (old % T) /\ 0 <= old % T /\ old % T < T
    BY <2>1, Divided, Zenon
  <2> QED  BY <1>3, <1>4, <2>1, <2>2
<1>6. 0 <= q /\ q < k
  <2>1. 0 <= T * q + r /\ T * q + r < T * k
    BY <1>2, <1>5
  <2>2. ~(q <= -1)
    <3> SUFFICES ASSUME q <= -1 PROVE FALSE
      OBVIOUS
    <3>1. PICK j \in Nat : q = -(j + 1)
      <4>1. -q - 1 \in Nat /\ q = -((-q - 1) + 1)
        OBVIOUS
      <4> QED  BY <4>1
    <3>2. T * (-(j + 1)) = -(T * j) - T /\ T * j \in Nat
      OBVIOUS
    <3> QED  BY <1>5, <2>1, <3>1, <3>2
  <2>3. ~(q >= k)
    <3> SUFFICES ASSUME q >= k PROVE FALSE
      OBVIOUS
    <3>1. PICK j \in Nat : q = k + j
      <4>1. q - k \in Nat /\ q = k + (q - k)
        OBVIOUS
      <4> QED  BY <4>1
    <3>2. T * (k + j) = T * k + T * j /\ T * j \in Nat /\ T * k \in Nat
      OBVIOUS
    <3> QED  BY <1>5, <2>1, <3>1, <3>2
  <2> QED  BY <2>2, <2>3
<1>7. T * q \in Nat /\ T * q + T <= T * k
  <2>1. T * (k - 1 - q) \in Nat /\ T * (k - 1 - q) = T * k - T - T * q /\ T * k \in Nat
    BY <1>6
  <2> QED  BY <1>6, <2>1
<1>8. old - CpuUns(old, size) + u = T * q + u
  BY <1>1, <1>4, <1>5, <1>7 DEF CpuUns
<1>9. u \in Nat /\ u < T
  BY <1>1
<1> QED  BY <1>2, <1>7, <1>8, <1>9

\* A register whose second byte is replaced.
LEMMA CpuHighReplaced ==
  ASSUME NEW old \in 0..CpuTop(8) - 1, NEW u \in 0..CpuTop(1) - 1
  PROVE  old - CpuUns(old \div CpuTop(1), 1) * CpuTop(1) + u * CpuTop(1) \in 0..CpuTop(8) - 1
<1>1. PICK T \in Nat \ {0} : T = CpuTop(1)
  BY CpuTops DEF CpuAllSizes
<1>2. CpuTop(2) = T * T
  <2>1. CpuWidth(1) \in Nat /\ CpuWidth(2) = CpuWidth(1) + CpuWidth(1)
    BY CpuAssumption DEF CpuWidth
  <2> QED  BY <1>1, <2>1, PowerAdds DEF CpuTop
<1>3. CpuTop(8) \in Nat
  BY CpuTops DEF CpuAllSizes
<1>4. PICK h \in Int : h = old \div T
  BY <1>1, <1>3
<1>5. PICK r \in Int : r = old % T
  BY <1>1, <1>3
<1>6. old \in Int /\ old = T * h + r /\ 0 <= r /\ r < T
  <2>1. old \in Int
    BY <1>1, <1>3
  <2>2. old = T * (old \div T) + (old % T) /\ 0 <= old % T /\ old % T < T
    BY <2>1, Divided, Zenon
  <2> QED  BY <1>4, <1>5, <2>1, <2>2
<1>7. PICK g \in Int : g = h % T
  BY <1>1
<1>8. 0 <= g /\ g < T /\ T * g \in Int
  BY <1>1, <1>7, Divided
<1>9. CpuUns(old, 2) = T * g + r
  <2>1. T * T \in Nat \ {0}
    OBVIOUS
  <2>2. PICK w \in Int : w = old % (T * T)
    BY <1>6, <2>1
  <2>3. w % T = r
    BY <1>5, <1>6, <2>2, NestedModulo
  <2>4. w \div T = g
    BY <1>4, <1>6, <1>7, <2>2, NestedMiddle
  <2>5. w = T * (w \div T) + (w % T)
    BY Divided
  <2> QED  BY <1>2, <2>2, <2>3, <2>4, <2>5 DEF CpuUns
<1>10. PICK w \in Int : w = T * u + r
  BY <1>1, <1>3
<1>11. w \in 0..CpuTop(2) - 1
  <2>1. u \in Int /\ 0 <= u /\ u <= T - 1
    BY <1>1
  <2>2. T * u >= 0 /\ T * (T - 1 - u) >= 0
    BY <2>1
  <2>3. T * (T - 1 - u) = T * T - T - T * u /\ T * T \in Int /\ T * u \in Int
    BY <2>1
  <2> QED  BY <1>2, <1>6, <1>10, <2>2, <2>3
<1>12. old - CpuUns(old, 2) + w \in 0..CpuTop(8) - 1
  BY <1>11, CpuLowReplaced
<1>13. old - CpuUns(old, 2) + w = old - CpuUns(old \div CpuTop(1), 1) * CpuTop(1) + u * CpuTop(1)
  <2>1. CpuUns(old \div CpuTop(1), 1) = g
    BY <1>1, <1>4, <1>7 DEF CpuUns
  <2>2. T * g = g * T /\ T * u = u * T /\ T * u \in Int /\ g * T \in Int
    BY <1>1
  <2> QED  BY <1>1, <1>6, <1>8, <1>9, <1>10, <2>1, <2>2
<1> QED  BY <1>12, <1>13

-----------------------------------------------------------------------------
\* The registers after a write of u to one of them.
CpuPut(reg, n, size, rex, u) ==
  IF size = 1 /\ ~rex /\ n \in 4..7
  THEN [reg EXCEPT ![n - 4] =
          reg[n - 4] - CpuUns(reg[n - 4] \div CpuTop(1), 1) * CpuTop(1) + u * CpuTop(1)]
  ELSE [reg EXCEPT ![n] = IF size \in {4, 8} THEN u ELSE reg[n] - CpuUns(reg[n], size) + u]

LEMMA CpuPutIs ==
  ASSUME NEW reg \in [CpuRegs -> 0..CpuTop(8) - 1], NEW n, NEW size, NEW rex,
         CpuNamed(n, size, rex), NEW u \in 0..CpuTop(size) - 1
  PROVE  CpuPut(reg, n, size, rex, u) \in [CpuRegs -> 0..CpuTop(8) - 1]
<1>1. CASE size = 1 /\ ~rex /\ n \in 4..7
  <2>1. n - 4 \in CpuRegs
    BY <1>1, CpuNamedIs
  <2>2. reg[n - 4] \in 0..CpuTop(8) - 1
    BY <2>1
  <2>3. PICK w : w = reg[n - 4] - CpuUns(reg[n - 4] \div CpuTop(1), 1) * CpuTop(1) + u * CpuTop(1)
    OBVIOUS
  <2>4. w \in 0..CpuTop(8) - 1
    <3>1. u \in 0..CpuTop(1) - 1
      BY <1>1
    <3> QED  BY <2>2, <2>3, <3>1, CpuHighReplaced
  <2>5. CpuPut(reg, n, size, rex, u) = [reg EXCEPT ![n - 4] = w]
    BY <1>1, <2>3 DEF CpuPut
  <2> QED  BY <2>4, <2>5
<1>2. CASE ~(size = 1 /\ ~rex /\ n \in 4..7)
  <2>1. n \in CpuRegs
    BY <1>2, CpuNamedIs
  <2>2. reg[n] \in 0..CpuTop(8) - 1
    BY <2>1
  <2>3. PICK w : w = IF size \in {4, 8} THEN u ELSE reg[n] - CpuUns(reg[n], size) + u
    OBVIOUS
  <2>4. w \in 0..CpuTop(8) - 1
    <3>1. CASE size \in {4, 8}
      <4>1. CpuTop(size) <= CpuTop(8) /\ CpuTop(size) \in Nat /\ CpuTop(8) \in Nat
        BY <3>1, CpuUnsNested, CpuTops DEF CpuAllSizes
      <4> QED  BY <2>3, <3>1, <4>1
    <3>2. CASE size \notin {4, 8}
      <4>1. size \in {1, 2}
        BY <3>2 DEF CpuNamed, CpuAllSizes
      <4> QED  BY <2>2, <2>3, <3>2, <4>1, CpuLowReplaced
    <3> QED  BY <3>1, <3>2
  <2>5. CpuPut(reg, n, size, rex, u) = [reg EXCEPT ![n] = w]
    BY <1>2, <2>3 DEF CpuPut
  <2> QED  BY <2>4, <2>5
<1> QED  BY <1>1, <1>2

LEMMA CpuWriteIs ==
  ASSUME NEW s \in CpuState, NEW n, NEW size, NEW rex, CpuNamed(n, size, rex), NEW v \in Int
  PROVE  /\ CpuWrite(s, n, size, rex, v)
              = [s EXCEPT !.reg = CpuPut(s.reg, n, size, rex, CpuUns(v, size))]
         /\ CpuWrite(s, n, size, rex, v) \in CpuState
<1>1. size \in CpuAllSizes
  BY DEF CpuNamed
<1>2. PICK u : u = CpuUns(v, size)
  OBVIOUS
<1>3. CpuPut(s.reg, n, size, rex, u) \in [CpuRegs -> 0..CpuTop(8) - 1]
  <2>1. u \in 0..CpuTop(size) - 1
    BY <1>1, <1>2, CpuUnsIs
  <2>2. s.reg \in [CpuRegs -> 0..CpuTop(8) - 1]
    BY CpuStateParts
  <2> QED  BY <2>1, <2>2, CpuPutIs
<1>4. CpuWrite(s, n, size, rex, v) = [s EXCEPT !.reg = CpuPut(s.reg, n, size, rex, u)]
  <2>1. CASE size = 1 /\ ~rex /\ n \in 4..7
    <3>1. CpuWrite(s, n, size, rex, v) =
            [s EXCEPT !.reg[n - 4] =
               s.reg[n - 4] - CpuUns(s.reg[n - 4] \div CpuTop(1), 1) * CpuTop(1) + u * CpuTop(1)]
      BY <1>2, <2>1 DEF CpuWrite
    <3>2. CpuPut(s.reg, n, size, rex, u) =
            [s.reg EXCEPT ![n - 4] =
               s.reg[n - 4] - CpuUns(s.reg[n - 4] \div CpuTop(1), 1) * CpuTop(1) + u * CpuTop(1)]
      BY <2>1 DEF CpuPut
    <3> QED  BY <3>1, <3>2, Zenon
  <2>2. CASE ~(size = 1 /\ ~rex /\ n \in 4..7)
    <3>1. CpuWrite(s, n, size, rex, v) =
            [s EXCEPT !.reg[n] =
               IF size \in {4, 8} THEN u ELSE s.reg[n] - CpuUns(s.reg[n], size) + u]
      BY <1>2, <2>2 DEF CpuWrite
    <3>2. CpuPut(s.reg, n, size, rex, u) =
            [s.reg EXCEPT ![n] =
               IF size \in {4, 8} THEN u ELSE s.reg[n] - CpuUns(s.reg[n], size) + u]
      BY <2>2 DEF CpuPut
    <3> QED  BY <3>1, <3>2, Zenon
  <2> QED  BY <2>1, <2>2
<1>5. [s EXCEPT !.reg = CpuPut(s.reg, n, size, rex, u)] \in CpuState
  BY <1>3 DEF CpuState
<1> QED  BY <1>2, <1>4, <1>5

\* What a write leaves: the registers depend on those before and on the number written as
\* far as the operand is wide; the flags stay.
LEMMA CpuWriteSame ==
  ASSUME NEW s \in CpuState, NEW t \in CpuState, s.reg = t.reg,
         NEW n, NEW size, NEW rex, CpuNamed(n, size, rex),
         NEW v \in Int, NEW w \in Int, CpuUns(v, size) = CpuUns(w, size)
  PROVE  CpuWrite(s, n, size, rex, v).reg = CpuWrite(t, n, size, rex, w).reg
<1>1. CpuWrite(s, n, size, rex, v) = [s EXCEPT !.reg = CpuPut(s.reg, n, size, rex, CpuUns(v, size))]
  BY CpuWriteIs
<1>2. CpuWrite(t, n, size, rex, w) = [t EXCEPT !.reg = CpuPut(t.reg, n, size, rex, CpuUns(w, size))]
  BY CpuWriteIs
<1>3. CpuWrite(s, n, size, rex, v).reg = CpuPut(s.reg, n, size, rex, CpuUns(v, size))
  BY <1>1 DEF CpuState
<1>4. CpuWrite(t, n, size, rex, w).reg = CpuPut(t.reg, n, size, rex, CpuUns(w, size))
  BY <1>2 DEF CpuState
<1> QED  BY <1>3, <1>4, Zenon

LEMMA CpuWriteFlags ==
  ASSUME NEW s \in CpuState, NEW n, NEW size, NEW rex, CpuNamed(n, size, rex), NEW v \in Int
  PROVE  LET t == CpuWrite(s, n, size, rex, v)
         IN  /\ t \in CpuState /\ t.cf = s.cf /\ t.zf = s.zf /\ t.sf = s.sf /\ t.of = s.of
             /\ t.pf = s.pf
<1>1. CpuWrite(s, n, size, rex, v) = [s EXCEPT !.reg = CpuPut(s.reg, n, size, rex, CpuUns(v, size))]
  BY CpuWriteIs
<1> QED  BY <1>1, CpuWriteIs DEF CpuState

-----------------------------------------------------------------------------
(***************************************************************************)
(* The bitwise operations, flags and alu (Cpu).                            *)
(***************************************************************************)
CpuLogicOps == {"and", "or", "xor", "test"}

\* The number put together bit by bit.
CpuGathers(low, op, a, b) ==
  /\ low \in [0..CpuWidth(8) -> Nat] /\ low[0] = 0
  /\ \A k \in 1..CpuWidth(8) :
       low[k] = low[k - 1] + (IF CpuKeeps(op, CpuBit(a, k - 1), CpuBit(b, k - 1))
                              THEN 2 ^ (k - 1) ELSE 0)

LEMMA CpuBitwiseIs ==
  ASSUME NEW op, NEW a, NEW b
  PROVE  \E low : CpuGathers(low, op, a, b) /\ CpuBitwise(op, a, b) = low[CpuWidth(8)]
<1> DEFINE W == CpuWidth(8)
           Adds(k) == IF CpuKeeps(op, CpuBit(a, k - 1), CpuBit(b, k - 1)) THEN 2 ^ (k - 1) ELSE 0
           Is(g) == g = [k \in 0..W |->
                          IF k = 0 THEN 0
                          ELSE g[k - 1] + (IF CpuKeeps(op, CpuBit(a, k - 1), CpuBit(b, k - 1))
                                           THEN 2 ^ (k - 1) ELSE 0)]
           step == [x \in Nat \X (1..W) |-> x[1] + Adds(x[2])]
<1>1. W \in Nat
  BY CpuTops DEF CpuAllSizes
<1>2. \A k \in 1..W : Adds(k) \in Nat
  <2> SUFFICES ASSUME NEW k \in 1..W PROVE Adds(k) \in Nat
    OBVIOUS
  <2>1. k - 1 \in Nat
    BY <1>1
  <2>2. 2 ^ (k - 1) \in Nat
    BY <2>1, PowerCounts
  <2> QED  BY <2>2
<1> HIDE DEF W, Adds
<1>3. \A v \in Nat, k \in 1..W : step[<<v, k>>] = v + Adds(k)
  OBVIOUS
<1>4. IsStep(step, Nat, W)
  <2> HIDE DEF step
  <2>1. ASSUME NEW v \in Nat, NEW k \in 1..W
        PROVE  step[<<v, k>>] \in Nat
    <3>1. step[<<v, k>>] = v + Adds(k)
      BY <1>3
    <3>2. PICK j \in Nat : j = Adds(k)
      BY <1>2
    <3> QED  BY <3>1, <3>2
  <2> QED  BY <2>1 DEF IsStep
<1>5. PICK f : Iterates(f, Nat, 0, W, step)
  <2> HIDE DEF step
  <2> QED  BY <1>1, <1>4, Recursion
<1>6. f \in [0..W -> Nat] /\ f[0] = 0
  BY <1>5 DEF Iterates
<1>7. \A k \in 1..W : f[k] = f[k - 1] + Adds(k)
  <2> SUFFICES ASSUME NEW k \in 1..W PROVE f[k] = f[k - 1] + Adds(k)
    OBVIOUS
  <2>1. k - 1 \in 0..W
    BY <1>1
  <2>2. f[k - 1] \in Nat
    BY <1>6, <2>1
  <2>3. f[k] = step[<<f[k - 1], k>>]
    BY <1>5 DEF Iterates
  <2> QED  BY <1>3, <2>2, <2>3
<1>8. Is(f)
  <2> HIDE DEF step
  <2>1. \A k \in 0..W : f[k] = IF k = 0 THEN 0 ELSE f[k - 1] + Adds(k)
    <3> SUFFICES ASSUME NEW k \in 0..W, k # 0
                 PROVE  f[k] = f[k - 1] + Adds(k)
      BY <1>6
    <3>1. k \in 1..W
      BY <1>1
    <3> QED  BY <1>7, <3>1
  <2>2. f = [k \in 0..W |-> f[k]]
    BY <1>6
  <2> QED  BY <2>1, <2>2 DEF Adds
<1>9. CpuBitwise(op, a, b) = (CHOOSE g : Is(g))[W]
  BY DEF CpuBitwise, W
<1>10. PICK g : g = CHOOSE h : Is(h)
  OBVIOUS
<1>11. Is(g)
  <2> HIDE DEF Is
  <2> QED  BY <1>8, <1>10
<1>12. g[0] = 0 /\ \A k \in 1..W : g[k] = g[k - 1] + Adds(k)
  BY <1>1, <1>11 DEF Adds
<1>13. g \in [0..W -> Nat]
  <2> DEFINE N == {k \in Nat : k <= W => g[k] \in Nat}
  <2>1. 0 \in N
    BY <1>12
  <2>2. \A k \in Nat : k \in N => k + 1 \in N
    <3> SUFFICES ASSUME NEW k \in Nat, k \in N, k + 1 <= W
                 PROVE  g[k + 1] \in Nat
      OBVIOUS
    <3>1. k + 1 \in 1..W /\ (k + 1) - 1 = k /\ g[k] \in Nat
      BY <1>1
    <3> QED  BY <1>2, <1>12, <3>1
  <2>3. Nat \subseteq N
    <3> HIDE DEF N
    <3> QED  BY <2>1, <2>2, SetInduction
  <2>4. \A k \in 0..W : g[k] \in Nat
    BY <1>1, <2>3
  <2>5. g = [k \in 0..W |-> g[k]]
    BY <1>11
  <2> QED  BY <2>4, <2>5
<1>14. CpuGathers(g, op, a, b)
  BY <1>12, <1>13 DEF CpuGathers, W, Adds
<1> HIDE DEF Is
<1>15. CpuBitwise(op, a, b) = g[CpuWidth(8)]
  BY <1>9, <1>10 DEF W
<1> QED  BY <1>14, <1>15

LEMMA CpuBitwiseTyped ==
  ASSUME NEW op, NEW a, NEW b
  PROVE  CpuBitwise(op, a, b) \in Nat
<1>1. PICK low : CpuGathers(low, op, a, b) /\ CpuBitwise(op, a, b) = low[CpuWidth(8)]
  BY CpuBitwiseIs
<1>2. CpuWidth(8) \in 0..CpuWidth(8)
  BY CpuTops DEF CpuAllSizes
<1> QED  BY <1>1, <1>2 DEF CpuGathers

\* Flags.
LEMMA CpuResultFlagsIs ==
  ASSUME NEW s \in CpuState, NEW r, NEW size
  PROVE  LET t == CpuResultFlags(s, r, size)
         IN  /\ t \in CpuState /\ t.reg = s.reg /\ t.cf = s.cf /\ t.of = s.of
             /\ t.zf = (r = 0) /\ t.sf = CpuBit(r, CpuWidth(size) - 1) /\ t.pf = CpuParity(r)
<1>1. CpuBit(r, CpuWidth(size) - 1) \in BOOLEAN /\ CpuParity(r) \in BOOLEAN
  BY DEF CpuBit, CpuParity
<1> HIDE DEF CpuBit, CpuParity
<1> QED  BY <1>1 DEF CpuResultFlags, CpuState

LEMMA CpuAluResultTyped ==
  ASSUME NEW op \in CpuAluOps, NEW a \in Int, NEW b \in Int, NEW carry \in {0, 1}
  PROVE  CpuAluResult(op, a, b, carry) \in Int
<1>1. CpuBitwise(op, a, b) \in Int
  BY CpuBitwiseTyped
<1> QED  BY <1>1 DEF CpuAluResult, CpuAluOps

\* What alu makes: the result, and the flags it sets beside those of the result.
CpuCarryIn(s) == IF s.cf THEN 1 ELSE 0
CpuDiffer(x, y, size) == CpuBit(x, CpuWidth(size) - 1) # CpuBit(y, CpuWidth(size) - 1)

\* x is what alu makes of an unmasked result.
CpuAluParts(s, op, a, b, size, full, x) ==
  /\ full \in Int /\ x.r = CpuUns(full, size) /\ x.r \in 0..CpuTop(size) - 1
  /\ x.r \in Int /\ x.s \in CpuState /\ x.s.reg = s.reg
  /\ x.s.zf = (x.r = 0) /\ x.s.sf = CpuBit(x.r, CpuWidth(size) - 1)
  /\ x.s.pf = CpuParity(x.r)
  /\ x.s.cf = (CASE op \in {"add", "adc"} -> full >= CpuTop(size)
                 [] op \in {"sub", "cmp", "sbb"} -> full < 0
                 [] OTHER -> FALSE)
  /\ x.s.of = (CASE op = "add" -> ~CpuDiffer(a, b, size) /\ CpuDiffer(x.r, a, size)
                 [] op \in {"sub", "cmp"} -> CpuDiffer(a, b, size) /\ CpuDiffer(x.r, a, size)
                 [] OTHER -> FALSE)

LEMMA CpuAluIs ==
  ASSUME NEW s \in CpuState, NEW op \in CpuAluOps, NEW a \in Int, NEW b \in Int,
         NEW size \in CpuAllSizes
  PROVE  CpuAluParts(s, op, a, b, size, CpuAluResult(op, a, b, CpuCarryIn(s)),
                     CpuAlu(s, op, a, b, size))
<1>1. CpuCarryIn(s) \in {0, 1}
  BY DEF CpuCarryIn
<1>2. PICK full \in Int : full = CpuAluResult(op, a, b, CpuCarryIn(s))
  BY <1>1, CpuAluResultTyped
<1>3. PICK r : r = CpuUns(full, size)
  OBVIOUS
<1>4. r \in 0..CpuTop(size) - 1 /\ r \in Int
  BY <1>3, CpuUnsIs
<1>5. PICK t : t = CpuResultFlags(s, r, size)
  OBVIOUS
<1>6. /\ t \in CpuState /\ t.reg = s.reg /\ t.zf = (r = 0)
      /\ t.sf = CpuBit(r, CpuWidth(size) - 1) /\ t.pf = CpuParity(r)
  BY <1>5, CpuResultFlagsIs
<1> DEFINE cf == CASE op \in {"add", "adc"} -> full >= CpuTop(size)
                   [] op \in {"sub", "cmp", "sbb"} -> full < 0
                   [] OTHER -> FALSE
           of == CASE op = "add" -> ~CpuDiffer(a, b, size) /\ CpuDiffer(r, a, size)
                   [] op \in {"sub", "cmp"} -> CpuDiffer(a, b, size) /\ CpuDiffer(r, a, size)
                   [] OTHER -> FALSE
<1>7. CpuAlu(s, op, a, b, size) = [r |-> r, s |-> [t EXCEPT !.cf = cf, !.of = of]]
  BY <1>2, <1>3, <1>5, Zenon DEF CpuAlu, CpuCarryIn, CpuDiffer
<1>8. cf \in BOOLEAN /\ of \in BOOLEAN
  <2>1. cf \in BOOLEAN
    <3>1. CASE op \in {"add", "adc"}
      <4>1. PICK T \in Nat : T = CpuTop(size)
        BY CpuTops
      <4>2. (full >= T) \in BOOLEAN
        OBVIOUS
      <4>3. cf = (full >= T)
        BY <3>1, <4>1
      <4> QED  BY <4>2, <4>3
    <3>2. CASE op \in {"sub", "cmp", "sbb"}
      BY <3>2
    <3>3. CASE op \notin {"add", "adc", "sub", "cmp", "sbb"}
      BY <3>3
    <3> QED  BY <3>1, <3>2, <3>3
  <2>2. of \in BOOLEAN
    <3>1. CASE op = "add"
      BY <3>1
    <3>2. CASE op \in {"sub", "cmp"}
      BY <3>2
    <3>3. CASE op \notin {"add", "sub", "cmp"}
      BY <3>3
    <3> QED  BY <3>1, <3>2, <3>3
  <2> QED  BY <2>1, <2>2
<1>9. PICK c \in BOOLEAN : c = cf
  BY <1>8
<1>10. PICK o \in BOOLEAN : o = of
  BY <1>8
<1>11. PICK u : u = [t EXCEPT !.cf = c, !.of = o]
  OBVIOUS
<1>12. /\ u \in CpuState /\ u.reg = s.reg /\ u.zf = (r = 0) /\ u.cf = c /\ u.of = o
       /\ u.sf = CpuBit(r, CpuWidth(size) - 1) /\ u.pf = CpuParity(r)
  BY <1>6, <1>11 DEF CpuState
<1>13. CpuAlu(s, op, a, b, size) = [r |-> r, s |-> u]
  BY <1>7, <1>9, <1>10, <1>11
<1>14. CpuAlu(s, op, a, b, size).r = r /\ CpuAlu(s, op, a, b, size).s = u
  BY <1>13
<1> HIDE DEF cf, of
<1>15. u.cf = cf /\ u.of = of
  BY <1>9, <1>10, <1>12
<1>16. PICK x : x = CpuAlu(s, op, a, b, size)
  OBVIOUS
<1>17. /\ x.r = r /\ x.s \in CpuState /\ x.s.reg = s.reg /\ x.s.zf = (r = 0)
       /\ x.s.sf = CpuBit(r, CpuWidth(size) - 1) /\ x.s.pf = CpuParity(r)
       /\ x.s.cf = cf /\ x.s.of = of
  BY <1>12, <1>14, <1>15, <1>16
<1>18. CpuAluParts(s, op, a, b, size, full, x)
  BY <1>3, <1>4, <1>17, Zenon DEF CpuAluParts, cf, of
<1> QED  BY <1>2, <1>16, <1>18

-----------------------------------------------------------------------------
(***************************************************************************)
(* Instructions (Cpu).                                                     *)
(***************************************************************************)
\* What an instruction is made of.
LEMMA CpuInsnParts ==
  ASSUME NEW i \in CpuInsns
  PROVE  /\ i.op \in CpuOps /\ i.size \in CpuAllSizes /\ i.rex \in BOOLEAN /\ i.imm \in Nat
         /\ i.cc \in 0..15 /\ i.form \in CpuForms(i.op) /\ i.size \in CpuSizes(i.op)
         /\ CpuNamed(i.d, i.size, i.rex)
BY DEF CpuInsns, CpuNamed, CpuAllSizes

LEMMA CpuInsnSource ==
  ASSUME NEW i \in CpuInsns
  PROVE  /\ i.op \notin CpuExtendOps => CpuNamed(i.r, i.size, i.rex)
         /\ i.op \in CpuExtendOps =>
              i.size \in {2, 4, 8} /\ i.size \div 2 \in {1, 2, 4}
              /\ CpuNamed(i.r, i.size \div 2, i.rex)
<1>1. CASE i.op \notin CpuExtendOps
  BY <1>1 DEF CpuInsns, CpuNamed, CpuAllSizes, CpuSourceSize
<1>2. CASE i.op \in CpuExtendOps
  <2>1. CpuSizes(i.op) = {2, 4, 8}
    BY <1>2 DEF CpuSizes, CpuExtendOps, CpuDoubleOps, CpuScanOps, CpuBitOps, CpuWidenOps
  <2>2. i.size \in {2, 4, 8} /\ i.r \in CpuNames(i.size \div 2, i.rex) /\ i.rex \in BOOLEAN
    BY <1>2, <2>1 DEF CpuInsns, CpuSourceSize
  <2>3. i.size \div 2 \in {1, 2, 4}
    BY <2>2
  <2> QED  BY <1>2, <2>2, <2>3 DEF CpuNamed, CpuAllSizes
<1> QED  BY <1>1, <1>2

LEMMA CpuUnsTyped ==
  ASSUME NEW size \in CpuAllSizes, NEW v \in Int
  PROVE  CpuUns(v, size) \in 0..CpuTop(size) - 1 /\ CpuUns(v, size) \in Int
BY CpuUnsIs

LEMMA CpuSxIs ==
  ASSUME NEW size \in CpuAllSizes, NEW v \in Int
  PROVE  CpuSx(v, size) \in 0..CpuTop(8) - 1 /\ CpuSx(v, size) \in Int
<1>1. CpuSgn(v, size) \in Int
  BY CpuSgnIs
<1> QED  BY <1>1, CpuUnsIs DEF CpuSx, CpuAllSizes

\* The instructions whose second operand CpuOperand is.
CpuOperandOps == CpuAluOps \cup {"imul2", "mov"}

LEMMA CpuOperandTyped ==
  ASSUME NEW s \in CpuState, NEW i \in CpuInsns, i.op \in CpuOperandOps
  PROVE  CpuOperand(s, i) \in Int
<1>1. i.op \notin CpuExtendOps
  BY DEF CpuOperandOps, CpuAluOps, CpuExtendOps
<1>2. /\ i.form \in {"reg", "imm8", "immz", "acc"} /\ i.size \in CpuAllSizes /\ i.imm \in Nat
      /\ i.op = "test" => i.form # "imm8"
  BY CpuInsnParts DEF CpuForms, CpuOperandOps, CpuAluOps, CpuRotateOps, CpuShiftOps, CpuDoubleOps,
     CpuBitOps
<1>3. CASE i.form = "reg"
  <2>1. CpuRead(s, i.r, i.size, i.rex) \in Int
    BY <1>1, CpuInsnSource, CpuReadIs
  <2> QED  BY <1>3, <2>1 DEF CpuOperand
<1>4. CASE i.form \in {"imm8", "immz", "acc"} /\ i.size = 1
  <2>1. CpuUns(i.imm, 1) \in Int
    BY <1>2, CpuUnsTyped DEF CpuAllSizes
  <2> QED  BY <1>4, <2>1 DEF CpuOperand
<1>5. CASE i.form \in {"imm8", "immz", "acc"} /\ i.size # 1
  <2>1. CpuSx(i.imm, 1) \in Int /\ CpuSx(i.imm, 2) \in Int /\ CpuSx(i.imm, 4) \in Int
    BY <1>2, CpuSxIs DEF CpuAllSizes
  <2>2. CpuUns(i.imm, 2) \in Int /\ CpuUns(i.imm, 4) \in Int
    BY <1>2, CpuUnsTyped DEF CpuAllSizes
  <2>3. i.size > 1 /\ (i.size # 2 => i.size > 2)
    BY <1>2, <1>5 DEF CpuAllSizes
  <2>4. CASE i.form = "imm8"
    BY <1>5, <2>1, <2>3, <2>4 DEF CpuOperand
  <2>5. CASE i.form = "immz"
    BY <1>5, <2>1, <2>2, <2>3, <2>5 DEF CpuOperand
  <2>6. CASE i.form = "acc"
    BY <1>5, <2>1, <2>2, <2>3, <2>6 DEF CpuOperand
  <2> QED  BY <1>5, <2>4, <2>5, <2>6
<1> QED  BY <1>2, <1>3, <1>4, <1>5

\* imm8 and cl are masked to a register's width.
LEMMA CpuCountIs ==
  ASSUME NEW s \in CpuState, NEW i \in CpuInsns, i.form \in {"one", "imm8", "cl"}
  PROVE  /\ CpuCount(s, i) \in Nat
         /\ CpuCount(s, i) < CpuWidth(8) /\ (i.size # 8 => CpuCount(s, i) < CpuWidth(4))
<1> DEFINE mask == CpuWidth(IF i.size = 8 THEN 8 ELSE 4)
<1>1. mask \in Nat /\ mask >= 2 /\ mask <= CpuWidth(8) /\ (i.size # 8 => mask = CpuWidth(4))
  BY CpuAssumption DEF CpuWidth
<1>2. CASE i.form = "one"
  <2>1. CpuCount(s, i) = 1
    BY <1>2 DEF CpuCount
  <2> QED  BY <1>1, <2>1, CpuTops DEF CpuAllSizes
<1>3. CASE i.form = "imm8"
  <2>1. CpuCount(s, i) = i.imm % mask /\ i.imm \in Nat
    BY <1>3, CpuInsnParts DEF CpuCount
  <2> HIDE DEF mask
  <2>2. i.imm % mask \in Nat /\ i.imm % mask < mask
    BY <1>1, <2>1
  <2> QED  BY <1>1, <2>1, <2>2, CpuTops DEF CpuAllSizes
<1>4. CASE i.form = "cl"
  <2>1. CpuCount(s, i) = CpuRead(s, 1, 1, i.rex) % mask
    BY <1>4 DEF CpuCount
  <2> HIDE DEF mask
  <2>2. CpuNamed(1, 1, i.rex)
    BY CpuInsnParts, CpuNamedLow DEF CpuAllSizes
  <2>3. PICK n \in Nat : n = CpuRead(s, 1, 1, i.rex)
    BY <2>2, CpuReadIs
  <2>4. n % mask \in Nat /\ n % mask < mask
    BY <1>1
  <2> QED  BY <1>1, <2>1, <2>3, <2>4, CpuTops DEF CpuAllSizes
<1> QED  BY <1>2, <1>3, <1>4

LEMMA CpuPowers ==
  ASSUME NEW n \in Nat
  PROVE  2 ^ n \in Nat \ {0}
BY PowerCounts

LEMMA CpuQuotients ==
  ASSUME NEW x \in Int, NEW n \in Nat
  PROVE  x \div 2 ^ n \in Int /\ x % 2 ^ n \in Int /\ x * 2 ^ n \in Int
<1>1. PICK p \in Nat \ {0} : p = 2 ^ n
  BY CpuPowers
<1>2. x \div p \in Int /\ x % p \in Int /\ x * p \in Int
  OBVIOUS
<1> QED  BY <1>1, <1>2

\* Flags may be set to anything.
LEMMA CpuFlagsSet ==
  ASSUME NEW s \in CpuState, NEW c \in BOOLEAN, NEW o \in BOOLEAN, NEW z \in BOOLEAN,
         NEW g \in BOOLEAN
  PROVE  /\ [s EXCEPT !.cf = c, !.of = o, !.zf = z, !.sf = g] \in CpuState
         /\ [s EXCEPT !.cf = c, !.of = o] \in CpuState
         /\ [s EXCEPT !.cf = c] \in CpuState /\ [s EXCEPT !.zf = z] \in CpuState
BY DEF CpuState

-----------------------------------------------------------------------------
(* Every instruction leaves a state.                                       *)

LEMMA CpuAluTyped ==
  ASSUME NEW s \in CpuState, NEW i \in CpuInsns, i.op \in CpuAluOps
  PROVE  CpuDoAlu(s, i) \in CpuState
<1>1. CpuNamed(i.d, i.size, i.rex) /\ i.size \in CpuAllSizes
  BY CpuInsnParts
<1>2. PICK a \in Int : a = CpuRead(s, i.d, i.size, i.rex)
  BY <1>1, CpuReadIs
<1>3. PICK b \in Int : b = CpuOperand(s, i)
  BY CpuOperandTyped DEF CpuOperandOps
<1>4. PICK x : x = CpuAlu(s, i.op, a, b, i.size)
  OBVIOUS
<1>5. x.r \in Int /\ x.s \in CpuState
  BY <1>1, <1>4, CpuAluIs DEF CpuAluParts
<1>6. CpuWrite(x.s, i.d, i.size, i.rex, x.r) \in CpuState
  BY <1>1, <1>5, CpuWriteIs
<1> QED  BY <1>2, <1>3, <1>4, <1>5, <1>6 DEF CpuDoAlu

LEMMA CpuUnaryTyped ==
  ASSUME NEW s \in CpuState, NEW i \in CpuInsns, i.op \in CpuUnaryOps
  PROVE  CpuDoUnary(s, i) \in CpuState
<1>1. CpuNamed(i.d, i.size, i.rex) /\ i.size \in CpuAllSizes
  BY CpuInsnParts
<1> DEFINE a == CpuRead(s, i.d, i.size, i.rex)
           x == CASE i.op = "inc" -> CpuAlu(s, "add", a, 1, i.size)
                  [] i.op = "dec" -> CpuAlu(s, "sub", a, 1, i.size)
                  [] i.op = "neg" -> CpuAlu(s, "sub", 0, a, i.size)
                  [] i.op = "not" -> [r |-> CpuTop(i.size) - 1 - a, s |-> s]
           t == IF i.op \in {"inc", "dec"} THEN [x.s EXCEPT !.cf = s.cf] ELSE x.s
<1>2. a \in Int
  BY <1>1, CpuReadIs
<1>6. CpuDoUnary(s, i) = CpuWrite(t, i.d, i.size, i.rex, x.r)
  BY Zenon DEF CpuDoUnary
<1> HIDE DEF a
<1>3. x.r \in Int /\ x.s \in CpuState
  <2>1. CASE i.op = "not"
    <3>1. CpuTop(i.size) - 1 - a \in Int
      BY <1>1, <1>2, CpuTops
    <3> QED  BY <2>1, <3>1
  <2>2. CASE i.op \in {"inc", "dec", "neg"}
    <3>1. "add" \in CpuAluOps /\ "sub" \in CpuAluOps /\ 1 \in Int /\ 0 \in Int
      BY DEF CpuAluOps
    <3>2. ASSUME NEW op \in {"add", "sub"}, NEW y \in Int, NEW z \in Int
          PROVE  /\ CpuAlu(s, op, y, z, i.size).r \in Int
                 /\ CpuAlu(s, op, y, z, i.size).s \in CpuState
      <4>1. op \in CpuAluOps
        BY <3>1
      <4> HIDE DEF a, x, t
      <4>2. CpuAluParts(s, op, y, z, i.size, CpuAluResult(op, y, z, CpuCarryIn(s)),
                        CpuAlu(s, op, y, z, i.size))
        BY <1>1, <4>1, CpuAluIs
      <4> QED  BY <4>2 DEF CpuAluParts
    <3> QED  BY <1>2, <2>2, <3>1, <3>2
  <2> QED  BY <2>1, <2>2 DEF CpuUnaryOps
<1>4. t \in CpuState
  <2>1. s.cf \in BOOLEAN
    BY CpuStateParts
  <2> HIDE DEF x
  <2> QED  BY <1>3, <2>1, CpuFlagsSet
<1>5. CpuWrite(t, i.d, i.size, i.rex, x.r) \in CpuState
  <2> HIDE DEF x, t
  <2> QED  BY <1>1, <1>3, <1>4, CpuWriteIs
<1> QED  BY <1>5, <1>6

LEMMA CpuShiftForm ==
  ASSUME NEW i \in CpuInsns, i.op \in CpuRotateOps \cup CpuShiftOps \cup CpuDoubleOps
  PROVE  i.form \in {"one", "imm8", "cl"} /\ i.op \notin CpuExtendOps
<1>1. i.form \in CpuForms(i.op)
  BY CpuInsnParts
<1>2. CASE i.op \in CpuRotateOps \cup CpuShiftOps
  <2>1. i.op \notin CpuAluOps /\ i.op # "imul2"
    BY <1>2 DEF CpuAluOps, CpuRotateOps, CpuShiftOps
  <2>2. CpuForms(i.op) = {"one", "imm8", "cl"}
    BY <1>2, <2>1 DEF CpuForms, CpuRotateOps, CpuShiftOps, CpuDoubleOps, CpuBitOps
  <2> QED  BY <1>1, <1>2, <2>2 DEF CpuRotateOps, CpuShiftOps, CpuExtendOps
<1>3. CASE i.op \in CpuDoubleOps
  <2>1. i.op \notin CpuAluOps /\ i.op # "imul2" /\ i.op \notin CpuRotateOps \cup CpuShiftOps
    BY <1>3 DEF CpuAluOps, CpuRotateOps, CpuShiftOps, CpuDoubleOps
  <2>2. CpuForms(i.op) = {"imm8", "cl"}
    BY <1>3, <2>1 DEF CpuForms, CpuDoubleOps, CpuBitOps
  <2> QED  BY <1>1, <1>3, <2>2 DEF CpuDoubleOps, CpuExtendOps
<1> QED  BY <1>2, <1>3

\* Rotating a word with the carry above its top.
LEMMA CpuThroughTyped ==
  ASSUME NEW s \in CpuState, NEW op, NEW a \in Int, NEW count \in Nat, NEW size \in CpuAllSizes
  PROVE  LET x == CpuThroughCarry(s, op, a, count, size)
         IN  x.r \in Int /\ x.cf \in BOOLEAN
<1>1. PICK n \in Nat \ {0} : n = CpuWidth(size) + 1
  BY CpuTops
<1>2. PICK ring \in Int : ring = a + (IF s.cf THEN CpuTop(size) ELSE 0)
  BY CpuTops
<1>3. PICK k \in Nat : k = (IF op = "rcl" THEN count % n ELSE (n - (count % n)) % n) /\ k < n
  <2>1. count % n \in Nat /\ count % n < n
    BY <1>1
  <2>2. (n - (count % n)) % n \in Nat /\ (n - (count % n)) % n < n
    BY <2>1
  <2> QED  BY <2>1, <2>2
<1>4. n - k \in Nat
  BY <1>3
<1>5. PICK p \in Nat \ {0} : p = 2 ^ k
  BY CpuPowers
<1>6. PICK q \in Nat \ {0} : q = 2 ^ (n - k)
  BY <1>4, CpuPowers
<1>7. PICK turned \in Int : turned = (ring % q) * p + ring \div q
  <2>1. ring % q \in Int /\ ring \div q \in Int
    OBVIOUS
  <2>2. (ring % q) * p \in Int
    BY <2>1
  <2> QED  BY <2>1, <2>2
<1>8. CpuThroughCarry(s, op, a, count, size)
        = [r |-> turned % CpuTop(size), cf |-> turned >= CpuTop(size)]
  <2>1. turned = (ring % 2 ^ (n - k)) * 2 ^ k + ring \div 2 ^ (n - k)
    BY <1>5, <1>6, <1>7
  <2>2. k = (IF op = "rcl" THEN count % n ELSE (n - (count % n)) % n)
    BY <1>3
  <2> QED  BY <1>1, <1>2, <2>1, <2>2, Zenon DEF CpuThroughCarry
<1>9. PICK T \in Nat \ {0} : T = CpuTop(size)
  BY CpuTops
<1>10. turned % T \in Int /\ (turned >= T) \in BOOLEAN
  OBVIOUS
<1> QED  BY <1>8, <1>9, <1>10

LEMMA CpuShiftTyped ==
  ASSUME NEW s \in CpuState, NEW i \in CpuInsns, i.op \in CpuRotateOps \cup CpuShiftOps
  PROVE  CpuDoShift(s, i) \in CpuState
<1>1. CpuNamed(i.d, i.size, i.rex) /\ i.size \in CpuAllSizes
  BY CpuInsnParts
<1> DEFINE size == i.size
           bits == CpuWidth(size)
           a == CpuRead(s, i.d, size, i.rex)
           count == CpuCount(s, i)
           c == count % bits
           rotated == IF i.op = "rol" THEN CpuUns(a * 2 ^ c, size) + a \div 2 ^ (bits - c)
                      ELSE a \div 2 ^ c + CpuUns(a * 2 ^ (bits - c), size)
           through == CpuThroughCarry(s, i.op, a, count, size)
           r == CASE i.op \in {"rol", "ror"} -> IF c = 0 THEN a ELSE rotated
                  [] i.op \in {"rcl", "rcr"} -> through.r
                  [] i.op = "shl" -> CpuUns(a * 2 ^ count, size)
                  [] i.op = "shr" -> a \div 2 ^ count
                  [] i.op = "sar" -> CpuUns(CpuSgn(a, size) \div 2 ^ count, size)
           cf == CASE i.op \in {"rol", "ror"} /\ c = 0 -> s.cf
                   [] i.op = "rol" /\ c # 0 -> CpuBit(a, bits - c)
                   [] i.op = "ror" /\ c # 0 -> CpuBit(r, bits - 1)
                   [] i.op \in {"rcl", "rcr"} -> through.cf
                   [] i.op = "shl" -> count > 0 /\ CpuBit(a, bits - count)
                   [] i.op \in {"shr", "sar"} -> count > 0 /\ CpuBit(a, count - 1)
           of == CASE i.op = "rol" /\ count = 1 -> CpuBit(r, bits - 1) # cf
                   [] i.op = "ror" /\ count = 1 -> CpuBit(r, bits - 1) # CpuBit(r, bits - 2)
                   [] OTHER -> s.of
           flagged == IF i.op \in {"rol", "ror"} THEN s ELSE CpuResultFlags(s, r, size)
<1>9. CpuDoShift(s, i) = CpuWrite([flagged EXCEPT !.cf = cf, !.of = of], i.d, size, i.rex, r)
  BY Zenon DEF CpuDoShift
<1>2. a \in Int
  BY <1>1, CpuReadIs
<1>3. count \in Nat
  BY CpuCountIs, CpuShiftForm
<1>4. bits \in Nat \ {0}
  BY <1>1, CpuTops
<1> HIDE DEF a, count, bits
<1>5. c \in Nat /\ c < bits
  BY <1>3, <1>4
<1> HIDE DEF c
<1>6. bits - c \in Nat
  BY <1>4, <1>5
<1>8. through.r \in Int /\ through.cf \in BOOLEAN
  BY <1>1, <1>2, <1>3, CpuThroughTyped
<1> HIDE DEF through
<1>10. r \in Int
  <2>1. /\ CpuUns(a * 2 ^ c, size) \in Int /\ CpuUns(a * 2 ^ (bits - c), size) \in Int
        /\ a \div 2 ^ c \in Int /\ a \div 2 ^ (bits - c) \in Int
        /\ CpuUns(a * 2 ^ count, size) \in Int /\ a \div 2 ^ count \in Int
    BY <1>1, <1>2, <1>3, <1>5, <1>6, CpuQuotients, CpuUnsTyped
  <2>2. CpuUns(CpuSgn(a, size) \div 2 ^ count, size) \in Int
    <3>1. CpuSgn(a, size) \in Int
      BY <1>1, <1>2, CpuSgnIs
    <3> QED  BY <1>1, <1>3, <3>1, CpuQuotients, CpuUnsTyped
  <2>3. rotated \in Int
    BY <2>1
  <2> HIDE DEF rotated
  <2> QED  BY <1>2, <1>8, <2>1, <2>2, <2>3 DEF CpuRotateOps, CpuShiftOps
<1>11. cf \in BOOLEAN
  <2>1. /\ s.cf \in BOOLEAN /\ \A x, k : CpuBit(x, k) \in BOOLEAN
    BY CpuStateParts DEF CpuBit
  <2> HIDE DEF r
  <2>2. CASE i.op \in {"rol", "ror"}
    BY <2>1, <2>2
  <2>3. CASE i.op \in {"rcl", "rcr"}
    BY <1>8, <2>3
  <2>4. CASE i.op = "shl"
    BY <2>1, <2>4
  <2>5. CASE i.op \in {"shr", "sar"}
    BY <2>1, <2>5
  <2> QED  BY <2>2, <2>3, <2>4, <2>5 DEF CpuRotateOps, CpuShiftOps
<1>12. of \in BOOLEAN
  <2>1. s.of \in BOOLEAN
    BY CpuStateParts
  <2> HIDE DEF r, cf
  <2> QED  BY <2>1
<1>13. flagged \in CpuState
  <2> HIDE DEF r
  <2> QED  BY CpuResultFlagsIs
<1> HIDE DEF r, cf, of, flagged
<1>14. [flagged EXCEPT !.cf = cf, !.of = of] \in CpuState
  BY <1>11, <1>12, <1>13, CpuFlagsSet
<1> QED  BY <1>1, <1>9, <1>10, <1>14, CpuWriteIs

LEMMA CpuDoubleTyped ==
  ASSUME NEW s \in CpuState, NEW i \in CpuInsns, i.op \in CpuDoubleOps
  PROVE  CpuDoDouble(s, i) \in CpuState
<1>1. CpuNamed(i.d, i.size, i.rex) /\ i.size \in CpuAllSizes
  BY CpuInsnParts
<1> DEFINE size == i.size
           bits == CpuWidth(size)
           count == CpuCount(s, i)
           a == CpuRead(s, i.d, size, i.rex)
           b == CpuRead(s, i.r, size, i.rex)
           left == i.op = "shld"
           spill == IF count <= bits
                    THEN IF left THEN b \div 2 ^ (bits - count) ELSE b * 2 ^ (bits - count)
                    ELSE IF left THEN b * 2 ^ (count - bits) ELSE b \div 2 ^ (count - bits)
           both == CpuBitwise("or", IF left THEN a * 2 ^ count ELSE a \div 2 ^ count, spill)
           r == CpuUns(both, size)
           cf == IF left THEN CpuBit(a, bits - count) ELSE CpuBit(a, count - 1)
           of == IF count # 1 THEN s.of
                 ELSE IF left THEN CpuBit(r, bits - 1) # cf
                      ELSE CpuBit(a, bits - 1) # CpuBit(a, bits - 2)
           t == [s EXCEPT !.cf = cf, !.of = of, !.zf = r = 0, !.sf = CpuBit(r, bits - 1)]
<1>2. r \in Int
  <2>1. both \in Int
    BY CpuBitwiseTyped
  <2> HIDE DEF both
  <2> QED  BY <1>1, <2>1, CpuUnsTyped
<1>3. cf \in BOOLEAN /\ of \in BOOLEAN /\ (r = 0) \in BOOLEAN /\ CpuBit(r, bits - 1) \in BOOLEAN
  <2>1. s.of \in BOOLEAN
    BY CpuStateParts
  <2>2. \A x, k : CpuBit(x, k) \in BOOLEAN
    BY DEF CpuBit
  <2> HIDE DEF a, r, bits, left, count
  <2> QED  BY <2>1, <2>2
<1>4. CpuDoDouble(s, i) = IF count = 0 THEN s ELSE CpuWrite(t, i.d, size, i.rex, r)
  BY Zenon DEF CpuDoDouble
<1> HIDE DEF r, cf, of
<1>5. t \in CpuState
  BY <1>3, CpuFlagsSet
<1> HIDE DEF t
<1>6. CpuWrite(t, i.d, size, i.rex, r) \in CpuState
  BY <1>1, <1>2, <1>5, CpuWriteIs
<1> QED  BY <1>4, <1>6

-----------------------------------------------------------------------------
\* Whole registers.
LEMMA CpuSetIs ==
  ASSUME NEW s \in CpuState, NEW n \in CpuRegs, NEW v \in 0..CpuTop(8) - 1
  PROVE  CpuSet(s, n, v) \in CpuState
BY DEF CpuSet, CpuState

LEMMA CpuFits ==
  ASSUME NEW size \in CpuAllSizes, NEW v \in 0..CpuTop(size) - 1
  PROVE  v \in 0..CpuTop(8) - 1 /\ v \in Nat
<1>1. CpuTop(size) <= CpuTop(8) /\ CpuTop(size) \in Nat /\ CpuTop(8) \in Nat
  BY CpuUnsNested, CpuTops DEF CpuAllSizes
<1> QED  BY <1>1

\* Both halves of a product.
LEMMA CpuHalves ==
  ASSUME NEW size \in CpuAllSizes, NEW p \in Int
  PROVE  LET full == p % (CpuTop(size) * CpuTop(size))
         IN  /\ full \in Nat
             /\ full % CpuTop(size) \in 0..CpuTop(size) - 1
             /\ full \div CpuTop(size) \in 0..CpuTop(size) - 1
<1>1. PICK T \in Nat \ {0} : T = CpuTop(size)
  BY CpuTops
<1>2. T * T \in Nat \ {0}
  OBVIOUS
<1>3. PICK full \in Nat : full = p % (T * T)
  <2>1. p % (T * T) \in Int /\ 0 <= p % (T * T)
    BY <1>2, Divided
  <2> QED  BY <2>1
<1>4. full % T \in 0..T - 1
  OBVIOUS
<1>5. full \div T \in 0..T - 1
  <2>1. (p % (T * T)) \div T = (p \div T) % T
    BY NestedMiddle
  <2>2. p \div T \in Int
    OBVIOUS
  <2>3. (p \div T) % T \in 0..T - 1
    BY <2>2
  <2> QED  BY <1>3, <2>1, <2>3
<1> QED  BY <1>1, <1>3, <1>4, <1>5

LEMMA CpuMulTyped ==
  ASSUME NEW s \in CpuState, NEW i \in CpuInsns, i.op \in CpuMulOps
  PROVE  CpuDoMul(s, i) \in CpuState
<1>1. CpuNamed(i.d, i.size, i.rex) /\ i.size \in CpuAllSizes
  BY CpuInsnParts
<1> DEFINE size == i.size
           signed == i.op = "imul"
           take(v) == IF signed THEN CpuSgn(v, size) ELSE CpuUns(v, size)
           full == (take(s.reg[0]) * take(CpuRead(s, i.d, size, i.rex)))
                     % (CpuTop(size) * CpuTop(size))
           lo == full % CpuTop(size)
           hi == full \div CpuTop(size)
           fill == IF signed /\ CpuBit(lo, CpuWidth(size) - 1) THEN CpuTop(size) - 1 ELSE 0
           u == CpuSet(CpuSet(s, 0, lo), 2, hi)
<1>2. CpuDoMul(s, i) = [u EXCEPT !.cf = hi # fill, !.of = hi # fill]
  BY Zenon DEF CpuDoMul
<1>3. \A v \in Int : take(v) \in Int
  BY <1>1, CpuSgnIs, CpuUnsTyped
<1>4. s.reg[0] \in Int /\ CpuRead(s, i.d, size, i.rex) \in Int
  BY <1>1, CpuStateRegs, CpuReadIs DEF CpuRegs
<1>5. PICK p \in Int : p = take(s.reg[0]) * take(CpuRead(s, i.d, size, i.rex))
  <2> HIDE DEF take
  <2>1. take(s.reg[0]) \in Int /\ take(CpuRead(s, i.d, size, i.rex)) \in Int
    BY <1>3, <1>4
  <2> QED  BY <2>1
<1>6. lo \in 0..CpuTop(size) - 1 /\ hi \in 0..CpuTop(size) - 1
  <2>1. full = p % (CpuTop(size) * CpuTop(size))
    BY <1>5
  <2> HIDE DEF full
  <2> QED  BY <1>1, <2>1, CpuHalves
<1> HIDE DEF lo, hi
<1>7. u \in CpuState
  <2>1. lo \in 0..CpuTop(8) - 1 /\ hi \in 0..CpuTop(8) - 1
    BY <1>1, <1>6, CpuFits
  <2> QED  BY <2>1, CpuSetIs DEF CpuRegs
<1> HIDE DEF u
<1> QED  BY <1>2, <1>7, CpuFlagsSet

\* Truncated division.
LEMMA CpuQuotientTyped ==
  ASSUME NEW x \in Int, NEW y \in Int, y # 0
  PROVE  CpuQuotient(x, y) \in Int
<1> DEFINE abs(v) == IF v < 0 THEN -v ELSE v
<1>1. PICK m \in Nat : m = abs(x)
  OBVIOUS
<1>2. PICK n \in Nat \ {0} : n = abs(y)
  OBVIOUS
<1>3. m \div n \in Int
  OBVIOUS
<1>4. abs(x) \div abs(y) \in Int
  BY <1>1, <1>2, <1>3
<1> QED  BY <1>4 DEF CpuQuotient

LEMMA CpuDivTyped ==
  ASSUME NEW s \in CpuState, NEW i \in CpuInsns, i.op \in CpuDivOps
  PROVE  CpuFaults(CpuDoDiv(s, i)) \/ CpuDoDiv(s, i) \in CpuState
<1>1. CpuNamed(i.d, i.size, i.rex) /\ i.size \in CpuAllSizes
  BY CpuInsnParts
<1> DEFINE size == i.size
           signed == i.op = "idiv"
           raw == CpuRead(s, i.d, size, i.rex)
           both == s.reg[2] * CpuTop(size) + CpuUns(s.reg[0], size)
           square == CpuTop(size) * CpuTop(size)
           wrapped == both % square
           divisor == IF signed THEN CpuSgn(raw, size) ELSE raw
           dividend == IF ~signed THEN both
                       ELSE IF 2 * wrapped >= square THEN wrapped - square ELSE wrapped
           q == CpuQuotient(dividend, divisor)
           fits == IF signed THEN q >= -CpuSign(size) /\ q < CpuSign(size) ELSE q < CpuTop(size)
           done == CpuSet(CpuSet(s, 0, CpuUns(q, size)), 2, CpuUns(dividend - q * divisor, size))
<1>2. CpuDoDiv(s, i) = IF divisor = 0 THEN CpuFault("division by zero")
                       ELSE IF ~fits THEN CpuFault("division overflow") ELSE done
  BY Zenon DEF CpuDoDiv
<1>3. \A why : CpuFaults(CpuFault(why))
  BY DEF CpuFaults, CpuFault
<1>4. raw \in Int /\ s.reg[2] \in Int /\ s.reg[0] \in Int
  BY <1>1, CpuReadIs, CpuStateRegs DEF CpuRegs
<1>5. CpuTop(size) \in Nat \ {0} /\ CpuUns(s.reg[0], size) \in Int
  BY <1>1, <1>4, CpuTops, CpuUnsTyped
<1>6. both \in Int
  BY <1>4, <1>5
<1>7. square \in Nat \ {0}
  BY <1>5
<1> HIDE DEF both, square
<1>8. dividend \in Int
  BY <1>6, <1>7
<1>9. divisor \in Int
  <2> HIDE DEF raw
  <2>1. CpuSgn(raw, size) \in Int
    BY <1>1, <1>4, CpuSgnIs
  <2> QED  BY <1>4, <2>1
<1> HIDE DEF dividend, divisor
<1>10. ASSUME divisor # 0
       PROVE  done \in CpuState
  <2>1. q \in Int
    BY <1>8, <1>9, <1>10, CpuQuotientTyped
  <2> HIDE DEF q
  <2>2. dividend - q * divisor \in Int
    BY <1>8, <1>9, <2>1
  <2>3. PICK v : v = CpuUns(q, size)
    OBVIOUS
  <2>4. PICK w : w = CpuUns(dividend - q * divisor, size)
    OBVIOUS
  <2>5. v \in 0..CpuTop(8) - 1 /\ w \in 0..CpuTop(8) - 1
    BY <1>1, <2>1, <2>2, <2>3, <2>4, CpuUnsTyped, CpuFits
  <2>6. CpuSet(CpuSet(s, 0, v), 2, w) \in CpuState
    BY <2>5, CpuSetIs DEF CpuRegs
  <2> QED  BY <2>3, <2>4, <2>6
<1> HIDE DEF done, fits
<1> QED  BY <1>2, <1>3, <1>10

LEMMA CpuImulTyped ==
  ASSUME NEW s \in CpuState, NEW i \in CpuInsns, i.op = "imul2"
  PROVE  CpuDoImul(s, i) \in CpuState
<1>1. CpuNamed(i.d, i.size, i.rex) /\ i.size \in CpuAllSizes /\ CpuNamed(i.r, i.size, i.rex)
  BY CpuInsnParts, CpuInsnSource DEF CpuExtendOps
<1> DEFINE a == CpuRead(s, i.r, i.size, i.rex)
           b == IF i.form = "reg" THEN CpuRead(s, i.d, i.size, i.rex) ELSE CpuOperand(s, i)
<1>2. CpuDoImul(s, i) = CpuWrite(s, i.d, i.size, i.rex, CpuSgn(a, i.size) * b)
  BY Zenon DEF CpuDoImul
<1>3. a \in Int
  BY <1>1, CpuReadIs
<1>4. b \in Int
  BY <1>1, CpuReadIs, CpuOperandTyped DEF CpuOperandOps
<1> HIDE DEF a, b
<1>5. CpuSgn(a, i.size) \in Int
  BY <1>1, <1>3, CpuSgnIs
<1>6. CpuSgn(a, i.size) * b \in Int
  BY <1>4, <1>5
<1> QED  BY <1>1, <1>2, <1>6, CpuWriteIs

-----------------------------------------------------------------------------
(* Bits.                                                                   *)

\* A bit more.
LEMMA CpuBitStep ==
  ASSUME NEW v \in Int, NEW k \in Nat
  PROVE  v % 2 ^ (k + 1) = (v % 2 ^ k) + (IF CpuBit(v, k) THEN 2 ^ k ELSE 0)
<1>1. PICK p \in Nat \ {0} : p = 2 ^ k
  BY CpuPowers
<1>2. 2 ^ (k + 1) = p * 2
  <2>1. 2 * p = p * 2
    OBVIOUS
  <2> QED  BY <1>1, <2>1, PowerStep
<1>3. PICK w \in Int : w = v % (p * 2)
  OBVIOUS
<1> DEFINE two == 2
<1>a. two \in Nat \ {0}
  OBVIOUS
<1>4. w % p = v % p
  <2> HIDE DEF two
  <2>1. (v % (p * two)) % p = v % p
    BY <1>a, NestedModulo
  <2> QED  BY <1>3, <2>1 DEF two
<1>5. w \div p = (v \div p) % 2
  <2> HIDE DEF two
  <2>1. (v % (p * two)) \div p = (v \div p) % two
    BY <1>a, NestedMiddle
  <2> QED  BY <1>3, <2>1 DEF two
<1>6. PICK q \in Int : q = v \div p
  OBVIOUS
<1>7. q % 2 \in {0, 1}
  OBVIOUS
<1>8. w = p * (w \div p) + (w % p)
  BY Divided
<1>9. v % p \in Int
  OBVIOUS
<1>10. w = p * (q % 2) + (v % p)
  BY <1>4, <1>5, <1>6, <1>8
<1>11. CASE q % 2 = 0
  <2>1. ~CpuBit(v, k)
    BY <1>1, <1>6, <1>11 DEF CpuBit
  <2>2. PICK m \in Int : m = v % p
    BY <1>9
  <2>3. w = p * 0 + m /\ p * 0 = 0
    BY <1>10, <1>11, <2>2
  <2>4. w = m + 0
    BY <2>3
  <2> QED  BY <1>1, <1>2, <1>3, <2>1, <2>2, <2>4, Zenon
<1>12. CASE q % 2 = 1
  <2>1. CpuBit(v, k)
    BY <1>1, <1>6, <1>12 DEF CpuBit
  <2>2. PICK m \in Int : m = v % p
    BY <1>9
  <2>3. w = p * 1 + m /\ p * 1 = p
    BY <1>10, <1>12, <2>2
  <2>4. w = m + p
    BY <2>3
  <2> QED  BY <1>1, <1>2, <1>3, <2>1, <2>2, <2>4, Zenon
<1> QED  BY <1>7, <1>11, <1>12

\* The low bits are those of the residue.
LEMMA CpuBitLow ==
  ASSUME NEW v \in Int, NEW n \in Nat, NEW k \in Nat, k < n
  PROVE  CpuBit(v % 2 ^ n, k) = CpuBit(v, k)
<1>1. PICK p \in Nat \ {0} : p = 2 ^ k
  BY CpuPowers
<1>2. PICK j \in Nat : n = k + 1 + j
  <2>1. n - k - 1 \in Nat /\ n = k + 1 + (n - k - 1)
    OBVIOUS
  <2> QED  BY <2>1
<1>3. PICK r \in Nat \ {0} : r = 2 ^ j
  BY CpuPowers
<1>4. 2 ^ n = p * (2 * r)
  <2>1. 2 ^ n = 2 ^ (k + 1) * 2 ^ j
    BY <1>2, PowerAdds
  <2>2. 2 ^ (k + 1) = 2 * p
    BY <1>1, PowerStep
  <2>3. (2 * p) * r = p * (2 * r)
    OBVIOUS
  <2> QED  BY <1>3, <2>1, <2>2, <2>3
<1>5. PICK q \in Int : q = v \div p
  OBVIOUS
<1>6. (v % (p * (2 * r))) \div p = (v \div p) % (2 * r)
  <2>1. 2 * r \in Nat \ {0}
    OBVIOUS
  <2> QED  BY <2>1, NestedMiddle
<1>7. (q % (2 * r)) % 2 = q % 2
  <2> DEFINE two == 2
  <2>1. two \in Nat \ {0}
    OBVIOUS
  <2> HIDE DEF two
  <2>2. (q % (two * r)) % two = q % two
    BY <2>1, NestedModulo
  <2> QED  BY <2>2 DEF two
<1> QED  BY <1>1, <1>4, <1>5, <1>6, <1>7 DEF CpuBit

\* The top bit of a word.
LEMMA CpuBitTop ==
  ASSUME NEW n \in Nat, NEW u \in 0..2 ^ (n + 1) - 1
  PROVE  CpuBit(u, n) <=> u >= 2 ^ n
<1>1. PICK p \in Nat \ {0} : p = 2 ^ n
  BY CpuPowers
<1>2. 2 ^ (n + 1) = 2 * p
  BY <1>1, PowerStep
<1>3. u \in Nat /\ u < 2 * p
  BY <1>2
<1>4. u % (2 * p) = u
  <2>1. (2 * p) * 0 + u = u /\ 2 * p \in Nat \ {0}
    BY <1>3
  <2>2. ((2 * p) * 0 + u) % (2 * p) = u
    BY <1>3, <2>1, DividedOnce
  <2> QED  BY <2>1, <2>2
<1>5. u = (u % p) + (IF CpuBit(u, n) THEN p ELSE 0)
  <2>1. u \in Int
    BY <1>3
  <2>2. u % 2 ^ (n + 1) = (u % 2 ^ n) + (IF CpuBit(u, n) THEN 2 ^ n ELSE 0)
    BY <2>1, CpuBitStep, Zenon
  <2> QED  BY <1>1, <1>2, <1>4, <2>2, Zenon
<1>6. u % p \in Nat /\ u % p < p
  BY <1>3
<1>7. u < p => u % p = u
  <2>1. p * 0 + u = u
    BY <1>3
  <2>2. u < p => (p * 0 + u) % p = u
    BY <1>3, DividedOnce
  <2> QED  BY <2>1, <2>2
<1> QED  BY <1>1, <1>3, <1>5, <1>6, <1>7

\* There are no bits above a word.
LEMMA CpuBitAbove ==
  ASSUME NEW n \in Nat, NEW u \in 0..2 ^ n - 1, NEW k \in Nat, k >= n
  PROVE  ~CpuBit(u, k)
<1>1. PICK j \in Nat : k = n + j
  <2>1. k - n \in Nat /\ k = n + (k - n)
    OBVIOUS
  <2> QED  BY <2>1
<1>2. PICK p \in Nat \ {0} : p = 2 ^ n
  BY CpuPowers
<1>3. PICK r \in Nat \ {0} : r = 2 ^ j
  BY CpuPowers
<1>4. 2 ^ k = p * r
  BY <1>1, <1>2, <1>3, PowerAdds
<1>5. p * r \in Nat \ {0} /\ u \in Nat /\ u < p * r
  <2>1. PICK m \in Nat : r = m + 1
    <3>1. r - 1 \in Nat /\ r = (r - 1) + 1
      OBVIOUS
    <3> QED  BY <3>1
  <2>2. p * (m + 1) = p * m + p /\ p * m \in Nat
    OBVIOUS
  <2> QED  BY <1>2, <2>1, <2>2
<1>6. u \div (p * r) = 0
  <2>1. PICK w \in Nat \ {0} : w = p * r
    BY <1>5
  <2>2. w * 0 + u = u
    BY <1>5
  <2>3. (w * 0 + u) \div w = 0
    BY <1>5, <2>1, DividedOnce
  <2> QED  BY <2>1, <2>2, <2>3
<1> QED  BY <1>4, <1>6 DEF CpuBit

\* A number other than zero has a bit set.
LEMMA CpuBitSome ==
  ASSUME NEW n \in Nat, NEW u \in 0..2 ^ n - 1, u # 0
  PROVE  \E k \in 0..n - 1 : CpuBit(u, k)
<1>1. SUFFICES ASSUME \A k \in 0..n - 1 : ~CpuBit(u, k)
               PROVE  FALSE
  OBVIOUS
<1>2. PICK p \in Nat \ {0} : p = 2 ^ n
  BY CpuPowers
<1>3. u \in Nat /\ u < p
  BY <1>2
<1> DEFINE N == {k \in Nat : k <= n => u % 2 ^ k = 0}
<1>4. 0 \in N
  <2>1. 2 ^ 0 = 1 /\ u % 1 = 0
    BY <1>3
  <2> QED  BY <2>1
<1>5. \A k \in Nat : k \in N => k + 1 \in N
  <2> SUFFICES ASSUME NEW k \in Nat, k \in N, k + 1 <= n
               PROVE  u % 2 ^ (k + 1) = 0
    OBVIOUS
  <2>1. k \in 0..n - 1 /\ u % 2 ^ k = 0
    OBVIOUS
  <2>2. ~CpuBit(u, k)
    BY <1>1, <2>1
  <2>3. u % 2 ^ (k + 1) = (u % 2 ^ k) + 0
    <3>1. u \in Int
      BY <1>3
    <3>2. u % 2 ^ (k + 1) = (u % 2 ^ k) + (IF CpuBit(u, k) THEN 2 ^ k ELSE 0)
      BY <3>1, CpuBitStep, Zenon
    <3> QED  BY <2>2, <3>2, Zenon
  <2> QED  BY <2>1, <2>3
<1>6. Nat \subseteq N
  <2> HIDE DEF N
  <2> QED  BY <1>4, <1>5, SetInduction
<1>7. u % p = 0
  BY <1>2, <1>6
<1>8. u % p = u
  <2>1. p * 0 + u = u
    BY <1>3
  <2>2. (p * 0 + u) % p = u
    BY <1>3, DividedOnce
  <2> QED  BY <2>1, <2>2
<1> QED  BY <1>7, <1>8

\* The same of operands.
LEMMA CpuBitsOf ==
  ASSUME NEW size \in CpuAllSizes, NEW v \in Int
  PROVE  /\ CpuBit(v, CpuWidth(size) - 1) <=> CpuUns(v, size) >= CpuSign(size)
         /\ \A k \in Nat : k < CpuWidth(size) => CpuBit(CpuUns(v, size), k) = CpuBit(v, k)
<1>1. PICK n \in Nat : n = CpuWidth(size) - 1
  BY CpuTops
<1>2. CpuWidth(size) = n + 1 /\ CpuTop(size) = 2 ^ (n + 1) /\ CpuSign(size) = 2 ^ n
  <2>1. CpuWidth(size) = n + 1
    BY <1>1, CpuTops
  <2> QED  BY <1>1, <2>1 DEF CpuTop, CpuSign
<1>3. \A k \in Nat : k < n + 1 => CpuBit(v % 2 ^ (n + 1), k) = CpuBit(v, k)
  BY CpuBitLow
<1>4. CpuUns(v, size) = v % 2 ^ (n + 1)
  BY <1>2 DEF CpuUns
<1>5. CpuUns(v, size) \in 0..2 ^ (n + 1) - 1
  BY <1>2, CpuUnsTyped
<1>6. CpuBit(CpuUns(v, size), n) <=> CpuUns(v, size) >= 2 ^ n
  BY <1>5, CpuBitTop
<1>7. CpuBit(CpuUns(v, size), n) = CpuBit(v, n)
  BY <1>3, <1>4
<1>8. CpuBit(v, n) <=> CpuUns(v, size) >= CpuSign(size)
  BY <1>2, <1>6, <1>7
<1> QED  BY <1>1, <1>2, <1>3, <1>4, <1>8

-----------------------------------------------------------------------------
LEMMA CpuScanTyped ==
  ASSUME NEW s \in CpuState, NEW i \in CpuInsns, i.op \in CpuScanOps
  PROVE  CpuDoScan(s, i) \in CpuState
<1>1. CpuNamed(i.d, i.size, i.rex) /\ i.size \in CpuAllSizes /\ CpuNamed(i.r, i.size, i.rex)
  BY CpuInsnParts, CpuInsnSource DEF CpuExtendOps, CpuScanOps
<1> DEFINE v == CpuRead(s, i.r, i.size, i.rex)
           set == {k \in 0..CpuWidth(i.size) - 1 : CpuBit(v, k)}
           k == IF i.op = "bsf" THEN Min(set) ELSE Max(set)
<1>2. CpuDoScan(s, i) = IF v = 0 THEN [s EXCEPT !.zf = TRUE]
                        ELSE CpuWrite([s EXCEPT !.zf = FALSE], i.d, i.size, i.rex, k)
  BY Zenon DEF CpuDoScan
<1>3. [s EXCEPT !.zf = TRUE] \in CpuState /\ [s EXCEPT !.zf = FALSE] \in CpuState
  BY CpuFlagsSet
<1>4. ASSUME v # 0
      PROVE  k \in Int
  <2>1. PICK n \in Nat : n = CpuWidth(i.size)
    BY <1>1, CpuTops
  <2>2. v \in 0..2 ^ n - 1
    BY <1>1, <2>1, CpuReadIs DEF CpuTop
  <2> HIDE DEF v
  <2>3. \E b \in 0..n - 1 : CpuBit(v, b)
    BY <1>4, <2>2, CpuBitSome
  <2>4. set # {} /\ set \in SUBSET (0..n - 1)
    BY <2>1, <2>3
  <2> HIDE DEF set
  <2>5. \E x \in set : \A y \in set : x <= y
    <3>1. set \in SUBSET Nat
      BY <2>1, <2>4
    <3> QED  BY <2>4, <3>1, LeastNumber
  <2>9. \A y \in set : y \in Int /\ n - y \in Nat
    BY <2>1, <2>4
  <2>6. \E x \in set : \A y \in set : x >= y
    <3> DEFINE up == {n - y : y \in set}
    <3>1. up \in SUBSET Nat /\ up # {}
      BY <2>4, <2>9
    <3>2. PICK z \in up : \A y \in up : z <= y
      <4> HIDE DEF up
      <4> QED  BY <3>1, LeastNumber
    <3>3. PICK x \in set : z = n - x
      OBVIOUS
    <3>4. \A y \in set : n - x <= n - y
      BY <3>2, <3>3
    <3> QED  BY <2>1, <2>9, <3>4
  <2>7. Min(set) \in set
    BY <2>5, Zenon DEF Min
  <2>8. Max(set) \in set
    BY <2>6, Zenon DEF Max
  <2> QED  BY <2>7, <2>8, <2>9
<1> HIDE DEF v, k
<1>5. ASSUME v # 0
      PROVE  CpuWrite([s EXCEPT !.zf = FALSE], i.d, i.size, i.rex, k) \in CpuState
  BY <1>1, <1>3, <1>4, <1>5, CpuWriteIs
<1> QED  BY <1>2, <1>3, <1>5

LEMMA CpuBitTestTyped ==
  ASSUME NEW s \in CpuState, NEW i \in CpuInsns, i.op \in CpuBitOps
  PROVE  CpuDoBitTest(s, i) \in CpuState
<1>1. CpuNamed(i.d, i.size, i.rex) /\ i.size \in CpuAllSizes /\ CpuNamed(i.r, i.size, i.rex)
      /\ i.imm \in Nat
  BY CpuInsnParts, CpuInsnSource DEF CpuExtendOps, CpuBitOps
<1> DEFINE v == CpuRead(s, i.d, i.size, i.rex)
           index == IF i.form = "reg" THEN CpuRead(s, i.r, i.size, i.rex) ELSE CpuUns(i.imm, 1)
           k == index % CpuWidth(i.size)
           was == CpuBit(v, k)
           set == CASE i.op = "bts" -> TRUE [] i.op = "btr" -> FALSE [] i.op = "btc" -> ~was
                    [] i.op = "bt" -> was
           r == v + (IF set /\ ~was THEN 2 ^ k ELSE IF was /\ ~set THEN -(2 ^ k) ELSE 0)
           t == [s EXCEPT !.cf = was]
<1>2. CpuDoBitTest(s, i) = IF i.op = "bt" THEN t ELSE CpuWrite(t, i.d, i.size, i.rex, r)
  BY Zenon DEF CpuDoBitTest
<1>3. v \in Int
  BY <1>1, CpuReadIs
<1>4. index \in Int
  <2>1. CpuRead(s, i.r, i.size, i.rex) \in Int
    BY <1>1, CpuReadIs
  <2>2. CpuUns(i.imm, 1) \in Int
    BY <1>1, CpuUnsTyped DEF CpuAllSizes
  <2> QED  BY <2>1, <2>2
<1> HIDE DEF v, index
<1>5. k \in Nat
  <2>1. PICK w \in Nat \ {0} : w = CpuWidth(i.size)
    BY <1>1, CpuTops
  <2>2. index % w \in Int /\ 0 <= index % w
    BY <1>4, <2>1, Divided
  <2> QED  BY <2>1, <2>2
<1>6. was \in BOOLEAN
  BY DEF CpuBit
<1> HIDE DEF k, was
<1>7. r \in Int
  <2>1. PICK p \in Nat : p = 2 ^ k
    BY <1>5, CpuPowers
  <2> HIDE DEF set
  <2> QED  BY <1>3, <2>1
<1> HIDE DEF r
<1>8. t \in CpuState
  BY <1>6, CpuFlagsSet
<1> HIDE DEF t
<1>9. CpuWrite(t, i.d, i.size, i.rex, r) \in CpuState
  BY <1>1, <1>7, <1>8, CpuWriteIs
<1> QED  BY <1>2, <1>8, <1>9

LEMMA CpuCmpxchgTyped ==
  ASSUME NEW s \in CpuState, NEW i \in CpuInsns, i.op = "cmpxchg"
  PROVE  CpuDoCmpxchg(s, i) \in CpuState
<1>1. /\ CpuNamed(i.d, i.size, i.rex) /\ CpuNamed(i.r, i.size, i.rex)
      /\ CpuNamed(0, i.size, i.rex)
  BY CpuInsnParts, CpuInsnSource, CpuNamedLow DEF CpuExtendOps
<1> DEFINE dst == CpuRead(s, i.d, i.size, i.rex)
           equal == dst = CpuRead(s, 0, i.size, i.rex)
           t == [s EXCEPT !.zf = equal]
<1>2. CpuDoCmpxchg(s, i)
        = IF equal THEN CpuWrite(t, i.d, i.size, i.rex, CpuRead(s, i.r, i.size, i.rex))
          ELSE CpuWrite(t, 0, i.size, i.rex, dst)
  BY Zenon DEF CpuDoCmpxchg
<1>3. t \in CpuState
  <2>1. equal \in BOOLEAN
    OBVIOUS
  <2> HIDE DEF equal
  <2> QED  BY <2>1, CpuFlagsSet
<1> HIDE DEF t, equal
<1>4. CpuWrite(t, i.d, i.size, i.rex, CpuRead(s, i.r, i.size, i.rex)) \in CpuState
  <2>1. CpuRead(s, i.r, i.size, i.rex) \in Int
    BY <1>1, CpuReadIs
  <2> QED  BY <1>1, <1>3, <2>1, CpuWriteIs
<1>5. CpuWrite(t, 0, i.size, i.rex, dst) \in CpuState
  <2>1. dst \in Int
    BY <1>1, CpuReadIs
  <2> HIDE DEF dst
  <2> QED  BY <1>1, <1>3, <2>1, CpuWriteIs
<1> QED  BY <1>2, <1>4, <1>5

\* Two writes, one after the other.
LEMMA CpuWritesTyped ==
  ASSUME NEW s \in CpuState, NEW m, NEW n, NEW size, NEW rex,
         CpuNamed(m, size, rex), CpuNamed(n, size, rex), NEW v \in Int, NEW w \in Int
  PROVE  CpuWrite(CpuWrite(s, m, size, rex, v), n, size, rex, w) \in CpuState
<1>1. PICK t \in CpuState : t = CpuWrite(s, m, size, rex, v)
  BY CpuWriteIs
<1> QED  BY <1>1, CpuWriteIs

LEMMA CpuExchangesTyped ==
  ASSUME NEW s \in CpuState, NEW i \in CpuInsns, i.op \in {"xchg", "xadd"}
  PROVE  CpuDoXchg(s, i) \in CpuState /\ CpuDoXadd(s, i) \in CpuState
<1>1. CpuNamed(i.d, i.size, i.rex) /\ CpuNamed(i.r, i.size, i.rex) /\ i.size \in CpuAllSizes
  BY CpuInsnParts, CpuInsnSource DEF CpuExtendOps
<1>2. PICK a \in Int : a = CpuRead(s, i.d, i.size, i.rex)
  BY <1>1, CpuReadIs
<1>3. PICK b \in Int : b = CpuRead(s, i.r, i.size, i.rex)
  BY <1>1, CpuReadIs
<1>4. CpuDoXchg(s, i) \in CpuState
  BY <1>1, <1>2, <1>3, CpuWritesTyped DEF CpuDoXchg
<1>5. PICK x : x = CpuAlu(s, "add", a, b, i.size)
  OBVIOUS
<1>6. x.r \in Int /\ x.s \in CpuState
  <2>1. "add" \in CpuAluOps
    BY DEF CpuAluOps
  <2> QED  BY <1>1, <1>5, <2>1, CpuAluIs DEF CpuAluParts
<1>7. CpuDoXadd(s, i) = CpuWrite(CpuWrite(x.s, i.d, i.size, i.rex, x.r), i.r, i.size, i.rex, a)
  BY <1>2, <1>3, <1>5 DEF CpuDoXadd
<1>8. CpuWrite(CpuWrite(x.s, i.d, i.size, i.rex, x.r), i.r, i.size, i.rex, a) \in CpuState
  BY <1>1, <1>6, CpuWritesTyped
<1> QED  BY <1>4, <1>7, <1>8

LEMMA CpuExtendTyped ==
  ASSUME NEW s \in CpuState, NEW i \in CpuInsns, i.op \in CpuExtendOps
  PROVE  CpuDoExtend(s, i) \in CpuState
<1>1. /\ CpuNamed(i.d, i.size, i.rex) /\ i.size \div 2 \in CpuAllSizes
      /\ CpuNamed(i.r, i.size \div 2, i.rex)
  BY CpuInsnParts, CpuInsnSource DEF CpuAllSizes
<1>2. PICK half \in CpuAllSizes : half = i.size \div 2
  BY <1>1
<1>3. PICK v \in Int : v = CpuRead(s, i.r, half, i.rex)
  BY <1>1, <1>2, CpuReadIs
<1>4. PICK x : x = IF i.op = "movzx" THEN v ELSE CpuSgn(v, half)
  OBVIOUS
<1>5. x \in Int
  BY <1>4, CpuSgnIs
<1>6. CpuDoExtend(s, i) = CpuWrite(s, i.d, i.size, i.rex, x)
  BY <1>2, <1>3, <1>4 DEF CpuDoExtend
<1> QED  BY <1>1, <1>5, <1>6, CpuWriteIs

LEMMA CpuWidenTyped ==
  ASSUME NEW s \in CpuState, NEW i \in CpuInsns, i.op \in CpuWidenOps
  PROVE  CpuDoWiden(s, i) \in CpuState
<1>1. i.size \in CpuAllSizes /\ i.rex \in BOOLEAN
  BY CpuInsnParts
<1>2. s.reg[0] \in Int /\ 0 \in CpuRegs
  BY CpuStateRegs DEF CpuRegs
<1>3. CASE i.op = "cdqe" /\ i.size = 8
  <2>1. CpuSx(s.reg[0], 4) \in 0..CpuTop(8) - 1
    BY <1>2, CpuSxIs DEF CpuAllSizes
  <2> QED  BY <1>2, <1>3, <2>1, CpuSetIs DEF CpuDoWiden
<1>4. CASE i.op = "cdqe" /\ i.size # 8
  <2>1. CpuSgn(s.reg[0], 2) \in Int
    BY <1>2, CpuSgnIs DEF CpuAllSizes
  <2>2. CpuNamed(0, 4, i.rex)
    BY <1>1, CpuNamedLow DEF CpuAllSizes
  <2> QED  BY <1>4, <2>1, <2>2, CpuWriteIs DEF CpuDoWiden
<1>5. CASE i.op = "cdq"
  <2>1. CpuTop(i.size) \in Int
    BY <1>1, CpuTops
  <2>2. CpuNamed(2, i.size, TRUE)
    BY <1>1, CpuNamedLow
  <2>3. PICK v \in Int : v = IF CpuSgn(s.reg[0], i.size) < 0 THEN CpuTop(i.size) - 1 ELSE 0
    BY <2>1
  <2>4. CpuDoWiden(s, i) = CpuWrite(s, 2, i.size, TRUE, v)
    BY <1>5, <2>3 DEF CpuDoWiden
  <2>5. CpuWrite(s, 2, i.size, TRUE, v) \in CpuState
    BY <2>2, CpuWriteIs
  <2> QED  BY <2>4, <2>5
<1> QED  BY <1>3, <1>4, <1>5 DEF CpuWidenOps

-----------------------------------------------------------------------------
LEMMA CpuBswapTyped ==
  ASSUME NEW s \in CpuState, NEW i \in CpuInsns, i.op = "bswap"
  PROVE  CpuDoBswap(s, i) \in CpuState
<1> DEFINE size == IF i.size = 8 THEN 8 ELSE 4
           v == CpuRead(s, i.d, size, i.rex)
           byte(k) == (v \div 2 ^ (CpuByte * k)) % CpuTop(1)
           Is(g) == g = [n \in 0..size |-> IF n = 0 THEN 0 ELSE g[n - 1] * CpuTop(1) + byte(n - 1)]
           V == Nat
           step == [x \in V \X (1..size) |-> x[1] * CpuTop(1) + byte(x[2] - 1)]
<1>1. CpuNamed(i.d, size, i.rex) /\ size \in {4, 8} /\ size \in CpuAllSizes
  <2>1. i.size \in {2, 4, 8}
    <3>1. i.op \notin {"setcc"} /\ i.op \in CpuDoubleOps \cup CpuScanOps \cup CpuBitOps
            \cup CpuExtendOps \cup CpuWidenOps \cup {"bswap", "cmov"}
      OBVIOUS
    <3>2. CpuSizes(i.op) = {2, 4, 8}
      BY <3>1 DEF CpuSizes
    <3> QED  BY <3>2, CpuInsnParts
  <2>2. CpuNamed(i.d, i.size, i.rex)
    BY CpuInsnParts
  <2> QED  BY <2>1, <2>2 DEF CpuNamed, CpuNames, CpuAllSizes
<1>2. v \in Int
  BY <1>1, CpuReadIs
<1>3. PICK T \in Nat \ {0} : T = CpuTop(1)
  BY CpuTops DEF CpuAllSizes
<1>4. CpuDoBswap(s, i) = CpuWrite(s, i.d, size, i.rex, (CHOOSE g : Is(g))[size])
  BY DEF CpuDoBswap
<1> HIDE DEF v, size
<1>5. \A k \in Nat : byte(k) \in Nat
  <2> SUFFICES ASSUME NEW k \in Nat PROVE byte(k) \in Nat
    OBVIOUS
  <2>1. CpuByte * k \in Nat
    BY CpuAssumption
  <2>2. v \div 2 ^ (CpuByte * k) \in Int
    BY <1>2, <2>1, CpuQuotients
  <2>3. PICK q \in Int : q = v \div 2 ^ (CpuByte * k)
    BY <2>2
  <2>4. q % T \in Int /\ 0 <= q % T
    BY Divided
  <2> QED  BY <1>3, <2>3, <2>4
<1> HIDE DEF byte
<1>6. size \in Nat
  BY <1>1
<1>7. ASSUME NEW x \in V, NEW k \in 1..size
      PROVE  step[<<x, k>>] = x * CpuTop(1) + byte(k - 1) /\ step[<<x, k>>] \in V
  <2>1. step[<<x, k>>] = x * CpuTop(1) + byte(k - 1)
    OBVIOUS
  <2>2. k - 1 \in Nat
    BY <1>6
  <2>3. PICK y \in Nat : y = byte(k - 1)
    BY <1>5, <2>2
  <2>4. x * T + y \in Nat
    OBVIOUS
  <2> QED  BY <1>3, <2>1, <2>3, <2>4
<1>8. IsStep(step, V, size)
  <2> HIDE DEF step
  <2> QED  BY <1>7 DEF IsStep
<1>9. PICK f : Iterates(f, V, 0, size, step)
  <2> HIDE DEF step
  <2>1. 0 \in V
    OBVIOUS
  <2> QED  BY <1>6, <1>8, <2>1, Recursion
<1>10. f \in [0..size -> V] /\ f[0] = 0
  BY <1>9 DEF Iterates
<1>11. Is(f)
  <2>1. ASSUME NEW n \in 0..size, n # 0
        PROVE  f[n] = f[n - 1] * CpuTop(1) + byte(n - 1)
    <3>1. n \in 1..size /\ n - 1 \in 0..size
      BY <1>6, <2>1
    <3>2. f[n - 1] \in V
      BY <1>10, <3>1
    <3>3. f[n] = step[<<f[n - 1], n>>]
      BY <1>9, <3>1 DEF Iterates
    <3> HIDE DEF step
    <3> QED  BY <1>7, <3>1, <3>2, <3>3
  <2>2. \A n \in 0..size : f[n] = IF n = 0 THEN 0 ELSE f[n - 1] * CpuTop(1) + byte(n - 1)
    BY <1>10, <2>1
  <2>3. f = [n \in 0..size |-> f[n]]
    BY <1>10
  <2> QED  BY <2>2, <2>3
<1>12. PICK g : g = CHOOSE h : Is(h)
  OBVIOUS
<1>13. Is(g)
  <2> HIDE DEF Is
  <2> QED  BY <1>11, <1>12
<1>14. g[size] \in Nat
  <2>1. g[0] = 0 /\ \A n \in 1..size : g[n] = g[n - 1] * CpuTop(1) + byte(n - 1)
    BY <1>6, <1>13
  <2> DEFINE N == {n \in Nat : n <= size => g[n] \in Nat}
  <2>2. 0 \in N
    BY <2>1
  <2>3. \A n \in Nat : n \in N => n + 1 \in N
    <3> SUFFICES ASSUME NEW n \in Nat, n \in N, n + 1 <= size
                 PROVE  g[n + 1] \in Nat
      OBVIOUS
    <3>1. n + 1 \in 1..size /\ (n + 1) - 1 = n /\ g[n] \in Nat
      BY <1>6
    <3>2. g[n + 1] = step[<<g[n], n + 1>>] /\ step[<<g[n], n + 1>>] \in V
      <4> HIDE DEF step
      <4> QED  BY <1>7, <2>1, <3>1
    <3> HIDE DEF step
    <3> QED  BY <3>2
  <2>4. Nat \subseteq N
    <3> HIDE DEF N
    <3> QED  BY <2>2, <2>3, SetInduction
  <2> QED  BY <1>6, <2>4
<1> HIDE DEF Is
<1>15. CpuDoBswap(s, i) = CpuWrite(s, i.d, size, i.rex, g[size])
  BY <1>4, <1>12, Zenon
<1>16. g[size] \in Int
  BY <1>14
<1>17. CpuWrite(s, i.d, size, i.rex, g[size]) \in CpuState
  BY <1>1, <1>16, CpuWriteIs
<1> QED  BY <1>15, <1>17

LEMMA CpuOthersTyped ==
  ASSUME NEW s \in CpuState, NEW i \in CpuInsns,
         i.op \in CpuCarryOps \cup {"setcc", "cmov", "mov"}
  PROVE  CpuDo(s, i) \in CpuState
<1>1. CpuNamed(i.d, i.size, i.rex) /\ CpuNamed(i.r, i.size, i.rex) /\ i.rex \in BOOLEAN
      /\ i.size \in CpuAllSizes
  BY CpuInsnParts, CpuInsnSource DEF CpuExtendOps, CpuCarryOps
<1> USE DEF CpuAluOps, CpuUnaryOps, CpuRotateOps, CpuShiftOps, CpuDoubleOps, CpuMulOps, CpuDivOps,
        CpuScanOps, CpuBitOps, CpuExtendOps, CpuWidenOps, CpuCarryOps
<1>2. CASE i.op = "setcc"
  <2>1. CpuNamed(i.d, 1, i.rex)
    <3>1. i.size \in CpuSizes(i.op)
      BY CpuInsnParts
    <3>2. i.size = 1
      BY <1>2, <3>1 DEF CpuSizes
    <3> QED  BY <1>1, <3>2
  <2>2. CpuDo(s, i) = CpuDoSetcc(s, i)
    BY <1>2 DEF CpuDo
  <2>3. CpuWrite(s, i.d, 1, i.rex, 1) \in CpuState /\ CpuWrite(s, i.d, 1, i.rex, 0) \in CpuState
    <3>1. 0 \in Int /\ 1 \in Int
      OBVIOUS
    <3> QED  BY <2>1, <3>1, CpuWriteIs
  <2> QED  BY <2>2, <2>3 DEF CpuDoSetcc
<1>3. CASE i.op = "cmov"
  <2>1. CpuDo(s, i) = CpuDoCmov(s, i)
    BY <1>3 DEF CpuDo
  <2>2. CpuRead(s, i.r, i.size, i.rex) \in Int
    BY <1>1, CpuReadIs
  <2>3. CpuWrite(s, i.d, i.size, i.rex, CpuRead(s, i.r, i.size, i.rex)) \in CpuState
    BY <1>1, <2>2, CpuWriteIs
  <2> QED  BY <2>1, <2>3 DEF CpuDoCmov
<1>4. CASE i.op = "mov"
  <2>1. CpuDo(s, i) = CpuDoMov(s, i)
    BY <1>4 DEF CpuDo
  <2>2. CpuOperand(s, i) \in Int
    BY <1>4, CpuOperandTyped DEF CpuOperandOps
  <2>3. CpuWrite(s, i.d, i.size, i.rex, CpuOperand(s, i)) \in CpuState
    BY <1>1, <2>2, CpuWriteIs
  <2> QED  BY <2>1, <2>3 DEF CpuDoMov
<1>5. CASE i.op \in CpuCarryOps
  <2>1. CpuDo(s, i) = CpuDoCarry(s, i)
    BY <1>5 DEF CpuDo
  <2>2. PICK c : c = CASE i.op = "clc" -> FALSE [] i.op = "stc" -> TRUE [] i.op = "cmc" -> ~s.cf
    OBVIOUS
  <2>3. c \in BOOLEAN
    BY <1>5, <2>2
  <2>4. CpuDoCarry(s, i) = [s EXCEPT !.cf = c]
    BY <2>2 DEF CpuDoCarry
  <2>5. [s EXCEPT !.cf = c] \in CpuState
    BY <2>3 DEF CpuState
  <2> QED  BY <2>1, <2>4, <2>5
<1> QED  BY <1>2, <1>3, <1>4, <1>5

\* What an instruction does, by what it is.
LEMMA CpuDoTyped ==
  ASSUME NEW s \in CpuState, NEW i \in CpuInsns
  PROVE  CpuFaults(CpuDo(s, i)) \/ CpuDo(s, i) \in CpuState
<1> USE DEF CpuAluOps, CpuUnaryOps, CpuRotateOps, CpuShiftOps, CpuDoubleOps, CpuMulOps, CpuDivOps,
        CpuScanOps, CpuBitOps, CpuExtendOps, CpuWidenOps, CpuCarryOps
<1>1. CASE i.op \in CpuAluOps
  BY <1>1, CpuAluTyped DEF CpuDo
<1>2. CASE i.op \in CpuUnaryOps
  BY <1>2, CpuUnaryTyped DEF CpuDo
<1>3. CASE i.op \in CpuRotateOps \cup CpuShiftOps
  BY <1>3, CpuShiftTyped DEF CpuDo
<1>4. CASE i.op \in CpuDoubleOps
  BY <1>4, CpuDoubleTyped DEF CpuDo
<1>5. CASE i.op \in CpuMulOps
  BY <1>5, CpuMulTyped DEF CpuDo
<1>6. CASE i.op \in CpuDivOps
  BY <1>6, CpuDivTyped DEF CpuDo
<1>7. CASE i.op = "imul2"
  BY <1>7, CpuImulTyped DEF CpuDo
<1>8. CASE i.op \in CpuScanOps
  BY <1>8, CpuScanTyped DEF CpuDo
<1>9. CASE i.op \in CpuBitOps
  BY <1>9, CpuBitTestTyped DEF CpuDo
<1>10. CASE i.op = "cmpxchg"
  BY <1>10, CpuCmpxchgTyped DEF CpuDo
<1>11. CASE i.op \in {"xchg", "xadd"}
  BY <1>11, CpuExchangesTyped DEF CpuDo
<1>12. CASE i.op = "bswap"
  BY <1>12, CpuBswapTyped DEF CpuDo
<1>13. CASE i.op \in CpuExtendOps
  BY <1>13, CpuExtendTyped DEF CpuDo
<1>14. CASE i.op \in CpuWidenOps
  BY <1>14, CpuWidenTyped DEF CpuDo
<1>15. CASE i.op \in CpuCarryOps \cup {"setcc", "cmov", "mov"}
  BY <1>15, CpuOthersTyped
<1>16. i.op \in CpuOps
  BY CpuInsnParts
<1> QED  BY <1>1, <1>2, <1>3, <1>4, <1>5, <1>6, <1>7, <1>8, <1>9, <1>10, <1>11, <1>12, <1>13, <1>14,
            <1>15, <1>16 DEF CpuOps

\* The state after an instruction is what CpuDo makes of the one before.
CpuInv ==
  /\ cpuBefore \in CpuState
  /\ \/ cpuInstr = CpuNone /\ cpu = cpuBefore
     \/ cpuInstr \in CpuInsns /\ cpu = CpuDo(cpuBefore, cpuInstr)

LEMMA CpuInvInit == CpuInit => CpuInv
BY CpuStartsAssumption DEF CpuInit, CpuInv

LEMMA CpuNoneIsNot == CpuNone \notin CpuInsns
<1>1. ASSUME NEW i \in CpuInsns PROVE i.op # "none"
  BY CpuInsnParts DEF CpuOps, CpuAluOps, CpuUnaryOps, CpuRotateOps, CpuShiftOps, CpuDoubleOps,
     CpuMulOps, CpuDivOps, CpuScanOps, CpuBitOps, CpuExtendOps, CpuWidenOps, CpuCarryOps
<1>2. CpuNone.op = "none"
  BY DEF CpuNone
<1> QED  BY <1>1, <1>2

LEMMA CpuInvNext == CpuInv /\ [CpuNext]_cpuVars => CpuInv'
<1>1. CASE UNCHANGED cpuVars
  BY <1>1 DEF CpuInv, cpuVars
<1>2. ASSUME CpuInv, CpuNext PROVE CpuInv'
  <2>1. cpuInstr = CpuNone /\ cpu = cpuBefore /\ cpuBefore \in CpuState
    BY <1>2, CpuNoneIsNot DEF CpuInv, CpuNext
  <2>2. PICK i \in CpuInsns : CpuExecute(i)
    BY <1>2, CpuProgramAssumption DEF CpuNext
  <2> QED  BY <2>1, <2>2 DEF CpuExecute, CpuInv
<1> QED  BY <1>1, <1>2

LEMMA CpuInvTyped == CpuInv => CpuTypeOK
<1> SUFFICES ASSUME CpuInv PROVE CpuTypeOK
  OBVIOUS
<1>1. CASE cpuInstr = CpuNone /\ cpu = cpuBefore
  BY <1>1 DEF CpuInv, CpuTypeOK
<1>2. CASE cpuInstr \in CpuInsns /\ cpu = CpuDo(cpuBefore, cpuInstr)
  <2>1. cpuBefore \in CpuState
    BY DEF CpuInv
  <2>2. CpuFaults(CpuDo(cpuBefore, cpuInstr)) \/ CpuDo(cpuBefore, cpuInstr) \in CpuState
    BY <1>2, <2>1, CpuDoTyped
  <2> QED  BY <1>2, <2>2 DEF CpuTypeOK
<1> QED  BY <1>1, <1>2 DEF CpuInv

\* An instruction leaves registers as wide as registers are and flags, or a fault (cpu.mjs): for
\* every width of a byte, program and state to start from.
THEOREM CpuTypeCorrect == CpuSpec => []CpuTypeOK
<1>1. CpuSpec => []CpuInv
  BY CpuInvInit, CpuInvNext, PTL DEF CpuSpec
<1> QED  BY <1>1, CpuInvTyped, PTL

-----------------------------------------------------------------------------
(***************************************************************************)
(* The interpreter beside the architecture (Cpu): and, or, xor, test.      *)
(***************************************************************************)
LEMMA CpuWidths ==
  ASSUME NEW size \in CpuAllSizes
  PROVE  CpuWidth(size) \in Nat /\ CpuWidth(size) <= CpuWidth(8) /\ CpuWidth(8) \in Nat
<1>1. CpuWidth(size) \in Nat /\ CpuWidth(8) \in Nat
  BY CpuTops DEF CpuAllSizes
<1>2. CASE size = 8
  BY <1>1, <1>2
<1>3. CASE size \in {1, 2, 4}
  BY <1>1, <1>3, CpuAssumption DEF CpuWidth
<1> QED  BY <1>2, <1>3 DEF CpuAllSizes

\* The bits put together are those of a number of as many bits.
LEMMA CpuGathered ==
  ASSUME NEW op, NEW a, NEW b, NEW low, CpuGathers(low, op, a, b)
  PROVE  \A k \in 0..CpuWidth(8) : low[k] \in 0..2 ^ k - 1
<1> DEFINE W == CpuWidth(8)
           N == {k \in Nat : k <= W => low[k] \in 0..2 ^ k - 1}
<1>1. W \in Nat
  BY CpuTops DEF CpuAllSizes
<1>2. /\ low \in [0..W -> Nat] /\ low[0] = 0
      /\ \A k \in 1..W : low[k] = low[k - 1] + (IF CpuKeeps(op, CpuBit(a, k - 1), CpuBit(b, k - 1))
                                                THEN 2 ^ (k - 1) ELSE 0)
  BY DEF CpuGathers
<1> HIDE DEF W
<1>3. 0 \in N
  BY <1>2
<1>4. \A k \in Nat : k \in N => k + 1 \in N
  <2> SUFFICES ASSUME NEW k \in Nat, k \in N, k + 1 <= W
               PROVE  low[k + 1] \in 0..2 ^ (k + 1) - 1
    OBVIOUS
  <2>1. k + 1 \in 1..W /\ (k + 1) - 1 = k /\ low[k] \in 0..2 ^ k - 1
    BY <1>1
  <2>2. PICK p \in Nat \ {0} : p = 2 ^ k
    BY CpuPowers
  <2>3. 2 ^ (k + 1) = 2 * p
    BY <2>2, PowerStep
  <2>4. low[k + 1] = low[k] + p \/ low[k + 1] = low[k] + 0
    <3>1. low[k + 1] = low[k] + (IF CpuKeeps(op, CpuBit(a, k), CpuBit(b, k)) THEN 2 ^ k ELSE 0)
      BY <1>2, <2>1
    <3> QED  BY <2>2, <3>1
  <2> QED  BY <2>1, <2>2, <2>3, <2>4
<1>5. Nat \subseteq N
  <2> HIDE DEF N
  <2> QED  BY <1>3, <1>4, SetInduction
<1> QED  BY <1>1, <1>5 DEF W

\* Bits that agree are put together to the same number.
LEMMA CpuGathersSame ==
  ASSUME NEW op, NEW a, NEW b, NEW c, NEW d, NEW low, NEW other,
         CpuGathers(low, op, a, b), CpuGathers(other, op, c, d),
         NEW n \in Nat, n <= CpuWidth(8),
         \A k \in Nat : k < n => CpuBit(a, k) = CpuBit(c, k) /\ CpuBit(b, k) = CpuBit(d, k)
  PROVE  \A k \in 0..n : low[k] = other[k]
<1> DEFINE W == CpuWidth(8)
           N == {k \in Nat : k <= n => low[k] = other[k]}
<1>1. W \in Nat /\ n <= W
  BY CpuTops DEF CpuAllSizes
<1>2. /\ low[0] = 0 /\ other[0] = 0
      /\ \A k \in 1..W : low[k] = low[k - 1] + (IF CpuKeeps(op, CpuBit(a, k - 1), CpuBit(b, k - 1))
                                                THEN 2 ^ (k - 1) ELSE 0)
      /\ \A k \in 1..W : other[k] = other[k - 1] +
                           (IF CpuKeeps(op, CpuBit(c, k - 1), CpuBit(d, k - 1))
                            THEN 2 ^ (k - 1) ELSE 0)
  BY DEF CpuGathers
<1> HIDE DEF W
<1>3. 0 \in N
  BY <1>2
<1>4. \A k \in Nat : k \in N => k + 1 \in N
  <2> SUFFICES ASSUME NEW k \in Nat, k \in N, k + 1 <= n
               PROVE  low[k + 1] = other[k + 1]
    OBVIOUS
  <2>1. k + 1 \in 1..W /\ (k + 1) - 1 = k /\ low[k] = other[k] /\ k < n
    BY <1>1
  <2>2. CpuBit(a, k) = CpuBit(c, k) /\ CpuBit(b, k) = CpuBit(d, k)
    BY <2>1
  <2>3. low[k + 1] = low[k] + (IF CpuKeeps(op, CpuBit(a, k), CpuBit(b, k)) THEN 2 ^ k ELSE 0)
    BY <1>2, <2>1
  <2>4. other[k + 1] = other[k] + (IF CpuKeeps(op, CpuBit(c, k), CpuBit(d, k)) THEN 2 ^ k ELSE 0)
    BY <1>2, <2>1
  <2> QED  BY <2>1, <2>2, <2>3, <2>4, Zenon
<1>5. Nat \subseteq N
  <2> HIDE DEF N
  <2> QED  BY <1>3, <1>4, SetInduction
<1> QED  BY <1>5

\* What is put together from n on is a multiple of 2 ^ n.
LEMMA CpuGathersAbove ==
  ASSUME NEW op, NEW a, NEW b, NEW low, CpuGathers(low, op, a, b),
         NEW n \in Nat, n <= CpuWidth(8)
  PROVE  /\ low[CpuWidth(8)] % 2 ^ n = low[n]
         /\ (\A k \in Nat : k >= n => ~CpuKeeps(op, CpuBit(a, k), CpuBit(b, k)))
              => low[CpuWidth(8)] = low[n]
<1> DEFINE W == CpuWidth(8)
<1>1. W \in Nat /\ n <= W
  BY CpuTops DEF CpuAllSizes
<1>2. \A k \in 1..W : low[k] = low[k - 1] + (IF CpuKeeps(op, CpuBit(a, k - 1), CpuBit(b, k - 1))
                                             THEN 2 ^ (k - 1) ELSE 0)
  BY DEF CpuGathers
<1>3. \A k \in 0..W : low[k] \in Nat
  BY DEF CpuGathers
<1>4. PICK p \in Nat \ {0} : p = 2 ^ n
  BY CpuPowers
<1>5. low[n] \in Nat /\ low[n] < p
  <2>1. n \in 0..W
    BY <1>1
  <2>2. low[n] \in 0..2 ^ n - 1
    BY <2>1, CpuGathered
  <2> QED  BY <1>4, <2>2
<1> HIDE DEF W
<1> DEFINE None == \A k \in Nat : k >= n => ~CpuKeeps(op, CpuBit(a, k), CpuBit(b, k))
           N == {j \in Nat : n + j <= W => /\ low[n + j] % p = low[n]
                                           /\ None => low[n + j] = low[n]}
<1>6. 0 \in N
  <2>1. p * 0 + low[n] = low[n] /\ n + 0 = n
    BY <1>5
  <2>2. (p * 0 + low[n]) % p = low[n]
    BY <1>5, DividedOnce
  <2> QED  BY <2>1, <2>2
<1>7. \A j \in Nat : j \in N => j + 1 \in N
  <2> SUFFICES ASSUME NEW j \in Nat, j \in N, n + (j + 1) <= W
               PROVE  low[n + (j + 1)] % p = low[n] /\ (None => low[n + (j + 1)] = low[n])
    OBVIOUS
  <2>1. PICK k \in Nat : k = n + j
    OBVIOUS
  <2>2. n + (j + 1) = k + 1 /\ k + 1 \in 1..W /\ (k + 1) - 1 = k /\ k \in 0..W /\ k >= n
    BY <1>1, <2>1
  <2>3. low[k] % p = low[n] /\ (None => low[k] = low[n])
    BY <1>1, <2>1, <2>2
  <2>4. low[k + 1] = low[k] + (IF CpuKeeps(op, CpuBit(a, k), CpuBit(b, k)) THEN 2 ^ k ELSE 0)
    BY <1>2, <2>2
  <2>5. PICK r \in Nat \ {0} : r = 2 ^ j
    BY CpuPowers
  <2>6. 2 ^ k = p * r
    BY <1>4, <2>1, <2>5, PowerAdds
  <2>7. PICK x \in Nat : x = low[k]
    BY <1>3, <2>2
  <2>8. (x + p * r) % p = x % p
    <3>1. x \in Int /\ r \in Int
      OBVIOUS
    <3> QED  BY <3>1, Modulo, Zenon
  <2>9. None => low[k + 1] = low[k]
    <3>1. None => ~CpuKeeps(op, CpuBit(a, k), CpuBit(b, k))
      BY <2>2
    <3> HIDE DEF None
    <3>2. x + 0 = x
      OBVIOUS
    <3> QED  BY <2>4, <2>7, <3>1, <3>2
  <2>10. low[k + 1] % p = low[n]
    <3>1. CASE CpuKeeps(op, CpuBit(a, k), CpuBit(b, k))
      <4>1. low[k + 1] = x + p * r
        BY <2>4, <2>6, <2>7, <3>1
      <4> QED  BY <2>3, <2>7, <2>8, <4>1
    <3>2. CASE ~CpuKeeps(op, CpuBit(a, k), CpuBit(b, k))
      <4>1. low[k + 1] = x + 0 /\ x + 0 = x
        BY <2>4, <2>7, <3>2
      <4> QED  BY <2>3, <2>7, <4>1
    <3> QED  BY <3>1, <3>2
  <2> HIDE DEF None
  <2> QED  BY <2>2, <2>3, <2>9, <2>10
<1>8. Nat \subseteq N
  <2> HIDE DEF N
  <2> QED  BY <1>6, <1>7, SetInduction
<1>9. W - n \in Nat /\ n + (W - n) = W
  BY <1>1
<1>10. low[W] % p = low[n] /\ (None => low[W] = low[n])
  <2> HIDE DEF None
  <2> QED  BY <1>8, <1>9
<1> QED  BY <1>4, <1>10 DEF W

\* The interpreter works on registers and masks the result, the architecture on operands.
LEMMA CpuBitwiseExact ==
  ASSUME NEW size \in CpuAllSizes, NEW op \in CpuLogicOps, NEW a \in 0..CpuTop(size) - 1,
         NEW b \in Int
  PROVE  CpuUns(CpuBitwise(op, a, b), size) = CpuBitwise(op, a, CpuUns(b, size))
<1>1. PICK n \in Nat : n = CpuWidth(size) /\ n <= CpuWidth(8)
  BY CpuWidths
<1>2. PICK c : c = CpuUns(b, size)
  OBVIOUS
<1>3. CpuTop(size) = 2 ^ n /\ c \in 0..2 ^ n - 1 /\ a \in 0..2 ^ n - 1
  BY <1>1, <1>2, CpuUnsTyped DEF CpuTop
<1>4. PICK low : CpuGathers(low, op, a, b) /\ CpuBitwise(op, a, b) = low[CpuWidth(8)]
  BY CpuBitwiseIs
<1>5. PICK other : CpuGathers(other, op, a, c) /\ CpuBitwise(op, a, c) = other[CpuWidth(8)]
  BY CpuBitwiseIs
<1>6. \A k \in Nat : k < n => CpuBit(c, k) = CpuBit(b, k)
  BY <1>1, <1>2, CpuBitsOf
<1>7. low[n] = other[n]
  <2>1. \A k \in Nat : k < n => CpuBit(a, k) = CpuBit(a, k) /\ CpuBit(b, k) = CpuBit(c, k)
    BY <1>6
  <2>2. \A k \in 0..n : low[k] = other[k]
    BY <1>1, <1>4, <1>5, <2>1, CpuGathersSame
  <2> QED  BY <2>2
<1>8. low[CpuWidth(8)] % 2 ^ n = low[n]
  BY <1>1, <1>4, CpuGathersAbove
<1>9. other[CpuWidth(8)] = other[n]
  <2>1. ASSUME NEW k \in Nat, k >= n
        PROVE  ~CpuKeeps(op, CpuBit(a, k), CpuBit(c, k))
    <3>1. ~CpuBit(a, k) /\ ~CpuBit(c, k)
      BY <1>3, <2>1, CpuBitAbove
    <3>2. \/ op \in {"and", "test"} /\ CpuKeeps(op, CpuBit(a, k), CpuBit(c, k)) = (CpuBit(a, k) /\ CpuBit(c, k))
          \/ op = "or" /\ CpuKeeps(op, CpuBit(a, k), CpuBit(c, k)) = (CpuBit(a, k) \/ CpuBit(c, k))
          \/ op = "xor" /\ CpuKeeps(op, CpuBit(a, k), CpuBit(c, k)) = (CpuBit(a, k) # CpuBit(c, k))
      BY DEF CpuKeeps, CpuLogicOps
    <3>3. CpuBit(a, k) = FALSE /\ CpuBit(c, k) = FALSE
      BY <3>1 DEF CpuBit
    <3> QED  BY <3>2, <3>3, Zenon
  <2> QED  BY <1>1, <1>5, <2>1, CpuGathersAbove
<1> QED  BY <1>2, <1>3, <1>4, <1>5, <1>7, <1>8, <1>9 DEF CpuUns

\* The low bits of a result come from those of the operands.
LEMMA CpuBitwiseLow ==
  ASSUME NEW size \in CpuAllSizes, NEW op \in CpuLogicOps, NEW a \in Int, NEW b \in Int,
         NEW c \in Int, CpuUns(b, size) = CpuUns(c, size)
  PROVE  CpuUns(CpuBitwise(op, a, b), size) = CpuUns(CpuBitwise(op, a, c), size)
<1>1. PICK n \in Nat : n = CpuWidth(size) /\ n <= CpuWidth(8)
  BY CpuWidths
<1>2. PICK low : CpuGathers(low, op, a, b) /\ CpuBitwise(op, a, b) = low[CpuWidth(8)]
  BY CpuBitwiseIs
<1>3. PICK other : CpuGathers(other, op, a, c) /\ CpuBitwise(op, a, c) = other[CpuWidth(8)]
  BY CpuBitwiseIs
<1>4. \A k \in Nat : k < n => CpuBit(a, k) = CpuBit(a, k) /\ CpuBit(b, k) = CpuBit(c, k)
  <2>1. \A k \in Nat : k < n => CpuBit(CpuUns(b, size), k) = CpuBit(b, k)
                                /\ CpuBit(CpuUns(c, size), k) = CpuBit(c, k)
    BY <1>1, CpuBitsOf
  <2> QED  BY <2>1
<1>5. low[n] = other[n]
  <2>1. \A k \in 0..n : low[k] = other[k]
    BY <1>1, <1>2, <1>3, <1>4, CpuGathersSame
  <2> QED  BY <2>1
<1>6. low[CpuWidth(8)] % 2 ^ n = low[n] /\ other[CpuWidth(8)] % 2 ^ n = other[n]
  BY <1>1, <1>2, <1>3, CpuGathersAbove
<1> QED  BY <1>1, <1>2, <1>3, <1>5, <1>6 DEF CpuUns, CpuTop

\* The parity is that of the low byte.
LEMMA CpuParityLow ==
  ASSUME NEW v \in Int, NEW w \in Int, CpuUns(v, 1) = CpuUns(w, 1)
  PROVE  CpuParity(v) = CpuParity(w)
<1>1. CpuWidth(1) = CpuByte /\ 1 \in CpuAllSizes /\ CpuByte \in Nat
  BY CpuAssumption DEF CpuWidth, CpuAllSizes
<1>2. \A k \in Nat : k < CpuByte => CpuBit(v, k) = CpuBit(w, k)
  <2>1. \A k \in Nat : k < CpuByte => CpuBit(CpuUns(v, 1), k) = CpuBit(v, k)
                                      /\ CpuBit(CpuUns(w, 1), k) = CpuBit(w, k)
    BY <1>1, CpuBitsOf
  <2> QED  BY <2>1
<1>3. \A k \in 0..CpuByte - 1 : k \in Nat /\ k < CpuByte
  BY <1>1
<1>4. {k \in 0..CpuByte - 1 : CpuBit(v, k)} = {k \in 0..CpuByte - 1 : CpuBit(w, k)}
  <2> HIDE DEF CpuBit
  <2> QED  BY <1>2, <1>3
<1> QED  BY <1>4 DEF CpuParity

-----------------------------------------------------------------------------
(* Operands.                                                               *)

\* test on the accumulator with a negative imm32: the one immediate the code takes for
\* another number.
CpuShort(i) == i.op = "test" /\ i.form = "acc" /\ i.size = 8 /\ CpuSgn(i.imm, 4) < 0

LEMMA CpuLesser ==
  ASSUME NEW size \in CpuAllSizes
  PROVE  Min({size, 4}) = IF size = 8 THEN 4 ELSE size
<1>1. \E x \in {size, 4} : \A y \in {size, 4} : x <= y
  <2>1. size <= 4 \/ 4 <= size
    BY DEF CpuAllSizes
  <2>2. size <= size /\ 4 <= 4
    BY DEF CpuAllSizes
  <2> QED  BY <2>1, <2>2
<1>2. Min({size, 4}) \in {size, 4} /\ \A y \in {size, 4} : Min({size, 4}) <= y
  BY <1>1, Zenon DEF Min
<1>3. PICK m : m = Min({size, 4})
  OBVIOUS
<1>4. m \in {size, 4} /\ m <= size /\ m <= 4
  BY <1>2, <1>3
<1> QED  BY <1>3, <1>4 DEF CpuAllSizes

\* A number that stands for a narrower one.
LEMMA CpuSxExact ==
  ASSUME NEW m \in CpuAllSizes, NEW n \in CpuAllSizes, NEW v \in Int
  PROVE  /\ CpuUns(CpuSx(v, m), n) = CpuUns(CpuSgn(v, m), n)
         /\ CpuSx(v, m) = CpuUns(CpuSgn(v, m), 8)
         /\ CpuUns(CpuSgn(v, n), n) = CpuUns(v, n)
<1>1. CpuSgn(v, m) \in Int
  BY CpuSgnIs
<1>2. 8 \in CpuAllSizes /\ n <= 8
  BY DEF CpuAllSizes
<1>3. CpuUns(CpuUns(CpuSgn(v, m), 8), n) = CpuUns(CpuSgn(v, m), n)
  BY <1>1, <1>2, CpuUnsNested
<1>4. CpuUns(CpuSgn(v, n), n) = CpuUns(v, n)
  BY CpuSgnIs
<1> QED  BY <1>3, <1>4 DEF CpuSx

LEMMA CpuOperandExact ==
  ASSUME NEW s \in CpuState, NEW i \in CpuInsns, i.op \in CpuAluOps \cup {"imul2"}
  PROVE  /\ ArchOperand(s, i) \in 0..CpuTop(i.size) - 1 /\ ArchOperand(s, i) \in Nat
         /\ CpuOperand(s, i) \in Int
         /\ ~CpuShort(i) =>
              /\ CpuUns(CpuOperand(s, i), i.size) = ArchOperand(s, i)
              /\ i.form = "reg" \/ i.size \in {1, 8} => CpuOperand(s, i) = ArchOperand(s, i)
<1>1. i.op \notin CpuExtendOps
  BY DEF CpuAluOps, CpuExtendOps
<1>2. /\ i.form \in {"reg", "imm8", "immz", "acc"} /\ i.size \in CpuAllSizes /\ i.imm \in Int
      /\ i.op = "test" => i.form # "imm8"
  BY CpuInsnParts DEF CpuForms, CpuAluOps, CpuRotateOps, CpuShiftOps, CpuDoubleOps, CpuBitOps
<1>3. PICK n \in CpuAllSizes : n = i.size
  BY <1>2
<1>4. PICK v \in Int : v = i.imm
  BY <1>2
<1>5. CpuOperand(s, i) \in Int
  BY CpuOperandTyped DEF CpuOperandOps
<1>6. CASE i.form = "reg"
  <2>1. CpuNamed(i.r, i.size, i.rex)
    BY <1>1, CpuInsnSource
  <2>2. CpuOperand(s, i) = CpuRead(s, i.r, i.size, i.rex) /\ ArchOperand(s, i) = CpuOperand(s, i)
    BY <1>6 DEF CpuOperand, ArchOperand
  <2> QED  BY <2>1, <2>2, CpuReadIs
<1>7. CASE i.form # "reg"
  <2> DEFINE m == IF i.form = "imm8" THEN 1 ELSE IF n = 8 THEN 4 ELSE n
  <2>1. m \in CpuAllSizes
    BY <1>2, <1>7 DEF CpuAllSizes
  <2>2. ArchOperand(s, i) = CpuUns(CpuSgn(v, m), n)
    <3>1. Min({i.size, 4}) = IF n = 8 THEN 4 ELSE n
      BY <1>3, CpuLesser
    <3> QED  BY <1>2, <1>3, <1>4, <1>7, <3>1 DEF ArchOperand
  <2>3. ArchOperand(s, i) \in 0..CpuTop(n) - 1 /\ ArchOperand(s, i) \in Int
    <3>1. CpuSgn(v, m) \in Int
      BY <2>1, CpuSgnIs
    <3> QED  BY <2>2, <3>1, CpuUnsTyped
  <2> HIDE DEF m
  <2>4. CpuOperand(s, i) = (IF n = 1 THEN CpuUns(v, 1)
                            ELSE IF i.op = "test" /\ i.form = "acc" THEN CpuUns(v, 4)
                            ELSE IF n = 2 /\ i.form = "immz" THEN CpuUns(v, 2) ELSE CpuSx(v, m))
    <3>1. CASE n = 1
      <4>1. i.form \in {"imm8", "immz", "acc"} /\ i.size = 1
        BY <1>2, <1>3, <1>7, <3>1
      <4> QED  BY <1>4, <1>7, <3>1, <4>1 DEF CpuOperand
    <3>2. CASE n # 1 /\ i.op = "test" /\ i.form = "acc"
      <4>1. i.size > 1 /\ i.size # 1
        BY <1>2, <1>3, <3>2 DEF CpuAllSizes
      <4> QED  BY <1>3, <1>4, <3>2, <4>1 DEF CpuOperand
    <3>3. CASE n = 2 /\ ~(i.op = "test" /\ i.form = "acc")
      <4>1. i.form \in {"imm8", "immz", "acc"} /\ i.size = 2 /\ i.size > 1 /\ i.size # 1
            /\ ~(i.size > 2)
        BY <1>2, <1>3, <1>7, <3>3
      <4>2. m = IF i.form = "imm8" THEN 1 ELSE 2
        BY <3>3 DEF m
      <4>3. CASE i.form = "imm8"
        BY <1>4, <3>3, <4>1, <4>2, <4>3 DEF CpuOperand
      <4>4. CASE i.form = "immz"
        BY <1>4, <3>3, <4>1, <4>2, <4>4 DEF CpuOperand
      <4>5. CASE i.form = "acc"
        BY <1>4, <3>3, <4>1, <4>2, <4>5 DEF CpuOperand
      <4> QED  BY <4>1, <4>3, <4>4, <4>5
    <3>4. CASE n \notin {1, 2} /\ ~(i.op = "test" /\ i.form = "acc")
      <4>1. i.form \in {"imm8", "immz", "acc"} /\ i.size > 1 /\ i.size # 1 /\ i.size # 2
            /\ i.size > 2 /\ n \in {4, 8}
        BY <1>2, <1>3, <1>7, <3>4 DEF CpuAllSizes
      <4>2. m = IF i.form = "imm8" THEN 1 ELSE 4
        BY <4>1 DEF m
      <4>3. CASE i.form = "imm8"
        BY <1>4, <3>4, <4>1, <4>2, <4>3 DEF CpuOperand
      <4>4. CASE i.form = "immz"
        BY <1>4, <3>4, <4>1, <4>2, <4>4 DEF CpuOperand
      <4>5. CASE i.form = "acc"
        BY <1>4, <3>4, <4>1, <4>2, <4>5 DEF CpuOperand
      <4> QED  BY <4>1, <4>3, <4>4, <4>5
    <3> QED  BY <3>1, <3>2, <3>3, <3>4
  <2>5. CpuUns(CpuSx(v, m), n) = CpuUns(CpuSgn(v, m), n) /\ CpuSx(v, m) = CpuUns(CpuSgn(v, m), 8)
    BY <2>1, CpuSxExact
  <2>6. \A k \in CpuAllSizes : CpuUns(CpuSgn(v, k), k) = CpuUns(v, k)
    BY CpuSxExact
  <2>7. \A k \in CpuAllSizes : CpuUns(CpuUns(v, k), k) = CpuUns(v, k)
    BY CpuUnsIs
  <2>8. CASE n = 1
    <3>1. m = 1 /\ 1 \in CpuAllSizes
      BY <2>8 DEF m, CpuAllSizes
    <3> QED  BY <1>3, <1>5, <2>2, <2>3, <2>4, <2>6, <2>7, <2>8, <3>1
  <2>9. CASE n = 2 /\ i.form = "immz"
    <3>1. m = 2 /\ 2 \in CpuAllSizes
      BY <2>9 DEF m, CpuAllSizes
    <3> QED  BY <1>3, <1>5, <1>7, <2>2, <2>3, <2>4, <2>6, <2>7, <2>9, <3>1
  <2>10. CASE n # 1 /\ ~(n = 2 /\ i.form = "immz") /\ ~(i.op = "test" /\ i.form = "acc")
    BY <1>3, <1>5, <1>7, <2>2, <2>3, <2>4, <2>5, <2>10
  <2>12. CASE n # 1 /\ i.op = "test" /\ i.form = "acc"
    <3>1. CpuOperand(s, i) = CpuUns(v, 4) /\ i.form # "reg"
      BY <2>4, <2>12
    <3>2. CASE n \in {2, 4}
      <4>1. m = n /\ n <= 4 /\ 4 \in CpuAllSizes /\ i.size \notin {1, 8}
        BY <1>3, <2>12, <3>2 DEF m, CpuAllSizes
      <4>2. CpuUns(CpuUns(v, 4), n) = CpuUns(v, n)
        BY <4>1, CpuUnsNested
      <4> QED  BY <1>3, <1>5, <2>2, <2>3, <2>6, <3>1, <4>1, <4>2
    <3>3. CASE n = 8
      <4>1. m = 4 /\ 4 \in CpuAllSizes /\ 8 \in CpuAllSizes /\ 4 <= 8
        BY <2>12, <3>3 DEF m, CpuAllSizes
      <4>2. ASSUME ~CpuShort(i)
            PROVE  CpuUns(v, 4) = ArchOperand(s, i)
        <5>1. PICK x \in Int : x = CpuSgn(v, 4) /\ CpuUns(x, 4) = CpuUns(v, 4)
          BY <4>1, CpuSgnIs
        <5>2. 0 <= x
          BY <1>3, <1>4, <2>12, <3>3, <4>2, <5>1 DEF CpuShort
        <5>3. x < CpuTop(4)
          <6>1. PICK S \in Nat \ {0} : S = CpuSign(4) /\ CpuTop(4) = 2 * S
            BY <4>1, CpuTops
          <6>2. x < S
            BY <4>1, <5>1, <6>1, CpuSgnIs
          <6> QED  BY <6>1, <6>2
        <5>4. PICK T \in Nat : T = CpuTop(4)
          BY <4>1, CpuTops
        <5>5. CpuUns(x, 4) = x
          BY <4>1, <5>2, <5>3, <5>4, CpuUnsIs
        <5>6. x \in 0..CpuTop(8) - 1
          <6>1. CpuTop(4) <= CpuTop(8)
            BY <4>1, CpuUnsNested
          <6>2. PICK U \in Nat : U = CpuTop(8)
            BY <4>1, CpuTops
          <6> QED  BY <5>2, <5>3, <5>4, <6>1, <6>2
        <5>7. CpuUns(x, 8) = x
          BY <4>1, <5>6, CpuUnsIs
        <5> QED  BY <2>2, <3>3, <4>1, <5>1, <5>5, <5>7
      <4>3. ASSUME ~CpuShort(i)
            PROVE  CpuUns(ArchOperand(s, i), n) = ArchOperand(s, i)
        BY <2>3, CpuUnsIs
      <4> QED  BY <1>3, <1>5, <2>3, <3>1, <3>3, <4>2, <4>3
    <3> QED  BY <1>3, <2>12, <3>2, <3>3 DEF CpuAllSizes
  <2>11. 0 <= ArchOperand(s, i)
    <3>1. CpuTop(n) \in Nat
      BY CpuTops
    <3> QED  BY <2>3, <3>1
  <2> QED  BY <1>3, <1>5, <2>3, <2>8, <2>9, <2>10, <2>11, <2>12
<1> QED  BY <1>6, <1>7

-----------------------------------------------------------------------------
(* Agreement.                                                              *)
LEMMA CpuAgrees ==
  ASSUME NEW parts, parts \subseteq {"regs"} \cup CpuFlags, NEW t \in CpuState, NEW u \in CpuState,
         "regs" \in parts => t.reg = u.reg, "cf" \in parts => t.cf = u.cf,
         "zf" \in parts => t.zf = u.zf, "sf" \in parts => t.sf = u.sf,
         "of" \in parts => t.of = u.of, "pf" \in parts => t.pf = u.pf
  PROVE  CpuAgreesOn(parts, t, u)
<1>1. ~CpuFaults(t) /\ ~CpuFaults(u)
  BY CpuStateParts
<1>2. ASSUME NEW f \in parts \ {"regs"}
      PROVE  t[f] = u[f]
  <2>1. f \in {"cf", "zf", "sf", "of", "pf"} /\ f \in parts
    BY DEF CpuFlags
  <2> QED  BY <2>1
<1> QED  BY <1>1, <1>2 DEF CpuAgreesOn

-----------------------------------------------------------------------------
(* Signs and overflow, of operands by what they are.                       *)

\* Sums and differences of operands: T = 2 * S is the top, r the result.
LEMMA CpuSumOverflows ==
  ASSUME NEW S \in Nat \ {0}, NEW a \in 0..2 * S - 1, NEW b \in 0..2 * S - 1, NEW r,
         a + b >= 2 * S => r = a + b - 2 * S, ~(a + b >= 2 * S) => r = a + b,
         NEW x, a >= S => x = a - 2 * S, ~(a >= S) => x = a,
         NEW y, b >= S => y = b - 2 * S, ~(b >= S) => y = b
  PROVE  ((a >= S <=> b >= S) /\ ~(r >= S <=> a >= S)) <=> x + y \notin -S..S - 1
<1>1. S \in Int /\ a \in Int /\ b \in Int /\ 0 <= a /\ a < 2 * S /\ 0 <= b /\ b < 2 * S /\ S > 0
  OBVIOUS
<1>2. x \in Int /\ y \in Int /\ r \in Int
  BY <1>1
<1>3. x + y \notin -S..S - 1 <=> x + y < -S \/ x + y > S - 1
  BY <1>1, <1>2
<1>4. CASE a >= S /\ b >= S
  BY <1>1, <1>2, <1>3, <1>4
<1>5. CASE a >= S /\ b < S
  BY <1>1, <1>2, <1>3, <1>5
<1>6. CASE a < S /\ b >= S
  BY <1>1, <1>2, <1>3, <1>6
<1>7. CASE a < S /\ b < S
  BY <1>1, <1>2, <1>3, <1>7
<1> QED  BY <1>1, <1>4, <1>5, <1>6, <1>7

LEMMA CpuDifferenceOverflows ==
  ASSUME NEW S \in Nat \ {0}, NEW a \in 0..2 * S - 1, NEW b \in 0..2 * S - 1, NEW r,
         a < b => r = a - b + 2 * S, ~(a < b) => r = a - b,
         NEW x, a >= S => x = a - 2 * S, ~(a >= S) => x = a,
         NEW y, b >= S => y = b - 2 * S, ~(b >= S) => y = b
  PROVE  (~(a >= S <=> b >= S) /\ ~(r >= S <=> a >= S)) <=> x - y \notin -S..S - 1
<1>1. S \in Int /\ a \in Int /\ b \in Int /\ 0 <= a /\ a < 2 * S /\ 0 <= b /\ b < 2 * S /\ S > 0
  OBVIOUS
<1>2. x \in Int /\ y \in Int /\ r \in Int
  BY <1>1
<1>3. x - y \notin -S..S - 1 <=> x - y < -S \/ x - y > S - 1
  BY <1>1, <1>2
<1>4. CASE a >= S /\ b >= S
  BY <1>1, <1>2, <1>3, <1>4
<1>5. CASE a >= S /\ b < S
  BY <1>1, <1>2, <1>3, <1>5
<1>6. CASE a < S /\ b >= S
  BY <1>1, <1>2, <1>3, <1>6
<1>7. CASE a < S /\ b < S
  BY <1>1, <1>2, <1>3, <1>7
<1> QED  BY <1>1, <1>4, <1>5, <1>6, <1>7

\* The same of the bits and residues the interpreter works with.
LEMMA CpuUnsRight ==
  ASSUME NEW size \in CpuAllSizes, NEW a \in Int, NEW b \in Int
  PROVE  /\ CpuUns(a + b, size) = CpuUns(a + CpuUns(b, size), size)
         /\ CpuUns(a - b, size) = CpuUns(a - CpuUns(b, size), size)
<1>1. PICK c \in Int : c = CpuUns(b, size)
  BY CpuUnsTyped
<1>2. PICK k \in Int : b = c + CpuTop(size) * k
  BY <1>1, CpuUnsIs
<1>3. CpuTop(size) \in Int
  BY CpuTops
<1>4. a + b = (a + c) + CpuTop(size) * k
  BY <1>2, <1>3
<1>5. a - b = (a - c) + CpuTop(size) * (-k)
  BY <1>2, <1>3
<1>6. CpuUns(a + b, size) = CpuUns(a + c, size)
  BY <1>4, CpuUnsSame
<1>7. CpuUns(a - b, size) = CpuUns(a - c, size)
  BY <1>5, CpuUnsSame
<1> QED  BY <1>1, <1>6, <1>7

LEMMA CpuOverflowExact ==
  ASSUME NEW size \in CpuAllSizes, NEW a \in 0..CpuTop(size) - 1, NEW b \in Int,
         NEW c, c = CpuUns(b, size)
  PROVE  LET S == CpuSign(size)
             sum == CpuUns(a + b, size)
             diff == CpuUns(a - b, size)
         IN  /\ (~CpuDiffer(a, b, size) /\ CpuDiffer(sum, a, size))
                   <=> CpuSgn(a, size) + CpuSgn(c, size) \notin -S..S - 1
             /\ (CpuDiffer(a, b, size) /\ CpuDiffer(diff, a, size))
                   <=> CpuSgn(a, size) - CpuSgn(c, size) \notin -S..S - 1
<1>1. PICK S \in Nat \ {0} : S = CpuSign(size) /\ CpuTop(size) = 2 * S
  BY CpuTops
<1>2. a \in 0..2 * S - 1 /\ a \in Int /\ c \in 0..2 * S - 1 /\ c \in Int
  <2>1. c \in 0..CpuTop(size) - 1 /\ c \in Int
    BY CpuUnsTyped
  <2> QED  BY <1>1, <2>1
<1>3. CpuUns(a, size) = a /\ CpuUns(c, size) = c
  BY CpuUnsIs, <1>1, <1>2
<1>4. PICK p \in Int : p = CpuUns(a + b, size)
  BY <1>2, CpuUnsTyped
<1>5. PICK d \in Int : d = CpuUns(a - b, size)
  BY <1>2, CpuUnsTyped
<1>6. \A v \in Int : CpuBit(v, CpuWidth(size) - 1) <=> CpuUns(v, size) >= S
  BY <1>1, CpuBitsOf
<1>7. /\ CpuBit(a, CpuWidth(size) - 1) <=> a >= S
      /\ CpuBit(b, CpuWidth(size) - 1) <=> c >= S
      /\ CpuBit(p, CpuWidth(size) - 1) <=> p >= S
      /\ CpuBit(d, CpuWidth(size) - 1) <=> d >= S
  <2>1. CpuUns(p, size) = p /\ CpuUns(d, size) = d
    <3>1. a + b \in Int /\ a - b \in Int
      BY <1>2
    <3> QED  BY <1>4, <1>5, <3>1, CpuUnsIs
  <2> QED  BY <1>2, <1>3, <1>4, <1>5, <1>6, <2>1
<1>8. CpuSgn(a, size) = (IF a >= S THEN a - 2 * S ELSE a)
      /\ CpuSgn(c, size) = (IF c >= S THEN c - 2 * S ELSE c)
  BY <1>1, <1>3 DEF CpuSgn
<1>9. p = CpuUns(a + c, size) /\ d = CpuUns(a - c, size)
  <2>2. a \in Int /\ b \in Int
    BY <1>2
  <2>3. CpuUns(a + b, size) = CpuUns(a + c, size)
    BY <2>2, CpuUnsRight
  <2>4. CpuUns(a - b, size) = CpuUns(a - c, size)
    BY <2>2, CpuUnsRight
  <2> QED  BY <1>4, <1>5, <2>3, <2>4
<1>10. p = (IF a + c >= 2 * S THEN a + c - 2 * S ELSE a + c)
  <2>1. CASE a + c >= 2 * S
    <3>1. a + c = (a + c - 2 * S) + CpuTop(size) * 1
      BY <1>1, <1>2
    <3>2. a + c - 2 * S \in 0..CpuTop(size) - 1 /\ a + c - 2 * S \in Int /\ a + c \in Int
      BY <1>1, <1>2, <2>1
    <3>3. CpuUns(a + c, size) = CpuUns(a + c - 2 * S, size)
      BY <3>1, <3>2, CpuUnsSame
    <3> QED  BY <1>9, <2>1, <3>2, <3>3, CpuUnsIs
  <2>2. CASE ~(a + c >= 2 * S)
    <3>1. a + c \in 0..CpuTop(size) - 1 /\ a + c \in Int
      BY <1>1, <1>2, <2>2
    <3> QED  BY <1>9, <2>2, <3>1, CpuUnsIs
  <2> QED  BY <2>1, <2>2
<1>11. d = (IF a < c THEN a - c + 2 * S ELSE a - c)
  <2>1. CASE a < c
    <3>1. a - c = (a - c + 2 * S) + CpuTop(size) * (-1)
      BY <1>1, <1>2
    <3>2. a - c + 2 * S \in 0..CpuTop(size) - 1 /\ a - c + 2 * S \in Int /\ a - c \in Int
      BY <1>1, <1>2, <2>1
    <3>3. CpuUns(a - c, size) = CpuUns(a - c + 2 * S, size)
      BY <3>1, <3>2, CpuUnsSame
    <3> QED  BY <1>9, <2>1, <3>2, <3>3, CpuUnsIs
  <2>2. CASE ~(a < c)
    <3>1. a - c \in 0..CpuTop(size) - 1 /\ a - c \in Int
      BY <1>1, <1>2, <2>2
    <3> QED  BY <1>9, <2>2, <3>1, CpuUnsIs
  <2> QED  BY <2>1, <2>2
<1>12. PICK x : x = CpuSgn(a, size)
  OBVIOUS
<1>13. PICK y : y = CpuSgn(c, size)
  OBVIOUS
<1>14. ((a >= S <=> c >= S) /\ ~(p >= S <=> a >= S)) <=> x + y \notin -S..S - 1
  <2>1. (a >= S => x = a - 2 * S) /\ (~(a >= S) => x = a)
    BY <1>8, <1>12
  <2>2. (c >= S => y = c - 2 * S) /\ (~(c >= S) => y = c)
    BY <1>8, <1>13
  <2>3. (a + c >= 2 * S => p = a + c - 2 * S) /\ (~(a + c >= 2 * S) => p = a + c)
    BY <1>10
  <2> QED  BY <1>2, <2>1, <2>2, <2>3, CpuSumOverflows
<1>15. (~(a >= S <=> c >= S) /\ ~(d >= S <=> a >= S)) <=> x - y \notin -S..S - 1
  <2>1. (a >= S => x = a - 2 * S) /\ (~(a >= S) => x = a)
    BY <1>8, <1>12
  <2>2. (c >= S => y = c - 2 * S) /\ (~(c >= S) => y = c)
    BY <1>8, <1>13
  <2>3. (a < c => d = a - c + 2 * S) /\ (~(a < c) => d = a - c)
    BY <1>11
  <2> QED  BY <1>2, <2>1, <2>2, <2>3, CpuDifferenceOverflows
<1>16. (~CpuDiffer(a, b, size) /\ CpuDiffer(p, a, size)) <=> x + y \notin -S..S - 1
  <2>1. CpuDiffer(a, b, size) <=> ~(a >= S <=> c >= S)
    BY <1>7, SMT DEF CpuDiffer, CpuBit
  <2>2. CpuDiffer(p, a, size) <=> ~(p >= S <=> a >= S)
    BY <1>7, SMT DEF CpuDiffer, CpuBit
  <2> QED  BY <1>14, <2>1, <2>2
<1>17. (CpuDiffer(a, b, size) /\ CpuDiffer(d, a, size)) <=> x - y \notin -S..S - 1
  <2>1. CpuDiffer(a, b, size) <=> ~(a >= S <=> c >= S)
    BY <1>7, SMT DEF CpuDiffer, CpuBit
  <2>2. CpuDiffer(d, a, size) <=> ~(d >= S <=> a >= S)
    BY <1>7, SMT DEF CpuDiffer, CpuBit
  <2> QED  BY <1>15, <2>1, <2>2
<1> QED  BY <1>1, <1>4, <1>5, <1>12, <1>13, <1>16, <1>17

-----------------------------------------------------------------------------
(* What alu computes of operands as they come is what the architecture does  *)
(* of those the instruction has.                                            *)

CpuAdds == {"add", "adc"}
CpuCarryOf(s, op) == IF op \in {"adc", "sbb"} /\ s.cf THEN 1 ELSE 0

LEMMA CpuAluResultExact ==
  ASSUME NEW s \in CpuState, NEW op \in CpuAluOps, NEW size \in CpuAllSizes,
         NEW a \in 0..CpuTop(size) - 1, NEW b \in Int, NEW c \in Int, c = CpuUns(b, size)
  PROVE  CpuAlu(s, op, a, b, size).r =
           (IF op \in CpuLogicOps THEN CpuAluResult(op, a, c, CpuCarryOf(s, op))
            ELSE CpuUns(IF op \in CpuAdds THEN a + c + CpuCarryOf(s, op)
                        ELSE a - c - CpuCarryOf(s, op), size))
<1>1. PICK T \in Nat : T = CpuTop(size)
  BY CpuTops
<1>2. a \in Int
  BY <1>1
<1>3. CpuAlu(s, op, a, b, size).r = CpuUns(CpuAluResult(op, a, b, CpuCarryIn(s)), size)
  <2>1. CpuAluParts(s, op, a, b, size, CpuAluResult(op, a, b, CpuCarryIn(s)),
                    CpuAlu(s, op, a, b, size))
    BY <1>2, CpuAluIs
  <2> QED  BY <2>1 DEF CpuAluParts
<1>4. PICK k \in {0, 1} : k = CpuCarryIn(s)
  BY DEF CpuCarryIn
<1>5. CASE op \in CpuLogicOps
  <2>1. \A y, z : CpuAluResult(op, a, y, z) = CpuBitwise(op, a, y)
    BY <1>5 DEF CpuAluResult, CpuLogicOps
  <2>2. CpuUns(CpuBitwise(op, a, b), size) = CpuBitwise(op, a, CpuUns(b, size))
    BY <1>5, CpuBitwiseExact
  <2> QED  BY <1>3, <1>5, <2>1, <2>2
<1>6. CASE op \in CpuAdds
  <2>1. op \notin CpuLogicOps /\ CpuCarryOf(s, op) = (IF op = "adc" THEN k ELSE 0)
    BY <1>4, <1>6 DEF CpuAdds, CpuLogicOps, CpuCarryOf, CpuCarryIn
  <2>2. PICK j \in Int : j = CpuCarryOf(s, op)
    BY <2>1
  <2>3. CpuAluResult(op, a, b, k) = (a + j) + b
    <3>1. CASE op = "add"
      BY <1>2, <2>1, <2>2, <3>1 DEF CpuAluResult
    <3>2. CASE op = "adc"
      BY <1>2, <2>1, <2>2, <3>2 DEF CpuAluResult
    <3> QED  BY <1>6, <3>1, <3>2 DEF CpuAdds
  <2>4. a + c + j = (a + j) + c /\ a + j \in Int
    BY <1>2
  <2>5. CpuUns((a + j) + b, size) = CpuUns((a + j) + CpuUns(b, size), size)
    BY <2>4, CpuUnsRight
  <2> QED  BY <1>3, <1>4, <1>6, <2>1, <2>2, <2>3, <2>4, <2>5
<1>7. CASE op \in {"sub", "cmp", "sbb"}
  <2>1. op \notin CpuLogicOps /\ op \notin CpuAdds
        /\ CpuCarryOf(s, op) = (IF op = "sbb" THEN k ELSE 0)
    BY <1>4, <1>7 DEF CpuAdds, CpuLogicOps, CpuCarryOf, CpuCarryIn
  <2>2. PICK j \in Int : j = CpuCarryOf(s, op)
    BY <2>1
  <2>3. CpuAluResult(op, a, b, k) = (a - j) - b
    <3>1. CASE op \in {"sub", "cmp"}
      BY <1>2, <2>1, <2>2, <3>1 DEF CpuAluResult
    <3>2. CASE op = "sbb"
      BY <1>2, <2>1, <2>2, <3>2 DEF CpuAluResult
    <3> QED  BY <1>7, <3>1, <3>2
  <2>4. a - c - j = (a - j) - c /\ a - j \in Int
    BY <1>2
  <2>5. CpuUns((a - j) - b, size) = CpuUns((a - j) - CpuUns(b, size), size)
    BY <2>4, CpuUnsRight
  <2> QED  BY <1>3, <1>4, <1>7, <2>1, <2>2, <2>3, <2>4, <2>5
<1> QED  BY <1>5, <1>6, <1>7 DEF CpuAluOps, CpuAdds, CpuLogicOps

\* The carry, of operands that were masked.
LEMMA CpuAluCarryExact ==
  ASSUME NEW s \in CpuState, NEW op \in CpuAluOps, NEW size \in CpuAllSizes,
         NEW a \in 0..CpuTop(size) - 1, NEW b \in Int
  PROVE  CpuAlu(s, op, a, b, size).s.cf =
           (op \notin CpuLogicOps
            /\ IF op \in CpuAdds THEN a + b + CpuCarryOf(s, op) >= CpuTop(size)
               ELSE a < b + CpuCarryOf(s, op))
<1>1. PICK T \in Nat : T = CpuTop(size)
  BY CpuTops
<1>2. a \in Int
  BY <1>1
<1>3. PICK k \in {0, 1} : k = CpuCarryIn(s)
  BY DEF CpuCarryIn
<1>4. PICK full : full = CpuAluResult(op, a, b, k)
  OBVIOUS
<1>5. CpuAlu(s, op, a, b, size).s.cf = (CASE op \in {"add", "adc"} -> full >= T
                                          [] op \in {"sub", "cmp", "sbb"} -> full < 0
                                          [] OTHER -> FALSE)
  <2>1. CpuAluParts(s, op, a, b, size, full, CpuAlu(s, op, a, b, size))
    BY <1>2, <1>3, <1>4, CpuAluIs
  <2> QED  BY <1>1, <2>1, Zenon DEF CpuAluParts
<1>6. CASE op \in CpuLogicOps
  BY <1>5, <1>6 DEF CpuLogicOps
<1>7. CASE op \in CpuAdds
  <2>1. op \notin CpuLogicOps /\ CpuCarryOf(s, op) = (IF op = "adc" THEN k ELSE 0)
    BY <1>3, <1>7 DEF CpuAdds, CpuLogicOps, CpuCarryOf, CpuCarryIn
  <2>2. PICK j \in Int : j = CpuCarryOf(s, op)
    BY <2>1
  <2>3. full = a + b + j
    <3>1. CASE op = "add"
      BY <1>2, <1>4, <2>1, <2>2, <3>1 DEF CpuAluResult
    <3>2. CASE op = "adc"
      BY <1>2, <1>4, <2>1, <2>2, <3>2 DEF CpuAluResult
    <3> QED  BY <1>7, <3>1, <3>2 DEF CpuAdds
  <2>4. CpuAlu(s, op, a, b, size).s.cf = (full >= T)
    BY <1>5, <1>7 DEF CpuAdds
  <2> QED  BY <1>1, <1>7, <2>1, <2>2, <2>3, <2>4
<1>8. CASE op \in {"sub", "cmp", "sbb"}
  <2>1. op \notin CpuLogicOps /\ op \notin CpuAdds
        /\ CpuCarryOf(s, op) = (IF op = "sbb" THEN k ELSE 0)
    BY <1>3, <1>8 DEF CpuAdds, CpuLogicOps, CpuCarryOf, CpuCarryIn
  <2>2. PICK j \in Int : j = CpuCarryOf(s, op)
    BY <2>1
  <2>3. full = a - (b + j)
    <3>1. CASE op \in {"sub", "cmp"}
      BY <1>2, <1>4, <2>1, <2>2, <3>1 DEF CpuAluResult
    <3>2. CASE op = "sbb"
      BY <1>2, <1>4, <2>1, <2>2, <3>2 DEF CpuAluResult
    <3> QED  BY <1>8, <3>1, <3>2
  <2>4. CpuAlu(s, op, a, b, size).s.cf = (full < 0)
    BY <1>5, <1>8
  <2>5. (full < 0) = (a < b + j)
    BY <1>2, <2>3
  <2> QED  BY <1>8, <2>1, <2>2, <2>4, <2>5
<1> QED  BY <1>6, <1>7, <1>8 DEF CpuAluOps, CpuAdds, CpuLogicOps

\* Overflow, but of adc and sbb, for which the code clears it.
LEMMA CpuAluOverflowExact ==
  ASSUME NEW s \in CpuState, NEW op \in CpuAluOps \ {"adc", "sbb"}, NEW size \in CpuAllSizes,
         NEW a \in 0..CpuTop(size) - 1, NEW b \in Int, NEW c \in Int, c = CpuUns(b, size)
  PROVE  CpuAlu(s, op, a, b, size).s.of =
           (op \notin CpuLogicOps
            /\ (IF op = "add" THEN CpuSgn(a, size) + CpuSgn(c, size)
                ELSE CpuSgn(a, size) - CpuSgn(c, size)) \notin -CpuSign(size)..CpuSign(size) - 1)
<1>1. PICK T \in Nat : T = CpuTop(size)
  BY CpuTops
<1>2. a \in Int
  BY <1>1
<1>3. PICK x : x = CpuAlu(s, op, a, b, size)
  OBVIOUS
<1>4. /\ x.r = CpuUns(CpuAluResult(op, a, b, CpuCarryIn(s)), size)
      /\ x.s.of = (CASE op = "add" -> ~CpuDiffer(a, b, size) /\ CpuDiffer(x.r, a, size)
                     [] op \in {"sub", "cmp"} ->
                          CpuDiffer(a, b, size) /\ CpuDiffer(x.r, a, size)
                     [] OTHER -> FALSE)
  <2>1. CpuAluParts(s, op, a, b, size, CpuAluResult(op, a, b, CpuCarryIn(s)), x)
    BY <1>2, <1>3, CpuAluIs
  <2> QED  BY <2>1, Zenon DEF CpuAluParts
<1>5. PICK S : S = CpuSign(size)
  OBVIOUS
<1>6. (~CpuDiffer(a, b, size) /\ CpuDiffer(CpuUns(a + b, size), a, size))
         <=> CpuSgn(a, size) + CpuSgn(c, size) \notin -S..S - 1
  BY <1>5, CpuOverflowExact
<1>7. (CpuDiffer(a, b, size) /\ CpuDiffer(CpuUns(a - b, size), a, size))
         <=> CpuSgn(a, size) - CpuSgn(c, size) \notin -S..S - 1
  BY <1>5, CpuOverflowExact
<1>8. CASE op \in CpuLogicOps
  BY <1>3, <1>4, <1>8 DEF CpuLogicOps
<1>9. CASE op = "add"
  <2>1. x.r = CpuUns(a + b, size)
    BY <1>4, <1>9 DEF CpuAluResult
  <2>2. x.s.of = (~CpuDiffer(a, b, size) /\ CpuDiffer(x.r, a, size))
    BY <1>4, <1>9
  <2>3. op \notin CpuLogicOps
    BY <1>9 DEF CpuLogicOps
  <2> QED  BY <1>3, <1>5, <1>6, <1>9, <2>1, <2>2, <2>3
<1>10. CASE op \in {"sub", "cmp"}
  <2>1. x.r = CpuUns(a - b, size)
    BY <1>4, <1>10 DEF CpuAluResult
  <2>2. x.s.of = (CpuDiffer(a, b, size) /\ CpuDiffer(x.r, a, size))
    BY <1>4, <1>10
  <2>3. op \notin CpuLogicOps /\ op # "add"
    BY <1>10 DEF CpuLogicOps
  <2> QED  BY <1>3, <1>5, <1>7, <1>10, <2>1, <2>2, <2>3
<1> QED  BY <1>8, <1>9, <1>10 DEF CpuAluOps, CpuLogicOps

-----------------------------------------------------------------------------
(* Arithmetic and logic: what the architecture makes of the operands.       *)

ArchAluOps == CpuAluOps \cup {"inc", "dec", "neg", "xadd"}
ArchAdds == {"add", "adc", "xadd", "inc"}

\* t is the state with the flags of an operation on a, b and a carry c, r its result.
ArchAluParts(s, op, a, b, c, size, r, t) ==
  /\ t \in CpuState /\ t.reg = s.reg /\ t.zf = (r = 0)
  /\ t.sf = CpuBit(r, CpuWidth(size) - 1) /\ t.pf = CpuParity(r)
  /\ t.cf = (IF op \in {"inc", "dec"} THEN s.cf
             ELSE op \notin CpuLogicOps
                  /\ IF op \in ArchAdds THEN a + b + c >= CpuTop(size) ELSE a < b + c)
  /\ t.of = (op \notin CpuLogicOps
             /\ (IF op \in ArchAdds THEN CpuSgn(a, size) + CpuSgn(b, size) + c
                 ELSE CpuSgn(a, size) - CpuSgn(b, size) - c)
                  \notin -CpuSign(size)..CpuSign(size) - 1)

ArchAluResult(op, a, b, c, size) ==
  IF op \in CpuLogicOps THEN CpuAluResult(op, a, b, c)
  ELSE CpuUns(IF op \in ArchAdds THEN a + b + c ELSE a - b - c, size)

ArchAluWrites(s, i, a, r, t) ==
  CASE i.op \in {"cmp", "test"} -> t
    [] i.op = "xadd" -> CpuWrite(CpuWrite(t, i.r, i.size, i.rex, a), i.d, i.size, i.rex, r)
    [] OTHER -> CpuWrite(t, i.d, i.size, i.rex, r)

LEMMA ArchAluIs ==
  ASSUME NEW s \in CpuState, NEW i, i.size \in CpuAllSizes, NEW a \in Int, NEW b \in Int,
         a = (CASE i.op = "neg" -> 0 [] OTHER -> CpuRead(s, i.d, i.size, i.rex)),
         b = (CASE i.op = "neg" -> CpuRead(s, i.d, i.size, i.rex)
                [] i.op \in {"inc", "dec"} -> 1
                [] OTHER -> ArchOperand(s, i)),
         NEW r, r = ArchAluResult(i.op, a, b, CpuCarryOf(s, i.op), i.size)
  PROVE  \E t : /\ ArchAluParts(s, i.op, a, b, CpuCarryOf(s, i.op), i.size, r, t)
                /\ ArchAlu(s, i) = ArchAluWrites(s, i, a, r, t)
<1> DEFINE c == CpuCarryOf(s, i.op)
           adds == i.op \in {"add", "adc", "xadd", "inc"}
           logic == i.op \in {"and", "or", "xor", "test"}
           signed == IF adds THEN CpuSgn(a, i.size) + CpuSgn(b, i.size) + c
                     ELSE CpuSgn(a, i.size) - CpuSgn(b, i.size) - c
           cf == IF i.op \in {"inc", "dec"} THEN s.cf
                 ELSE ~logic /\ IF adds THEN a + b + c >= CpuTop(i.size) ELSE a < b + c
           of == ~logic /\ signed \notin -CpuSign(i.size)..CpuSign(i.size) - 1
<1>1. PICK u : u = CpuResultFlags(s, r, i.size)
  OBVIOUS
<1>2. /\ u \in CpuState /\ u.reg = s.reg /\ u.zf = (r = 0)
      /\ u.sf = CpuBit(r, CpuWidth(i.size) - 1) /\ u.pf = CpuParity(r)
  BY <1>1, CpuResultFlagsIs
<1>3. cf \in BOOLEAN /\ of \in BOOLEAN
  <2>1. s.cf \in BOOLEAN
    BY CpuStateParts
  <2>2. c \in Int /\ CpuTop(i.size) \in Int
    BY CpuTops DEF CpuCarryOf
  <2>3. (a + b + c >= CpuTop(i.size)) \in BOOLEAN /\ (a < b + c) \in BOOLEAN
    BY <2>2
  <2>4. (~logic /\ IF adds THEN a + b + c >= CpuTop(i.size) ELSE a < b + c) \in BOOLEAN
    OBVIOUS
  <2>5. cf \in BOOLEAN
    <3>1. CASE i.op \in {"inc", "dec"}
      BY <2>1, <3>1
    <3>2. CASE i.op \notin {"inc", "dec"}
      BY <2>4, <3>2, Zenon
    <3> QED  BY <3>1, <3>2
  <2> QED  BY <2>5
<1>4. PICK p \in BOOLEAN : p = cf
  BY <1>3
<1>5. PICK q \in BOOLEAN : q = of
  BY <1>3
<1> DEFINE t == [u EXCEPT !.cf = p, !.of = q]
<1>6. /\ t \in CpuState /\ t.reg = s.reg /\ t.zf = (r = 0) /\ t.cf = p /\ t.of = q
      /\ t.sf = CpuBit(r, CpuWidth(i.size) - 1) /\ t.pf = CpuParity(r)
  BY <1>2 DEF CpuState
<1>7. ArchAlu(s, i) = ArchAluWrites(s, i, a, r, [u EXCEPT !.cf = cf, !.of = of])
  BY <1>1, Zenon DEF ArchAlu, ArchAluWrites, ArchAluResult, CpuLogicOps, ArchAdds, CpuCarryOf
<1>8. ArchAlu(s, i) = ArchAluWrites(s, i, a, r, t)
  <2> HIDE DEF cf, of
  <2> QED  BY <1>4, <1>5, <1>7
<1>9. t.cf = cf /\ t.of = of
  <2> HIDE DEF cf, of, t
  <2> QED  BY <1>4, <1>5, <1>6
<1>10. ArchAluParts(s, i.op, a, b, c, i.size, r, t)
  <2>1. cf = (IF i.op \in {"inc", "dec"} THEN s.cf
              ELSE i.op \notin CpuLogicOps
                   /\ IF i.op \in ArchAdds THEN a + b + c >= CpuTop(i.size) ELSE a < b + c)
    BY Zenon DEF ArchAdds, CpuLogicOps
  <2>2. of = (i.op \notin CpuLogicOps
              /\ (IF i.op \in ArchAdds THEN CpuSgn(a, i.size) + CpuSgn(b, i.size) + c
                  ELSE CpuSgn(a, i.size) - CpuSgn(b, i.size) - c)
                   \notin -CpuSign(i.size)..CpuSign(i.size) - 1)
    BY Zenon DEF ArchAdds, CpuLogicOps
  <2> HIDE DEF cf, of, t, c
  <2> QED  BY <1>6, <1>9, <2>1, <2>2, Zenon DEF ArchAluParts
<1> QED
  <2> HIDE DEF t
  <2> QED  BY <1>8, <1>10

\* What of an instruction is the architecture's.
CpuKept(s, i) == ArchDefines(s, i) \ CpuMisses(s, i)
CpuAgreed(s, i) == CpuAgreesOn(CpuKept(s, i), CpuDo(s, i), Arch(s, i))

LEMMA CpuKeptKnown ==
  ASSUME NEW s \in CpuState, NEW i \in CpuInsns
  PROVE  CpuKept(s, i) \subseteq {"regs"} \cup CpuFlags
<1>1. ArchDefines(s, i) \subseteq {"regs"} \cup CpuFlags
  <2> DEFINE of == IF CpuCount(s, i) \in {0, 1} THEN {"of"} ELSE {}
             cf == IF CpuCount(s, i) <= CpuWidth(i.size) \/ i.op = "sar" THEN {"cf"} ELSE {}
             rest == CASE i.op \in {"mul", "imul", "imul2"} -> {"cf", "of"}
                       [] i.op \in {"div", "idiv"} -> {}
                       [] i.op \in {"rol", "ror", "rcl", "rcr"} -> (CpuFlags \ {"of"}) \cup of
                       [] i.op \in {"shl", "shr", "sar"} -> {"zf", "sf", "pf"} \cup of \cup cf
                       [] i.op \in {"shld", "shrd"} -> (CpuFlags \ {"of"}) \cup of
                       [] OTHER -> CpuFlags
  <2>1. ArchDefines(s, i) = {"regs"} \cup rest
    BY Zenon DEF ArchDefines
  <2>2. of \subseteq CpuFlags /\ cf \subseteq CpuFlags /\ {"zf", "sf", "pf"} \subseteq CpuFlags
        /\ {"cf", "of"} \subseteq CpuFlags
    BY DEF CpuFlags
  <2> HIDE DEF of, cf
  <2>3. rest \subseteq CpuFlags
    <3>1. CASE i.op \in {"mul", "imul", "imul2"}
      BY <2>2, <3>1
    <3>2. CASE i.op \in {"div", "idiv"}
      BY <2>2, <3>2
    <3>3. CASE i.op \in {"rol", "ror", "rcl", "rcr"}
      BY <2>2, <3>3
    <3>4. CASE i.op \in {"shl", "shr", "sar"}
      BY <2>2, <3>4
    <3>5. CASE i.op \in {"shld", "shrd"}
      BY <2>2, <3>5
    <3>6. CASE i.op \notin {"mul", "imul", "imul2", "div", "idiv", "rol", "ror", "rcl", "rcr",
                            "shl", "shr", "sar", "shld", "shrd"}
      BY <2>2, <3>6
    <3> QED  BY <3>1, <3>2, <3>3, <3>4, <3>5, <3>6
  <2> HIDE DEF rest
  <2> QED  BY <2>1, <2>3
<1> QED  BY <1>1 DEF CpuKept

\* Two states that were written alike and have the flags that count.
LEMMA CpuAgreedBy ==
  ASSUME NEW s \in CpuState, NEW i \in CpuInsns, NEW t \in CpuState, NEW u \in CpuState,
         CpuDo(s, i) = t, Arch(s, i) = u, NEW parts, CpuKept(s, i) \subseteq parts,
         "regs" \in parts => t.reg = u.reg, "cf" \in parts => t.cf = u.cf,
         "zf" \in parts => t.zf = u.zf, "sf" \in parts => t.sf = u.sf,
         "of" \in parts => t.of = u.of, "pf" \in parts => t.pf = u.pf
  PROVE  CpuAgreed(s, i)
<1>1. PICK kept : kept = CpuKept(s, i)
  OBVIOUS
<1>2. kept \subseteq {"regs"} \cup CpuFlags
  BY <1>1, CpuKeptKnown
<1>3. CpuAgreesOn(kept, t, u)
  BY <1>1, <1>2, CpuAgrees
<1> QED  BY <1>1, <1>3 DEF CpuAgreed

-----------------------------------------------------------------------------
LEMMA CpuAluOpsKept ==
  ASSUME NEW s \in CpuState, NEW i \in CpuInsns, i.op \in CpuAluOps
  PROVE  /\ "of" \in CpuKept(s, i) => i.op \notin {"adc", "sbb"}
         /\ "cf" \in CpuKept(s, i) =>
              i.op \in CpuLogicOps \/ i.form = "reg" \/ i.size \in {1, 8}
<1>1. i.size \in {1, 2, 4, 8}
  BY CpuInsnParts DEF CpuAllSizes
<1>2. i.op \notin CpuLogicOps => i.op \in {"add", "adc", "sub", "sbb", "cmp"}
  BY DEF CpuAluOps, CpuLogicOps
<1>3. CASE i.op \in {"adc", "sbb"}
  <2>1. CpuMisses(s, i) =
          {"of"} \cup (IF i.form # "reg" /\ i.size \in {2, 4} THEN {"cf"} ELSE {})
    BY <1>3, Zenon DEF CpuMisses
  <2> QED  BY <1>1, <1>3, <2>1 DEF CpuKept
<1>4. CASE i.op \in {"add", "sub", "cmp"} /\ i.form # "reg" /\ i.size \in {2, 4}
  <2>1. CpuMisses(s, i) = {"cf"}
    BY <1>4 DEF CpuMisses
  <2> QED  BY <1>1, <1>4, <2>1 DEF CpuKept
<1> QED  BY <1>1, <1>2, <1>3, <1>4

\* The interpreter's alu and the architecture's.
LEMMA CpuAluMostAgreed ==
  ASSUME NEW s \in CpuState, NEW i \in CpuInsns, i.op \in CpuAluOps, ~CpuShort(i)
  PROVE  CpuAgreed(s, i)
<1>1. CpuNamed(i.d, i.size, i.rex) /\ i.size \in CpuAllSizes
  BY CpuInsnParts
<1>2. PICK a \in Int : a = CpuRead(s, i.d, i.size, i.rex) /\ a \in 0..CpuTop(i.size) - 1
  BY <1>1, CpuReadIs
<1>3. PICK o \in Int : o = CpuOperand(s, i)
  BY CpuOperandExact
<1>4. PICK b \in Int : b = ArchOperand(s, i) /\ b = CpuUns(o, i.size)
                       /\ (i.form = "reg" \/ i.size \in {1, 8} => o = b)
  BY <1>3, CpuOperandExact
<1>5. PICK x : x = CpuAlu(s, i.op, a, o, i.size)
  OBVIOUS
<1>6. CpuAluParts(s, i.op, a, o, i.size, CpuAluResult(i.op, a, o, CpuCarryIn(s)), x)
  BY <1>1, <1>5, CpuAluIs
<1>7. x.r \in Int /\ x.s \in CpuState /\ x.s.reg = s.reg /\ x.s.zf = (x.r = 0)
      /\ x.s.sf = CpuBit(x.r, CpuWidth(i.size) - 1) /\ x.s.pf = CpuParity(x.r)
  BY <1>6, Zenon DEF CpuAluParts
<1>8. i.op \notin {"inc", "dec", "neg", "xadd"}
  BY DEF CpuAluOps
<1>9. i.op \in ArchAdds <=> i.op \in CpuAdds
  BY <1>8 DEF ArchAdds, CpuAdds
<1>10. x.r = ArchAluResult(i.op, a, b, CpuCarryOf(s, i.op), i.size)
  BY <1>1, <1>2, <1>4, <1>5, <1>9, CpuAluResultExact DEF ArchAluResult
<1>11. PICK t : /\ ArchAluParts(s, i.op, a, b, CpuCarryOf(s, i.op), i.size, x.r, t)
                /\ ArchAlu(s, i) = ArchAluWrites(s, i, a, x.r, t)
  <2>1. a = (CASE i.op = "neg" -> 0 [] OTHER -> CpuRead(s, i.d, i.size, i.rex))
    BY <1>2, <1>8
  <2>2. b = (CASE i.op = "neg" -> CpuRead(s, i.d, i.size, i.rex)
               [] i.op \in {"inc", "dec"} -> 1
               [] OTHER -> ArchOperand(s, i))
    BY <1>4, <1>8
  <2> QED  BY <1>1, <1>10, <2>1, <2>2, ArchAluIs
<1>12. t \in CpuState /\ t.reg = s.reg /\ t.zf = x.s.zf /\ t.sf = x.s.sf /\ t.pf = x.s.pf
  BY <1>7, <1>11, Zenon DEF ArchAluParts
<1>13. "cf" \in CpuKept(s, i) => t.cf = x.s.cf
  <2>1. t.cf = (i.op \notin CpuLogicOps
                /\ IF i.op \in ArchAdds THEN a + b + CpuCarryOf(s, i.op) >= CpuTop(i.size)
                   ELSE a < b + CpuCarryOf(s, i.op))
    BY <1>8, <1>11 DEF ArchAluParts
  <2>2. x.s.cf = (i.op \notin CpuLogicOps
                  /\ IF i.op \in CpuAdds THEN a + o + CpuCarryOf(s, i.op) >= CpuTop(i.size)
                     ELSE a < o + CpuCarryOf(s, i.op))
    BY <1>1, <1>2, <1>5, CpuAluCarryExact
  <2>3. CASE i.op \in CpuLogicOps
    BY <2>1, <2>2, <2>3
  <2>4. CASE i.form = "reg" \/ i.size \in {1, 8}
    BY <1>4, <1>9, <2>1, <2>2, <2>4
  <2> QED  BY <2>3, <2>4, CpuAluOpsKept
<1>14. "of" \in CpuKept(s, i) => t.of = x.s.of
  <2> HAVE "of" \in CpuKept(s, i)
  <2>1. i.op \in CpuAluOps \ {"adc", "sbb"}
    BY CpuAluOpsKept
  <2>2. CpuCarryOf(s, i.op) = 0 /\ (i.op \in ArchAdds <=> i.op = "add")
    BY <1>9, <2>1 DEF CpuCarryOf, CpuAdds
  <2>3. PICK p \in Int : p = CpuSgn(a, i.size)
    BY <1>1, CpuSgnIs
  <2>4. PICK q \in Int : q = CpuSgn(b, i.size)
    BY <1>1, CpuSgnIs
  <2>5. p + q + 0 = p + q /\ p - q - 0 = p - q
    OBVIOUS
  <2>6. t.of = (i.op \notin CpuLogicOps
                /\ (IF i.op \in ArchAdds THEN p + q + 0 ELSE p - q - 0)
                     \notin -CpuSign(i.size)..CpuSign(i.size) - 1)
    BY <1>11, <2>2, <2>3, <2>4, Zenon DEF ArchAluParts
  <2>7. x.s.of = (i.op \notin CpuLogicOps
                  /\ (IF i.op = "add" THEN p + q ELSE p - q)
                       \notin -CpuSign(i.size)..CpuSign(i.size) - 1)
    BY <1>1, <1>2, <1>4, <1>5, <2>1, <2>3, <2>4, CpuAluOverflowExact
  <2> QED  BY <2>2, <2>5, <2>6, <2>7
<1>15. Arch(s, i) = ArchAluWrites(s, i, a, x.r, t)
  <2>1. Arch(s, i) = ArchAlu(s, i)
    BY DEF Arch, CpuAluOps
  <2> QED  BY <1>11, <2>1
<1>16. CpuDo(s, i) = (IF i.op \in {"cmp", "test"} THEN x.s
                      ELSE CpuWrite(x.s, i.d, i.size, i.rex, x.r))
  <2>1. CpuDo(s, i) = CpuDoAlu(s, i)
    BY DEF CpuDo, CpuAluOps, CpuUnaryOps, CpuRotateOps, CpuShiftOps, CpuDoubleOps, CpuMulOps,
           CpuDivOps, CpuScanOps, CpuBitOps, CpuExtendOps, CpuWidenOps, CpuCarryOps
  <2> QED  BY <1>2, <1>3, <1>5, <2>1, Zenon DEF CpuDoAlu
<1>17. CASE i.op \in {"cmp", "test"}
  <2>1. CpuDo(s, i) = x.s /\ Arch(s, i) = t
    BY <1>15, <1>16, <1>17 DEF ArchAluWrites
  <2> QED  BY <1>7, <1>12, <1>13, <1>14, <2>1, CpuAgreedBy
<1>18. CASE i.op \notin {"cmp", "test"}
  <2>1. Arch(s, i) = CpuWrite(t, i.d, i.size, i.rex, x.r)
    BY <1>8, <1>15, <1>18 DEF ArchAluWrites
  <2>2. PICK y : y = CpuWrite(x.s, i.d, i.size, i.rex, x.r)
    OBVIOUS
  <2>3. PICK z : z = CpuWrite(t, i.d, i.size, i.rex, x.r)
    OBVIOUS
  <2>4. /\ y \in CpuState /\ y.cf = x.s.cf /\ y.zf = x.s.zf /\ y.sf = x.s.sf /\ y.of = x.s.of
        /\ y.pf = x.s.pf
    BY <1>1, <1>7, <2>2, CpuWriteFlags
  <2>5. /\ z \in CpuState /\ z.cf = t.cf /\ z.zf = t.zf /\ z.sf = t.sf /\ z.of = t.of
        /\ z.pf = t.pf
    BY <1>1, <1>7, <1>12, <2>3, CpuWriteFlags
  <2>6. y.reg = z.reg
    BY <1>1, <1>7, <1>12, <2>2, <2>3, CpuWriteSame
  <2>7. CpuDo(s, i) = y /\ Arch(s, i) = z
    BY <1>16, <1>18, <2>1, <2>2, <2>3
  <2> QED  BY <1>12, <1>13, <1>14, <2>4, <2>5, <2>6, <2>7, CpuAgreedBy
<1> QED  BY <1>17, <1>18

\* Of that test the registers, CF, OF and the parity of the low byte.
LEMMA CpuShortAgreed ==
  ASSUME NEW s \in CpuState, NEW i \in CpuInsns, CpuShort(i)
  PROVE  CpuAgreed(s, i)
<1>1. /\ i.op = "test" /\ i.form = "acc" /\ i.size = 8 /\ i.op \in CpuAluOps /\ i.op \in CpuLogicOps
      /\ CpuNamed(i.d, i.size, i.rex) /\ i.size \in CpuAllSizes /\ i.imm \in Int
      /\ 1 \in CpuAllSizes /\ 4 \in CpuAllSizes /\ 8 \in CpuAllSizes
  BY CpuInsnParts DEF CpuShort, CpuAluOps, CpuLogicOps, CpuAllSizes
<1>2. PICK a \in Int : a = CpuRead(s, i.d, i.size, i.rex)
  BY <1>1, CpuReadIs
<1>3. PICK o \in Int : o = CpuOperand(s, i)
  BY <1>1, CpuOperandExact
<1>4. PICK b \in Int : b = ArchOperand(s, i)
  BY <1>1, CpuOperandExact
<1>5. CpuUns(o, 1) = CpuUns(b, 1)
  <2>1. PICK v \in Int : v = i.imm
    BY <1>1
  <2>2. o = CpuUns(v, 4)
    BY <1>1, <1>3, <2>1 DEF CpuOperand
  <2>3. PICK x \in Int : x = CpuSgn(v, 4) /\ CpuUns(x, 4) = CpuUns(v, 4)
    BY <1>1, CpuSgnIs
  <2>4. b = CpuUns(x, 8)
    <3>1. Min({i.size, 4}) = 4
      BY <1>1, CpuLesser
    <3> QED  BY <1>1, <1>4, <2>1, <2>3, <3>1 DEF ArchOperand
  <2>5. CpuUns(b, 1) = CpuUns(x, 1)
    BY <1>1, <2>4, CpuUnsNested
  <2>6. CpuUns(CpuUns(x, 4), 1) = CpuUns(x, 1) /\ CpuUns(CpuUns(v, 4), 1) = CpuUns(v, 1)
    BY <1>1, CpuUnsNested
  <2> QED  BY <2>2, <2>3, <2>5, <2>6
<1>6. PICK x : x = CpuAlu(s, i.op, a, o, i.size)
  OBVIOUS
<1>7. CpuAluParts(s, i.op, a, o, i.size, CpuAluResult(i.op, a, o, CpuCarryIn(s)), x)
  BY <1>1, <1>6, CpuAluIs
<1>8. PICK p \in Int : p = CpuBitwise(i.op, a, o)
  BY CpuBitwiseTyped
<1>9. PICK r \in Int : r = CpuBitwise(i.op, a, b)
  BY CpuBitwiseTyped
<1>10. CpuUns(p, 1) = CpuUns(r, 1)
  BY <1>1, <1>5, <1>8, <1>9, CpuBitwiseLow
<1>11. x.r = CpuUns(p, 8) /\ x.r \in Int /\ x.s \in CpuState /\ x.s.reg = s.reg
       /\ x.s.cf = FALSE /\ x.s.of = FALSE /\ x.s.pf = CpuParity(x.r)
  BY <1>1, <1>7, <1>8 DEF CpuAluParts, CpuAluResult
<1>12. PICK t : /\ ArchAluParts(s, i.op, a, b, CpuCarryOf(s, i.op), i.size, r, t)
                /\ ArchAlu(s, i) = ArchAluWrites(s, i, a, r, t)
  <2>1. a = (CASE i.op = "neg" -> 0 [] OTHER -> CpuRead(s, i.d, i.size, i.rex))
    BY <1>1, <1>2
  <2>2. b = (CASE i.op = "neg" -> CpuRead(s, i.d, i.size, i.rex)
               [] i.op \in {"inc", "dec"} -> 1
               [] OTHER -> ArchOperand(s, i))
    BY <1>1, <1>4
  <2>3. r = ArchAluResult(i.op, a, b, CpuCarryOf(s, i.op), i.size)
    BY <1>1, <1>9 DEF ArchAluResult, CpuAluResult
  <2> QED  BY <1>1, <2>1, <2>2, <2>3, ArchAluIs
<1>13. /\ t \in CpuState /\ t.reg = s.reg /\ t.cf = FALSE /\ t.of = FALSE
       /\ t.pf = CpuParity(r)
  BY <1>1, <1>12 DEF ArchAluParts
<1>14. CpuParity(x.r) = CpuParity(r)
  <2>1. CpuUns(CpuUns(p, 8), 1) = CpuUns(p, 1)
    <3>1. \A v \in Int : CpuUns(CpuUns(v, 8), 1) = CpuUns(v, 1)
      <4> TAKE v \in Int
      <4>1. 1 \in CpuAllSizes /\ 8 \in CpuAllSizes /\ 1 <= 8
        BY <1>1
      <4> QED  BY <4>1, CpuUnsNested
    <3> QED  BY <3>1
  <2>2. PICK w \in Int : w = x.r
    BY <1>11
  <2>3. CpuUns(w, 1) = CpuUns(r, 1)
    <3>1. CpuUns(w, 1) = CpuUns(CpuUns(p, 8), 1)
      BY <1>11, <2>2
    <3> QED  BY <1>10, <2>1, <3>1
  <2>4. CpuParity(w) = CpuParity(r)
    BY <1>9, <2>3, CpuParityLow
  <2> QED  BY <2>2, <2>4
<1>15. CpuDo(s, i) = x.s
  <2>1. CpuDo(s, i) = CpuDoAlu(s, i)
    BY <1>1 DEF CpuDo, CpuAluOps, CpuUnaryOps, CpuRotateOps, CpuShiftOps, CpuDoubleOps, CpuMulOps,
           CpuDivOps, CpuScanOps, CpuBitOps, CpuExtendOps, CpuWidenOps, CpuCarryOps
  <2>2. CpuDoAlu(s, i) = x.s
    BY <1>1, <1>2, <1>3, <1>6 DEF CpuDoAlu
  <2> QED  BY <2>1, <2>2
<1>16. Arch(s, i) = t
  <2>1. Arch(s, i) = ArchAlu(s, i)
    BY <1>1 DEF Arch, CpuAluOps
  <2> QED  BY <1>1, <1>12, <2>1 DEF ArchAluWrites
<1>17. CpuKept(s, i) \subseteq {"regs", "cf", "of", "pf"}
  <2>1. CpuMisses(s, i) = {"zf", "sf"}
    BY <1>1 DEF CpuMisses, CpuShort
  <2>2. CpuKept(s, i) \subseteq {"regs"} \cup CpuFlags
    BY CpuKeptKnown
  <2> QED  BY <2>1, <2>2 DEF CpuKept, CpuFlags
<1> QED  BY <1>11, <1>13, <1>14, <1>15, <1>16, <1>17, CpuAgreedBy

LEMMA CpuAluAgreed ==
  ASSUME NEW s \in CpuState, NEW i \in CpuInsns, i.op \in CpuAluOps
  PROVE  CpuAgreed(s, i)
BY CpuAluMostAgreed, CpuShortAgreed

-----------------------------------------------------------------------------
(* What carries out an instruction, by what it is.                          *)

LEMMA CpuDoBy ==
  ASSUME NEW s, NEW i
  PROVE  /\ i.op \in CpuUnaryOps => CpuDo(s, i) = CpuDoUnary(s, i)
         /\ i.op \in CpuRotateOps \cup CpuShiftOps => CpuDo(s, i) = CpuDoShift(s, i)
         /\ i.op \in CpuDoubleOps => CpuDo(s, i) = CpuDoDouble(s, i)
         /\ i.op \in CpuMulOps => CpuDo(s, i) = CpuDoMul(s, i)
         /\ i.op \in CpuDivOps => CpuDo(s, i) = CpuDoDiv(s, i)
         /\ i.op = "imul2" => CpuDo(s, i) = CpuDoImul(s, i)
         /\ i.op = "cmpxchg" => CpuDo(s, i) = CpuDoCmpxchg(s, i)
         /\ i.op = "xadd" => CpuDo(s, i) = CpuDoXadd(s, i)
         /\ i.op \in CpuWidenOps => CpuDo(s, i) = CpuDoWiden(s, i)
         /\ i.op = "cmov" => CpuDo(s, i) = CpuDoCmov(s, i)
<1> USE DEF CpuDo, CpuAluOps, CpuUnaryOps, CpuRotateOps, CpuShiftOps, CpuDoubleOps, CpuMulOps,
            CpuDivOps, CpuScanOps, CpuBitOps, CpuExtendOps, CpuWidenOps, CpuCarryOps
<1>1. i.op \in CpuUnaryOps => CpuDo(s, i) = CpuDoUnary(s, i)
  OBVIOUS
<1>2. i.op \in CpuRotateOps \cup CpuShiftOps => CpuDo(s, i) = CpuDoShift(s, i)
  OBVIOUS
<1>3. i.op \in CpuDoubleOps => CpuDo(s, i) = CpuDoDouble(s, i)
  OBVIOUS
<1>4. i.op \in CpuMulOps => CpuDo(s, i) = CpuDoMul(s, i)
  OBVIOUS
<1>5. i.op \in CpuDivOps => CpuDo(s, i) = CpuDoDiv(s, i)
  OBVIOUS
<1>6. i.op = "imul2" => CpuDo(s, i) = CpuDoImul(s, i)
  OBVIOUS
<1>7. i.op = "cmpxchg" => CpuDo(s, i) = CpuDoCmpxchg(s, i)
  OBVIOUS
<1>8. i.op = "xadd" => CpuDo(s, i) = CpuDoXadd(s, i)
  OBVIOUS
<1>9. i.op \in CpuWidenOps => CpuDo(s, i) = CpuDoWiden(s, i)
  OBVIOUS
<1>10. i.op = "cmov" => CpuDo(s, i) = CpuDoCmov(s, i)
  OBVIOUS
<1> QED  BY <1>1, <1>2, <1>3, <1>4, <1>5, <1>6, <1>7, <1>8, <1>9, <1>10

LEMMA ArchBy ==
  ASSUME NEW s, NEW i
  PROVE  /\ i.op \in {"inc", "dec", "neg", "xadd"} => Arch(s, i) = ArchAlu(s, i)
         /\ i.op \in CpuRotateOps \cup CpuShiftOps => Arch(s, i) = ArchShift(s, i)
         /\ i.op \in CpuDoubleOps => Arch(s, i) = ArchDouble(s, i)
         /\ i.op \in CpuMulOps => Arch(s, i) = ArchMul(s, i)
         /\ i.op \in CpuDivOps => Arch(s, i) = ArchDiv(s, i)
         /\ i.op = "imul2" => Arch(s, i) = ArchImul(s, i)
         /\ i.op = "cmpxchg" => Arch(s, i) = ArchCmpxchg(s, i)
         /\ i.op \in CpuWidenOps => Arch(s, i) = ArchExtend(s, i)
         /\ i.op = "cmov" => Arch(s, i) = ArchCmov(s, i)
  BY DEF Arch, CpuAluOps, CpuRotateOps, CpuShiftOps, CpuDoubleOps, CpuMulOps, CpuDivOps,
         CpuWidenOps

-----------------------------------------------------------------------------
(* Increment, decrement and negation.                                       *)

\* Sums and differences without a carry.
LEMMA CpuAluSame ==
  ASSUME NEW s \in CpuState, NEW size \in CpuAllSizes, NEW op \in {"add", "sub"},
         NEW as \in {"inc", "dec", "neg", "xadd", "cmp"}, as \in ArchAdds <=> op = "add",
         NEW a \in 0..CpuTop(size) - 1, NEW b \in 0..CpuTop(size) - 1,
         NEW t, NEW r, ArchAluParts(s, as, a, b, 0, size, r, t), r = ArchAluResult(as, a, b, 0, size),
         NEW x, x = CpuAlu(s, op, a, b, size)
  PROVE  /\ x.r = r /\ r \in Int /\ x.s \in CpuState /\ x.s.reg = s.reg
         /\ t \in CpuState /\ t.reg = s.reg
         /\ t.zf = x.s.zf /\ t.sf = x.s.sf /\ t.pf = x.s.pf /\ t.of = x.s.of
         /\ t.cf = (IF as \in {"inc", "dec"} THEN s.cf ELSE x.s.cf)
<1>1. CpuTop(size) \in Nat
  BY CpuTops
<1>2. a \in Int /\ b \in Int
  BY <1>1
<1>3. op \in CpuAluOps \ {"adc", "sbb"} /\ op \notin CpuLogicOps /\ as \notin CpuLogicOps
  BY DEF CpuAluOps, CpuLogicOps
<1>4. (op \in CpuAdds <=> op = "add") /\ CpuCarryOf(s, op) = 0
  BY DEF CpuAdds, CpuCarryOf
<1>5. CpuUns(b, size) = b
  BY <1>2, CpuUnsIs
<1>6. CpuAluParts(s, op, a, b, size, CpuAluResult(op, a, b, CpuCarryIn(s)), x)
  BY <1>2, <1>3, CpuAluIs
<1>7. /\ x.r \in Int /\ x.s \in CpuState /\ x.s.reg = s.reg /\ x.s.zf = (x.r = 0)
      /\ x.s.sf = CpuBit(x.r, CpuWidth(size) - 1) /\ x.s.pf = CpuParity(x.r)
  BY <1>6, Zenon DEF CpuAluParts
<1>8. x.r = r
  <2>1. x.r = CpuUns(IF op \in CpuAdds THEN a + b + CpuCarryOf(s, op)
                     ELSE a - b - CpuCarryOf(s, op), size)
    BY <1>2, <1>3, <1>5, CpuAluResultExact
  <2>2. r = CpuUns(IF as \in ArchAdds THEN a + b + 0 ELSE a - b - 0, size)
    BY <1>3 DEF ArchAluResult
  <2> QED  BY <1>4, <2>1, <2>2
<1>9. /\ t \in CpuState /\ t.reg = s.reg /\ t.zf = (r = 0)
      /\ t.sf = CpuBit(r, CpuWidth(size) - 1) /\ t.pf = CpuParity(r)
  BY Zenon DEF ArchAluParts
<1>10. t.of = x.s.of
  <2>1. x.s.of = (op \notin CpuLogicOps
                  /\ (IF op = "add" THEN CpuSgn(a, size) + CpuSgn(b, size)
                      ELSE CpuSgn(a, size) - CpuSgn(b, size))
                       \notin -CpuSign(size)..CpuSign(size) - 1)
    BY <1>2, <1>3, <1>5, CpuAluOverflowExact
  <2>2. t.of = (as \notin CpuLogicOps
                /\ (IF as \in ArchAdds THEN CpuSgn(a, size) + CpuSgn(b, size) + 0
                    ELSE CpuSgn(a, size) - CpuSgn(b, size) - 0)
                     \notin -CpuSign(size)..CpuSign(size) - 1)
    BY Zenon DEF ArchAluParts
  <2>3. PICK p \in Int : p = CpuSgn(a, size)
    BY <1>2, CpuSgnIs
  <2>4. PICK q \in Int : q = CpuSgn(b, size)
    BY <1>2, CpuSgnIs
  <2>5. p + q + 0 = p + q /\ p - q - 0 = p - q
    OBVIOUS
  <2> QED  BY <1>3, <2>1, <2>2, <2>3, <2>4, <2>5
<1>11. t.cf = (IF as \in {"inc", "dec"} THEN s.cf ELSE x.s.cf)
  <2>1. t.cf = (IF as \in {"inc", "dec"} THEN s.cf
                ELSE as \notin CpuLogicOps
                     /\ IF as \in ArchAdds THEN a + b + 0 >= CpuTop(size) ELSE a < b + 0)
    BY Zenon DEF ArchAluParts
  <2>2. x.s.cf = (op \notin CpuLogicOps
                  /\ IF op \in CpuAdds THEN a + b + CpuCarryOf(s, op) >= CpuTop(size)
                     ELSE a < b + CpuCarryOf(s, op))
    BY <1>2, <1>3, CpuAluCarryExact
  <2> QED  BY <1>3, <1>4, <2>1, <2>2
<1> QED  BY <1>7, <1>8, <1>9, <1>10, <1>11

LEMMA CpuUnaryAgreed ==
  ASSUME NEW s \in CpuState, NEW i \in CpuInsns, i.op \in {"inc", "dec", "neg"}
  PROVE  CpuAgreed(s, i)
<1>1. CpuNamed(i.d, i.size, i.rex) /\ i.size \in CpuAllSizes
  BY CpuInsnParts
<1>2. PICK v \in Int : v = CpuRead(s, i.d, i.size, i.rex) /\ v \in 0..CpuTop(i.size) - 1
  BY <1>1, CpuReadIs
<1>3. 1 \in 0..CpuTop(i.size) - 1 /\ 0 \in 0..CpuTop(i.size) - 1
  BY <1>1, CpuTops
<1>4. PICK a \in 0..CpuTop(i.size) - 1 : a \in Int /\ a = IF i.op = "neg" THEN 0 ELSE v
  BY <1>2, <1>3
<1>5. PICK b \in 0..CpuTop(i.size) - 1 : b \in Int /\ b = IF i.op = "neg" THEN v ELSE 1
  BY <1>2, <1>3
<1>6. PICK op \in {"add", "sub"} : op = IF i.op = "inc" THEN "add" ELSE "sub"
  OBVIOUS
<1>7. PICK r : r = ArchAluResult(i.op, a, b, 0, i.size)
  OBVIOUS
<1>8. CpuCarryOf(s, i.op) = 0
  BY DEF CpuCarryOf
<1>9. PICK t : ArchAluParts(s, i.op, a, b, 0, i.size, r, t)
               /\ ArchAlu(s, i) = ArchAluWrites(s, i, a, r, t)
  <2>1. a = (CASE i.op = "neg" -> 0 [] OTHER -> CpuRead(s, i.d, i.size, i.rex))
    BY <1>2, <1>4
  <2>2. b = (CASE i.op = "neg" -> CpuRead(s, i.d, i.size, i.rex)
               [] i.op \in {"inc", "dec"} -> 1
               [] OTHER -> ArchOperand(s, i))
    BY <1>2, <1>5
  <2> QED  BY <1>1, <1>4, <1>5, <1>7, <1>8, <2>1, <2>2, ArchAluIs
<1>10. PICK x : x = CpuAlu(s, op, a, b, i.size)
  OBVIOUS
<1>11. i.op \in ArchAdds <=> op = "add"
  BY <1>6 DEF ArchAdds
<1>12. /\ x.r = r /\ r \in Int /\ x.s \in CpuState /\ x.s.reg = s.reg
       /\ t \in CpuState /\ t.reg = s.reg
       /\ t.zf = x.s.zf /\ t.sf = x.s.sf /\ t.pf = x.s.pf /\ t.of = x.s.of
       /\ t.cf = (IF i.op \in {"inc", "dec"} THEN s.cf ELSE x.s.cf)
  <2>1. i.op \in {"inc", "dec", "neg", "xadd", "cmp"}
    OBVIOUS
  <2>2. ArchAluParts(s, i.op, a, b, 0, i.size, r, t)
    BY <1>9
  <2> QED  BY <1>1, <1>7, <1>10, <1>11, <2>1, <2>2, CpuAluSame
<1>13. PICK c \in BOOLEAN : c = IF i.op \in {"inc", "dec"} THEN s.cf ELSE x.s.cf
  <2>1. s.cf \in BOOLEAN /\ x.s.cf \in BOOLEAN
    BY <1>12, CpuStateParts
  <2> QED  BY <2>1
<1>14. PICK u : u = [x.s EXCEPT !.cf = c]
  OBVIOUS
<1>15. /\ u \in CpuState /\ u.reg = x.s.reg /\ u.cf = c /\ u.zf = x.s.zf /\ u.sf = x.s.sf
       /\ u.of = x.s.of /\ u.pf = x.s.pf
  BY <1>12, <1>14 DEF CpuState
<1>16. CpuDo(s, i) = CpuWrite(u, i.d, i.size, i.rex, r)
  <2>1. CpuDo(s, i) = CpuDoUnary(s, i)
    BY CpuDoBy DEF CpuUnaryOps
  <2> DEFINE y == CASE i.op = "inc" -> CpuAlu(s, "add", v, 1, i.size)
                    [] i.op = "dec" -> CpuAlu(s, "sub", v, 1, i.size)
                    [] i.op = "neg" -> CpuAlu(s, "sub", 0, v, i.size)
                    [] i.op = "not" -> [r |-> CpuTop(i.size) - 1 - v, s |-> s]
             z == IF i.op \in {"inc", "dec"} THEN [y.s EXCEPT !.cf = s.cf] ELSE y.s
  <2>2. CpuDoUnary(s, i) = CpuWrite(z, i.d, i.size, i.rex, y.r)
    BY <1>2, Zenon DEF CpuDoUnary
  <2>3. y = x
    BY <1>4, <1>5, <1>6, <1>10
  <2>4. z = u
    <3>1. x.s = [x.s EXCEPT !.cf = x.s.cf]
      BY <1>12 DEF CpuState
    <3>2. CASE i.op \in {"inc", "dec"}
      <4> HIDE DEF y
      <4> QED  BY <1>13, <1>14, <2>3, <3>2
    <3>3. CASE i.op \notin {"inc", "dec"}
      <4> HIDE DEF y
      <4>1. z = x.s /\ c = x.s.cf
        BY <1>13, <2>3, <3>3
      <4> QED  BY <1>14, <3>1, <4>1
    <3> QED  BY <3>2, <3>3
  <2> HIDE DEF y, z
  <2> QED  BY <1>12, <2>1, <2>2, <2>3, <2>4
<1>17. Arch(s, i) = CpuWrite(t, i.d, i.size, i.rex, r)
  <2>1. Arch(s, i) = ArchAlu(s, i)
    BY ArchBy
  <2>2. i.op \notin {"cmp", "test", "xadd"}
    OBVIOUS
  <2> QED  BY <1>9, <2>1, <2>2 DEF ArchAluWrites
<1>18. PICK y : y = CpuWrite(u, i.d, i.size, i.rex, r)
  OBVIOUS
<1>19. PICK z : z = CpuWrite(t, i.d, i.size, i.rex, r)
  OBVIOUS
<1>20. y \in CpuState /\ y.cf = u.cf /\ y.zf = u.zf /\ y.sf = u.sf /\ y.of = u.of /\ y.pf = u.pf
  <2>1. u \in CpuState /\ r \in Int
    BY <1>12, <1>15
  <2> QED  BY <1>1, <1>18, <2>1, CpuWriteFlags
<1>21. z \in CpuState /\ z.cf = t.cf /\ z.zf = t.zf /\ z.sf = t.sf /\ z.of = t.of /\ z.pf = t.pf
  BY <1>1, <1>12, <1>19, CpuWriteFlags, SMTT(30)
<1>22. y.reg = z.reg
  <2>1. u.reg = t.reg
    BY <1>12, <1>15
  <2> QED  BY <1>1, <1>12, <1>15, <1>18, <1>19, <2>1, CpuWriteSame
<1> QED  BY <1>12, <1>13, <1>15, <1>16, <1>17, <1>18, <1>19, <1>20, <1>21, <1>22, CpuAgreedBy

-----------------------------------------------------------------------------
(* Writes of two registers, and of the two bytes of one.                    *)

CpuIndex(n, size, rex) == IF size = 1 /\ ~rex /\ n \in 4..7 THEN n - 4 ELSE n
\* A register after a write of u to n, which is in it.
CpuNow(old, n, size, rex, u) ==
  IF size = 1 /\ ~rex /\ n \in 4..7
  THEN old - CpuUns(old \div CpuTop(1), 1) * CpuTop(1) + u * CpuTop(1)
  ELSE IF size \in {4, 8} THEN u ELSE old - CpuUns(old, size) + u

LEMMA CpuPutNow ==
  ASSUME NEW reg \in [CpuRegs -> 0..CpuTop(8) - 1], NEW n, NEW size, NEW rex,
         CpuNamed(n, size, rex), NEW u \in 0..CpuTop(size) - 1
  PROVE  LET k == CpuIndex(n, size, rex)
         IN  /\ k \in CpuRegs
             /\ CpuPut(reg, n, size, rex, u) = [reg EXCEPT ![k] = CpuNow(reg[k], n, size, rex, u)]
<1>1. CASE size = 1 /\ ~rex /\ n \in 4..7
  <2>1. CpuIndex(n, size, rex) = n - 4 /\ n - 4 \in CpuRegs
    BY <1>1, CpuNamedIs DEF CpuIndex
  <2>2. CpuPut(reg, n, size, rex, u) =
          [reg EXCEPT ![n - 4] =
             reg[n - 4] - CpuUns(reg[n - 4] \div CpuTop(1), 1) * CpuTop(1) + u * CpuTop(1)]
    BY <1>1, Zenon DEF CpuPut
  <2>3. CpuNow(reg[n - 4], n, size, rex, u) =
          reg[n - 4] - CpuUns(reg[n - 4] \div CpuTop(1), 1) * CpuTop(1) + u * CpuTop(1)
    BY <1>1, Zenon DEF CpuNow
  <2> QED  BY <2>1, <2>2, <2>3, Zenon
<1>2. CASE ~(size = 1 /\ ~rex /\ n \in 4..7)
  <2>1. CpuIndex(n, size, rex) = n /\ n \in CpuRegs
    BY <1>2, CpuNamedIs DEF CpuIndex
  <2>2. CpuPut(reg, n, size, rex, u) =
          [reg EXCEPT ![n] = IF size \in {4, 8} THEN u ELSE reg[n] - CpuUns(reg[n], size) + u]
    BY <1>2, Zenon DEF CpuPut
  <2>3. CpuNow(reg[n], n, size, rex, u) =
          IF size \in {4, 8} THEN u ELSE reg[n] - CpuUns(reg[n], size) + u
    BY <1>2, Zenon DEF CpuNow
  <2> QED  BY <2>1, <2>2, <2>3, Zenon
<1> QED  BY <1>1, <1>2

\* The low byte of a register and the one above it.
LEMMA CpuBytesCommute ==
  ASSUME NEW old \in 0..CpuTop(8) - 1, NEW u \in 0..CpuTop(1) - 1, NEW w \in 0..CpuTop(1) - 1,
         NEW low \in Int, low = old - CpuUns(old, 1) + u,
         NEW high \in Int, high = old - CpuUns(old \div CpuTop(1), 1) * CpuTop(1) + w * CpuTop(1)
  PROVE  low - CpuUns(low \div CpuTop(1), 1) * CpuTop(1) + w * CpuTop(1) = high - CpuUns(high, 1) + u
<1>1. PICK T \in Nat \ {0} : T = CpuTop(1)
  BY CpuTops DEF CpuAllSizes
<1>2. CpuTop(8) \in Nat
  BY CpuTops DEF CpuAllSizes
<1>3. old \in Int /\ u \in Int /\ w \in Int /\ 0 <= u /\ u < T
  BY <1>1, <1>2
<1>4. PICK q \in Int : q = old \div T
  BY <1>3, Divided
<1>5. PICK l \in Int : l = old % T /\ 0 <= l /\ l < T /\ old = T * q + l
  BY <1>3, <1>4, Divided
<1>6. PICK m \in Int : m = q % T
  BY <1>4, Divided
<1>7. low = T * q + u
  BY <1>1, <1>3, <1>5 DEF CpuUns
<1>8. low \div T = q
  BY <1>3, <1>7, DividedOnce
<1>9. PICK h \in Int : h = q - m + w
  BY <1>3
<1>10. high = T * h + l
  <2>1. high = (T * q + l) - m * T + w * T
    BY <1>1, <1>4, <1>5, <1>6 DEF CpuUns
  <2>2. PICK a \in Int : a = T * q
    OBVIOUS
  <2>3. PICK b \in Int : b = T * m
    OBVIOUS
  <2>4. PICK c \in Int : c = T * w
    BY <1>3
  <2>5. T * h = a - b + c
    BY <1>3, <1>9, <2>2, <2>3, <2>4
  <2>6. m * T = b /\ w * T = c
    BY <1>3, <2>3, <2>4
  <2> QED  BY <2>1, <2>2, <2>5, <2>6
<1>11. high % T = l
  <2>1. (T * h + l) % T = l
    BY <1>5, <1>9, DividedOnce
  <2> QED  BY <1>10, <2>1
<1>12. CpuUns(low \div CpuTop(1), 1) = m /\ CpuUns(high, 1) = l
  BY <1>1, <1>6, <1>8, <1>11 DEF CpuUns
<1>13. PICK a \in Int : a = T * q
  OBVIOUS
<1>14. PICK b \in Int : b = m * T
  OBVIOUS
<1>15. PICK c \in Int : c = w * T
  BY <1>3
<1>16. high = (a + l) - b + c
  BY <1>1, <1>4, <1>5, <1>6, <1>13, <1>14, <1>15 DEF CpuUns
<1> QED  BY <1>1, <1>3, <1>7, <1>12, <1>13, <1>14, <1>15, <1>16

LEMMA CpuPutCommutes ==
  ASSUME NEW reg \in [CpuRegs -> 0..CpuTop(8) - 1], NEW size, NEW rex, NEW m, NEW n, m # n,
         CpuNamed(m, size, rex), CpuNamed(n, size, rex),
         NEW u \in 0..CpuTop(size) - 1, NEW w \in 0..CpuTop(size) - 1
  PROVE  CpuPut(CpuPut(reg, m, size, rex, u), n, size, rex, w)
           = CpuPut(CpuPut(reg, n, size, rex, w), m, size, rex, u)
<1>1. PICK j \in CpuRegs : j = CpuIndex(m, size, rex)
  BY CpuPutNow
<1>2. PICK k \in CpuRegs : k = CpuIndex(n, size, rex)
  BY CpuPutNow
<1> DEFINE R == [CpuRegs -> 0..CpuTop(8) - 1]
<1>3. PICK f : f = CpuPut(reg, m, size, rex, u)
  OBVIOUS
<1>4. PICK g : g = CpuPut(reg, n, size, rex, w)
  OBVIOUS
<1>5. f \in R /\ f = [reg EXCEPT ![j] = CpuNow(reg[j], m, size, rex, u)]
  BY <1>1, <1>3, CpuPutIs, CpuPutNow
<1>6. g \in R /\ g = [reg EXCEPT ![k] = CpuNow(reg[k], n, size, rex, w)]
  BY <1>2, <1>4, CpuPutIs, CpuPutNow
<1>7. /\ CpuPut(f, n, size, rex, w) \in R
      /\ CpuPut(f, n, size, rex, w) = [f EXCEPT ![k] = CpuNow(f[k], n, size, rex, w)]
  <2>1. f \in [CpuRegs -> 0..CpuTop(8) - 1]
    BY <1>5
  <2>2. CpuPut(f, n, size, rex, w) \in R
    BY <2>1, CpuPutIs
  <2> HIDE DEF R
  <2>3. CpuPut(f, n, size, rex, w) = [f EXCEPT ![k] = CpuNow(f[k], n, size, rex, w)]
    BY <1>2, <2>1, CpuPutNow
  <2> QED  BY <2>2, <2>3
<1>8. /\ CpuPut(g, m, size, rex, u) \in R
      /\ CpuPut(g, m, size, rex, u) = [g EXCEPT ![j] = CpuNow(g[j], m, size, rex, u)]
  <2>1. g \in [CpuRegs -> 0..CpuTop(8) - 1]
    BY <1>6
  <2>2. CpuPut(g, m, size, rex, u) \in R
    BY <2>1, CpuPutIs
  <2> HIDE DEF R
  <2>3. CpuPut(g, m, size, rex, u) = [g EXCEPT ![j] = CpuNow(g[j], m, size, rex, u)]
    BY <1>1, <2>1, CpuPutNow
  <2> QED  BY <2>2, <2>3
<1>9. [f EXCEPT ![k] = CpuNow(f[k], n, size, rex, w)] = [g EXCEPT ![j] = CpuNow(g[j], m, size, rex, u)]
  <2>1. CASE j # k
    <3>1. f[k] = reg[k] /\ g[j] = reg[j]
      BY <1>5, <1>6, <2>1
    <3>2. PICK a : a = CpuNow(reg[j], m, size, rex, u)
      OBVIOUS
    <3>3. PICK b : b = CpuNow(reg[k], n, size, rex, w)
      OBVIOUS
    <3> QED  BY <1>5, <1>6, <2>1, <3>1, <3>2, <3>3
  <2>2. CASE j = k
    <3>1. size = 1 /\ ~rex /\ ((m \in 4..7 /\ n = m - 4) \/ (n \in 4..7 /\ m = n - 4))
      <4>1. m \in CpuNames(size, rex) /\ n \in CpuNames(size, rex)
        BY DEF CpuNamed
      <4>2. ~(size = 1 /\ ~rex) => j = m /\ k = n
        BY <1>1, <1>2 DEF CpuIndex
      <4>3. size = 1 /\ ~rex
        BY <2>2, <4>2
      <4>4. m \in {0, 1, 2, 4, 5, 6} /\ n \in {0, 1, 2, 4, 5, 6}
        BY <4>1, <4>3 DEF CpuNames
      <4>5. (j = IF m \in 4..7 THEN m - 4 ELSE m) /\ (k = IF n \in 4..7 THEN n - 4 ELSE n)
        BY <1>1, <1>2, <4>3 DEF CpuIndex
      <4>6. (m \in {0, 1, 2} /\ j = m) \/ (m \in {4, 5, 6} /\ m \in 4..7 /\ j = m - 4)
        BY <4>4, <4>5
      <4>7. (n \in {0, 1, 2} /\ k = n) \/ (n \in {4, 5, 6} /\ n \in 4..7 /\ k = n - 4)
        BY <4>4, <4>5
      <4>8. CASE m \in {0, 1, 2} /\ j = m /\ n \in {4, 5, 6} /\ n \in 4..7 /\ k = n - 4
        BY <2>2, <4>3, <4>8
      <4>9. CASE n \in {0, 1, 2} /\ k = n /\ m \in {4, 5, 6} /\ m \in 4..7 /\ j = m - 4
        <5>1. n = m - 4
          BY <2>2, <4>9
        <5> QED  BY <4>3, <4>9, <5>1
      <4>10. CASE m \in {4, 5, 6} /\ n \in {4, 5, 6} /\ j = m - 4 /\ k = n - 4
        <5>1. PICK x \in {4, 5, 6} : x = m
          BY <4>10
        <5>2. PICK y \in {4, 5, 6} : y = n
          BY <4>10
        <5>3. x - 4 = y - 4
          BY <2>2, <4>10, <5>1, <5>2
        <5>4. x = y
          BY <5>3
        <5> QED  BY <5>1, <5>2, <5>4
      <4> QED  BY <2>2, <4>6, <4>7, <4>8, <4>9, <4>10
    <3>2. PICK old \in 0..CpuTop(8) - 1 : old = reg[j]
      OBVIOUS
    <3>3. f[k] = CpuNow(old, m, size, rex, u) /\ g[j] = CpuNow(old, n, size, rex, w)
      BY <1>5, <1>6, <2>2, <3>2
    <3>4. \A z, x, y : [[reg EXCEPT ![j] = x] EXCEPT ![j] = z] = [[reg EXCEPT ![j] = y] EXCEPT ![j] = z]
      OBVIOUS
    <3>5. f[k] \in Int /\ g[j] \in Int
      <4>1. CpuTop(8) \in Nat
        BY CpuTops DEF CpuAllSizes
      <4>2. f[k] \in 0..CpuTop(8) - 1 /\ g[j] \in 0..CpuTop(8) - 1
        BY <1>5, <1>6
      <4> QED  BY <4>1, <4>2
    <3>6. CpuNow(f[k], n, size, rex, w) = CpuNow(g[j], m, size, rex, u)
      <4>1. 1 \notin {4, 8} /\ u \in 0..CpuTop(1) - 1 /\ w \in 0..CpuTop(1) - 1
        BY <3>1
      <4>2. CASE m \in 4..7 /\ n = m - 4
        <5>1. m \in {4, 5, 6} /\ n \notin 4..7
          BY <3>1, <4>2 DEF CpuNamed, CpuNames
        <5>2. \A x, y : /\ CpuNow(x, n, size, rex, y) = x - CpuUns(x, 1) + y
                        /\ CpuNow(x, m, size, rex, y)
                             = x - CpuUns(x \div CpuTop(1), 1) * CpuTop(1) + y * CpuTop(1)
          BY <3>1, <4>1, <4>2, <5>1, Zenon DEF CpuNow
        <5>3. g[j] = old - CpuUns(old, 1) + w
              /\ f[k] = old - CpuUns(old \div CpuTop(1), 1) * CpuTop(1) + u * CpuTop(1)
          BY <3>3, <5>2
        <5>4. g[j] - CpuUns(g[j] \div CpuTop(1), 1) * CpuTop(1) + u * CpuTop(1)
                = f[k] - CpuUns(f[k], 1) + w
          BY <3>5, <4>1, <5>3, CpuBytesCommute
        <5> QED  BY <5>2, <5>4
      <4>3. CASE n \in 4..7 /\ m = n - 4
        <5>1. n \in {4, 5, 6} /\ m \notin 4..7
          BY <3>1, <4>3 DEF CpuNamed, CpuNames
        <5>2. \A x, y : /\ CpuNow(x, m, size, rex, y) = x - CpuUns(x, 1) + y
                        /\ CpuNow(x, n, size, rex, y)
                             = x - CpuUns(x \div CpuTop(1), 1) * CpuTop(1) + y * CpuTop(1)
          BY <3>1, <4>1, <4>3, <5>1, Zenon DEF CpuNow
        <5>3. f[k] = old - CpuUns(old, 1) + u
              /\ g[j] = old - CpuUns(old \div CpuTop(1), 1) * CpuTop(1) + w * CpuTop(1)
          BY <3>3, <5>2
        <5>4. f[k] - CpuUns(f[k] \div CpuTop(1), 1) * CpuTop(1) + w * CpuTop(1)
                = g[j] - CpuUns(g[j], 1) + u
          BY <3>5, <4>1, <5>3, CpuBytesCommute
        <5> QED  BY <5>2, <5>4
      <4> QED  BY <3>1, <4>2, <4>3
    <3> QED  BY <1>5, <1>6, <2>2, <3>4, <3>6
  <2> QED  BY <2>1, <2>2
<1> QED  BY <1>3, <1>4, <1>7, <1>8, <1>9

-----------------------------------------------------------------------------
(* Exchange and add: the sum is written first, the source last.             *)

LEMMA CpuWritesReg ==
  ASSUME NEW s \in CpuState, NEW m, NEW n, NEW size, NEW rex,
         CpuNamed(m, size, rex), CpuNamed(n, size, rex), NEW v \in Int, NEW w \in Int,
         NEW t, t = CpuWrite(CpuWrite(s, m, size, rex, v), n, size, rex, w)
  PROVE  /\ t \in CpuState /\ t.cf = s.cf /\ t.zf = s.zf /\ t.sf = s.sf /\ t.of = s.of
         /\ t.pf = s.pf
         /\ t.reg = CpuPut(CpuPut(s.reg, m, size, rex, CpuUns(v, size)), n, size, rex,
                           CpuUns(w, size))
<1>1. PICK u : u = CpuWrite(s, m, size, rex, v)
  OBVIOUS
<1>2. /\ u \in CpuState /\ u.cf = s.cf /\ u.zf = s.zf /\ u.sf = s.sf /\ u.of = s.of
      /\ u.pf = s.pf
  BY <1>1, CpuWriteFlags
<1>3. u.reg = CpuPut(s.reg, m, size, rex, CpuUns(v, size))
  <2>1. u = [s EXCEPT !.reg = CpuPut(s.reg, m, size, rex, CpuUns(v, size))]
    BY <1>1, CpuWriteIs
  <2> QED  BY <2>1 DEF CpuState
<1>4. t = CpuWrite(u, n, size, rex, w)
  BY <1>1
<1>5. /\ t \in CpuState /\ t.cf = u.cf /\ t.zf = u.zf /\ t.sf = u.sf /\ t.of = u.of
      /\ t.pf = u.pf
  BY <1>2, <1>4, CpuWriteFlags
<1>6. t.reg = CpuPut(u.reg, n, size, rex, CpuUns(w, size))
  <2>1. t = [u EXCEPT !.reg = CpuPut(u.reg, n, size, rex, CpuUns(w, size))]
    BY <1>2, <1>4, CpuWriteIs
  <2> QED  BY <1>2, <2>1 DEF CpuState
<1> QED  BY <1>2, <1>3, <1>5, <1>6

LEMMA CpuXaddAgreed ==
  ASSUME NEW s \in CpuState, NEW i \in CpuInsns, i.op = "xadd"
  PROVE  CpuAgreed(s, i)
<1>1. CpuNamed(i.d, i.size, i.rex) /\ i.size \in CpuAllSizes
  BY CpuInsnParts
<1>2. CpuNamed(i.r, i.size, i.rex) /\ i.form = "reg"
  <2>1. i.op \notin CpuExtendOps /\ CpuForms(i.op) = {"reg"}
    BY DEF CpuExtendOps, CpuForms, CpuAluOps, CpuRotateOps, CpuShiftOps, CpuDoubleOps, CpuBitOps
  <2> QED  BY <2>1, CpuInsnSource, CpuInsnParts
<1>3. PICK a \in 0..CpuTop(i.size) - 1 : a \in Int /\ a = CpuRead(s, i.d, i.size, i.rex)
  BY <1>1, CpuReadIs
<1>4. PICK b \in 0..CpuTop(i.size) - 1 : b \in Int /\ b = CpuRead(s, i.r, i.size, i.rex)
  BY <1>2, CpuReadIs
<1>5. PICK r : r = ArchAluResult(i.op, a, b, 0, i.size)
  OBVIOUS
<1>6. PICK t : ArchAluParts(s, i.op, a, b, 0, i.size, r, t)
               /\ ArchAlu(s, i) = ArchAluWrites(s, i, a, r, t)
  <2>1. a = (CASE i.op = "neg" -> 0 [] OTHER -> CpuRead(s, i.d, i.size, i.rex))
    BY <1>3
  <2>2. b = ArchOperand(s, i)
    BY <1>2, <1>4 DEF ArchOperand
  <2>3. b = (CASE i.op = "neg" -> CpuRead(s, i.d, i.size, i.rex)
               [] i.op \in {"inc", "dec"} -> 1
               [] OTHER -> ArchOperand(s, i))
    BY <2>2
  <2>4. CpuCarryOf(s, i.op) = 0
    BY DEF CpuCarryOf
  <2> QED  BY <1>1, <1>3, <1>4, <1>5, <2>1, <2>3, <2>4, ArchAluIs
<1>7. PICK x : x = CpuAlu(s, "add", a, b, i.size)
  OBVIOUS
<1>8. /\ x.r = r /\ r \in Int /\ x.s \in CpuState /\ x.s.reg = s.reg
      /\ t \in CpuState /\ t.reg = s.reg
      /\ t.zf = x.s.zf /\ t.sf = x.s.sf /\ t.pf = x.s.pf /\ t.of = x.s.of
      /\ t.cf = x.s.cf
  <2>1. i.op \in {"inc", "dec", "neg", "xadd", "cmp"} /\ (i.op \in ArchAdds <=> "add" = "add")
        /\ i.op \notin {"inc", "dec"}
    BY DEF ArchAdds
  <2>2. ArchAluParts(s, i.op, a, b, 0, i.size, r, t)
    BY <1>6
  <2>3. PICK op \in {"add", "sub"} : op = "add"
    OBVIOUS
  <2>4. x = CpuAlu(s, op, a, b, i.size) /\ (i.op \in ArchAdds <=> op = "add")
    BY <1>7, <2>1, <2>3
  <2> QED  BY <1>1, <1>5, <2>1, <2>2, <2>4, CpuAluSame
<1>9. PICK y : y = CpuWrite(CpuWrite(x.s, i.d, i.size, i.rex, r), i.r, i.size, i.rex, a)
  OBVIOUS
<1>10. PICK z : z = CpuWrite(CpuWrite(t, i.r, i.size, i.rex, a), i.d, i.size, i.rex, r)
  OBVIOUS
<1>11. CpuDo(s, i) = y
  <2>1. CpuDo(s, i) = CpuDoXadd(s, i)
    BY CpuDoBy
  <2> QED  BY <1>3, <1>4, <1>7, <1>8, <1>9, <2>1 DEF CpuDoXadd
<1>12. Arch(s, i) = z
  <2>1. Arch(s, i) = ArchAlu(s, i)
    BY ArchBy
  <2> QED  BY <1>6, <1>10, <2>1 DEF ArchAluWrites
<1>13. /\ y \in CpuState /\ y.cf = x.s.cf /\ y.zf = x.s.zf /\ y.sf = x.s.sf /\ y.of = x.s.of
       /\ y.pf = x.s.pf
       /\ y.reg = CpuPut(CpuPut(x.s.reg, i.d, i.size, i.rex, CpuUns(r, i.size)), i.r, i.size,
                         i.rex, CpuUns(a, i.size))
  <2>1. PICK q \in CpuState : q = x.s
    BY <1>8
  <2>2. y = CpuWrite(CpuWrite(q, i.d, i.size, i.rex, r), i.r, i.size, i.rex, a)
    BY <1>9, <2>1
  <2>3. /\ y \in CpuState /\ y.cf = q.cf /\ y.zf = q.zf /\ y.sf = q.sf /\ y.of = q.of
        /\ y.pf = q.pf
        /\ y.reg = CpuPut(CpuPut(q.reg, i.d, i.size, i.rex, CpuUns(r, i.size)), i.r, i.size,
                          i.rex, CpuUns(a, i.size))
    BY <1>1, <1>2, <1>3, <1>8, <2>2, CpuWritesReg
  <2> QED  BY <2>1, <2>3
<1>14. /\ z \in CpuState /\ z.cf = t.cf /\ z.zf = t.zf /\ z.sf = t.sf /\ z.of = t.of
       /\ z.pf = t.pf
       /\ z.reg = CpuPut(CpuPut(t.reg, i.r, i.size, i.rex, CpuUns(a, i.size)), i.d, i.size,
                         i.rex, CpuUns(r, i.size))
  BY <1>1, <1>2, <1>3, <1>8, <1>10, CpuWritesReg
<1>15. i.d # i.r => y.reg = z.reg
  <2> HAVE i.d # i.r
  <2>1. CpuUns(r, i.size) \in 0..CpuTop(i.size) - 1 /\ CpuUns(a, i.size) \in 0..CpuTop(i.size) - 1
    BY <1>1, <1>3, <1>8, CpuUnsTyped
  <2>2. s.reg \in [CpuRegs -> 0..CpuTop(8) - 1]
    BY CpuStateParts
  <2> QED  BY <1>1, <1>2, <1>8, <1>13, <1>14, <2>1, <2>2, CpuPutCommutes
<1>16. "regs" \in CpuKept(s, i) => i.d # i.r
  <2>1. ASSUME i.d = i.r
        PROVE  CpuMisses(s, i) = {"regs"}
    BY <2>1 DEF CpuMisses
  <2> QED  BY <2>1 DEF CpuKept
<1> QED  BY <1>8, <1>11, <1>12, <1>13, <1>14, <1>15, <1>16, CpuAgreedBy

-----------------------------------------------------------------------------
(* Compare and exchange.                                                    *)

LEMMA CpuCmpxchgAgreed ==
  ASSUME NEW s \in CpuState, NEW i \in CpuInsns, i.op = "cmpxchg"
  PROVE  CpuAgreed(s, i)
<1>1. CpuNamed(i.d, i.size, i.rex) /\ i.size \in CpuAllSizes /\ i.rex \in BOOLEAN
  BY CpuInsnParts
<1>2. CpuNamed(i.r, i.size, i.rex) /\ i.form = "reg" /\ CpuNamed(0, i.size, i.rex)
  <2>1. i.op \notin CpuExtendOps /\ CpuForms(i.op) = {"reg"}
    BY DEF CpuExtendOps, CpuForms, CpuAluOps, CpuRotateOps, CpuShiftOps, CpuDoubleOps, CpuBitOps
  <2> QED  BY <1>1, <2>1, CpuInsnSource, CpuInsnParts, CpuNamedLow
<1>3. PICK acc \in 0..CpuTop(i.size) - 1 : acc \in Int /\ acc = CpuRead(s, 0, i.size, i.rex)
  BY <1>2, CpuReadIs
<1>4. PICK dst \in 0..CpuTop(i.size) - 1 : dst \in Int /\ dst = CpuRead(s, i.d, i.size, i.rex)
  BY <1>1, CpuReadIs
<1>5. PICK src \in Int : src = CpuRead(s, i.r, i.size, i.rex)
  BY <1>2, CpuReadIs
<1>6. PICK e : e = [i EXCEPT !.op = "cmp", !.d = 0, !.r = i.d]
  OBVIOUS
<1>7. e.op = "cmp" /\ e.d = 0 /\ e.r = i.d /\ e.size = i.size /\ e.rex = i.rex /\ e.form = i.form
  BY <1>6 DEF CpuInsns
<1>8. PICK r : r = ArchAluResult(e.op, acc, dst, 0, i.size)
  OBVIOUS
<1>9. PICK t : ArchAluParts(s, e.op, acc, dst, 0, i.size, r, t) /\ ArchAlu(s, e) = t
  <2>1. acc = (CASE e.op = "neg" -> 0 [] OTHER -> CpuRead(s, e.d, e.size, e.rex))
    BY <1>3, <1>7
  <2>2. dst = ArchOperand(s, e)
    BY <1>2, <1>4, <1>7 DEF ArchOperand
  <2>3. dst = (CASE e.op = "neg" -> CpuRead(s, e.d, e.size, e.rex)
                 [] e.op \in {"inc", "dec"} -> 1
                 [] OTHER -> ArchOperand(s, e))
    BY <1>7, <2>2
  <2>4. CpuCarryOf(s, e.op) = 0
    BY <1>7 DEF CpuCarryOf
  <2>5. PICK t : ArchAluParts(s, e.op, acc, dst, 0, e.size, r, t)
                 /\ ArchAlu(s, e) = ArchAluWrites(s, e, acc, r, t)
    BY <1>1, <1>3, <1>4, <1>7, <1>8, <2>1, <2>3, <2>4, ArchAluIs
  <2> QED  BY <1>7, <2>5 DEF ArchAluWrites
<1>10. t \in CpuState /\ t.reg = s.reg /\ t.zf = (r = 0)
  BY <1>9, Zenon DEF ArchAluParts
<1>11. PICK equal \in BOOLEAN : equal = (dst = acc)
  OBVIOUS
<1>12. t.zf = equal
  <2>1. r = CpuUns(acc - dst, i.size)
    <3>1. "cmp" \notin CpuLogicOps /\ "cmp" \notin ArchAdds
      BY DEF CpuLogicOps, ArchAdds
    <3>2. r = CpuUns(acc - dst - 0, i.size)
      BY <1>7, <1>8, <3>1 DEF ArchAluResult
    <3>3. acc - dst - 0 = acc - dst
      BY <1>3, <1>4
    <3> QED  BY <3>2, <3>3
  <2>2. PICK T \in Nat \ {0} : T = CpuTop(i.size)
    BY <1>1, CpuTops
  <2>3. CASE acc >= dst
    <3>1. acc - dst \in 0..T - 1 /\ acc - dst \in Int
      BY <1>3, <1>4, <2>2, <2>3
    <3>2. r = acc - dst
      BY <1>1, <2>1, <2>2, <3>1, CpuUnsIs
    <3> QED  BY <1>3, <1>4, <1>10, <1>11, <3>2
  <2>4. CASE acc < dst
    <3>1. acc - dst + T \in 0..T - 1 /\ acc - dst + T \in Int /\ acc - dst \in Int
          /\ acc - dst = (acc - dst + T) + T * (-1) /\ acc - dst + T # 0
      BY <1>3, <1>4, <2>2, <2>4
    <3>2. CpuUns(acc - dst, i.size) = CpuUns(acc - dst + T, i.size)
      BY <1>1, <2>2, <3>1, CpuUnsSame
    <3>3. r = acc - dst + T
      BY <1>1, <2>1, <2>2, <3>1, <3>2, CpuUnsIs
    <3> QED  BY <1>3, <1>4, <1>10, <1>11, <2>4, <3>1, <3>3
  <2> QED  BY <1>3, <1>4, <2>3, <2>4
<1>13. PICK u : u = [s EXCEPT !.zf = equal]
  OBVIOUS
<1>14. u \in CpuState /\ u.reg = s.reg /\ u.zf = equal
  BY <1>13 DEF CpuState
<1>15. PICK n : /\ CpuNamed(n, i.size, i.rex) /\ n = IF equal THEN i.d ELSE 0
  BY <1>1, <1>2
<1>16. PICK v \in Int : v = IF equal THEN src ELSE dst
  BY <1>4, <1>5
<1>17. PICK y : y = CpuWrite(u, n, i.size, i.rex, v)
  OBVIOUS
<1>18. PICK z : z = CpuWrite(t, n, i.size, i.rex, v)
  OBVIOUS
<1>19. CpuDo(s, i) = y
  <2>1. CpuDo(s, i) = CpuDoCmpxchg(s, i)
    BY CpuDoBy
  <2>2. CpuDoCmpxchg(s, i) = (IF equal THEN CpuWrite(u, i.d, i.size, i.rex, src)
                              ELSE CpuWrite(u, 0, i.size, i.rex, dst))
    BY <1>3, <1>4, <1>5, <1>11, <1>13, Zenon DEF CpuDoCmpxchg
  <2> QED  BY <1>15, <1>16, <1>17, <2>1, <2>2
<1>20. Arch(s, i) = z
  <2>1. Arch(s, i) = ArchCmpxchg(s, i)
    BY ArchBy
  <2>2. ArchCmpxchg(s, i) = (IF equal THEN CpuWrite(t, i.d, i.size, i.rex, src)
                             ELSE CpuWrite(t, 0, i.size, i.rex, dst))
    BY <1>3, <1>4, <1>5, <1>6, <1>9, <1>11, Zenon DEF ArchCmpxchg
  <2> QED  BY <1>15, <1>16, <1>18, <2>1, <2>2
<1>21. y \in CpuState /\ y.zf = equal
  <2>1. y \in CpuState /\ y.zf = u.zf
    <3>1. u \in CpuState
      BY <1>14
    <3> QED  BY <1>15, <1>17, <3>1, CpuWriteFlags
  <2> QED  BY <1>14, <2>1
<1>22. z \in CpuState /\ z.zf = equal
  <2>1. z \in CpuState /\ z.zf = t.zf
    <3>1. t \in CpuState
      BY <1>10
    <3> QED  BY <1>15, <1>18, <3>1, CpuWriteFlags
  <2> QED  BY <1>12, <2>1
<1>23. y.reg = z.reg
  BY <1>1, <1>10, <1>14, <1>15, <1>17, <1>18, CpuWriteSame
<1>24. CpuKept(s, i) \subseteq {"regs", "zf"}
  <2>1. CpuMisses(s, i) = CpuFlags \ {"zf"}
    BY DEF CpuMisses
  <2>2. CpuKept(s, i) \subseteq {"regs"} \cup CpuFlags
    BY CpuKeptKnown
  <2> QED  BY <2>1, <2>2 DEF CpuKept
<1> QED  BY <1>19, <1>20, <1>21, <1>22, <1>23, <1>24, CpuAgreedBy

-----------------------------------------------------------------------------
(* Widening.                                                                *)

LEMMA CpuWidenAgreed ==
  ASSUME NEW s \in CpuState, NEW i \in CpuInsns, i.op \in CpuWidenOps
  PROVE  CpuAgreed(s, i)
<1>1. i.size \in {2, 4, 8} /\ i.rex \in BOOLEAN
  BY CpuInsnParts DEF CpuSizes, CpuWidenOps, CpuDoubleOps, CpuScanOps, CpuBitOps, CpuExtendOps
<1>2. i.size \in CpuAllSizes /\ 0 \in CpuRegs /\ 2 \in CpuRegs
  BY <1>1 DEF CpuAllSizes, CpuRegs
<1>3. CpuNamed(0, i.size, TRUE) /\ CpuNamed(2, i.size, TRUE)
  BY <1>2, CpuNamedLow
<1>4. PICK a \in Nat : a = s.reg[0] /\ a \in 0..CpuTop(8) - 1
  BY <1>2, CpuStateRegs
<1>5. CpuDo(s, i) = CpuDoWiden(s, i) /\ Arch(s, i) = ArchExtend(s, i)
  BY CpuDoBy, ArchBy
<1>6. CASE i.op = "cdq"
  <2>15. PICK yes \in BOOLEAN : yes = TRUE
    OBVIOUS
  <2>1. PICK x \in Int : x = CpuSgn(a, i.size) /\ -CpuSign(i.size) <= x /\ x < CpuSign(i.size)
    BY <1>2, <1>4, CpuSgnIs
  <2>2. PICK S \in Nat \ {0} : S = CpuSign(i.size) /\ CpuTop(i.size) = 2 * S
    BY <1>2, CpuTops
  <2>3. PICK v \in Int : v = IF x < 0 THEN 2 * S - 1 ELSE 0
    OBVIOUS
  <2>4. PICK w \in Int : w = IF x < 0 THEN -1 ELSE 0
    OBVIOUS
  <2>5. x \div CpuTop(i.size) = w
    <3>1. CASE x < 0
      <4>1. x = 2 * S * (-1) + (x + 2 * S) /\ 0 <= x + 2 * S /\ x + 2 * S < 2 * S
        BY <2>1, <2>2, <3>1
      <4>2. PICK T \in Nat \ {0} : T = 2 * S
        BY <2>2
      <4>3. (T * (-1) + (x + T)) \div T = -1
        BY <4>1, <4>2, DividedOnce
      <4> QED  BY <2>2, <2>4, <3>1, <4>1, <4>2, <4>3
    <3>2. CASE ~(x < 0)
      <4>1. PICK T \in Nat \ {0} : T = 2 * S
        BY <2>2
      <4>2. x = T * 0 + x /\ 0 <= x /\ x < T
        BY <2>1, <2>2, <3>2, <4>1
      <4>3. (T * 0 + x) \div T = 0
        BY <4>2, DividedOnce
      <4> QED  BY <2>2, <2>4, <3>2, <4>1, <4>2, <4>3
    <3> QED  BY <3>1, <3>2
  <2>6. PICK y : y = CpuWrite(s, 2, i.size, yes, v)
    OBVIOUS
  <2>7. PICK z : z = CpuWrite(s, 2, i.size, yes, w)
    OBVIOUS
  <2>8. CpuDo(s, i) = y
    <3>1. CpuDoWiden(s, i) = CpuWrite(s, 2, i.size, TRUE,
                               IF CpuSgn(s.reg[0], i.size) < 0 THEN CpuTop(i.size) - 1 ELSE 0)
      BY <1>6 DEF CpuDoWiden
    <3> QED  BY <1>4, <1>5, <2>1, <2>2, <2>3, <2>6, <2>15, <3>1
  <2>9. Arch(s, i) = z
    <3>1. ArchExtend(s, i) = CpuWrite(s, 2, i.size, TRUE,
                               CpuSgn(s.reg[0], i.size) \div CpuTop(i.size))
      BY <1>6 DEF ArchExtend
    <3> QED  BY <1>4, <1>5, <2>1, <2>5, <2>7, <2>15, <3>1
  <2>10. CpuUns(v, i.size) = CpuUns(w, i.size)
    <3>1. CASE x < 0
      <4>1. v = w + CpuTop(i.size) * 1
        BY <2>2, <2>3, <2>4, <3>1
      <4> QED  BY <1>2, <4>1, CpuUnsSame
    <3>2. CASE ~(x < 0)
      BY <2>3, <2>4, <3>2
    <3> QED  BY <3>1, <3>2
  <2>14. CpuNamed(2, i.size, yes)
    BY <1>2, CpuNamedLow
  <2>11. y.reg = z.reg
    BY <1>2, <2>6, <2>7, <2>10, <2>14, CpuWriteSame
  <2>12. y \in CpuState /\ y.cf = s.cf /\ y.zf = s.zf /\ y.sf = s.sf /\ y.of = s.of /\ y.pf = s.pf
    BY <2>6, <2>14, CpuWriteFlags
  <2>13. z \in CpuState /\ z.cf = s.cf /\ z.zf = s.zf /\ z.sf = s.sf /\ z.of = s.of /\ z.pf = s.pf
    BY <2>7, <2>14, CpuWriteFlags
  <2> QED  BY <2>8, <2>9, <2>11, <2>12, <2>13, CpuAgreedBy
<1>7. CASE i.op = "cdqe" /\ i.size = 8
  <2>1. PICK x \in Int : x = CpuSgn(a, 4)
    <3>1. 4 \in CpuAllSizes /\ a \in Int
      BY DEF CpuAllSizes
    <3>2. CpuSgn(a, 4) \in Int
      BY <3>1, CpuSgnIs
    <3> QED  BY <3>2
  <2>2. PICK u \in 0..CpuTop(8) - 1 : u = CpuUns(x, 8)
    BY CpuUnsTyped DEF CpuAllSizes
  <2>3. CpuDo(s, i) = [s EXCEPT !.reg[0] = u]
    <3>1. CpuDoWiden(s, i) = CpuSet(s, 0, CpuSx(s.reg[0], 4))
      BY <1>7 DEF CpuDoWiden
    <3> QED  BY <1>4, <1>5, <2>1, <2>2, <3>1 DEF CpuSet, CpuSx
  <2>4. Arch(s, i) = CpuWrite(s, 0, 8, TRUE, x)
    <3>1. ArchExtend(s, i) = CpuWrite(s, 0, i.size, TRUE, CpuSgn(s.reg[0], i.size \div 2))
      BY <1>7 DEF ArchExtend
    <3>2. 8 \div 2 = 4
      OBVIOUS
    <3> QED  BY <1>4, <1>5, <1>7, <2>1, <3>1, <3>2
  <2>5. CpuWrite(s, 0, 8, TRUE, x) = [s EXCEPT !.reg[0] = u]
    BY <2>2, Zenon DEF CpuWrite
  <2>6. CpuDo(s, i) \in CpuState
    BY <1>2, <2>3, CpuSetIs DEF CpuSet
  <2> QED  BY <2>3, <2>4, <2>5, <2>6, CpuAgreedBy
<1>8. CASE i.op = "cdqe" /\ i.size = 4
  <2>1. PICK x \in Int : x = CpuSgn(a, 2)
    BY <1>4, CpuSgnIs DEF CpuAllSizes
  <2>2. CpuDo(s, i) = CpuWrite(s, 0, 4, i.rex, x)
    <3>1. CpuDoWiden(s, i) = CpuWrite(s, 0, 4, i.rex, CpuSgn(s.reg[0], 2))
      BY <1>8 DEF CpuDoWiden
    <3> QED  BY <1>4, <1>5, <2>1, <3>1
  <2>3. Arch(s, i) = CpuWrite(s, 0, 4, TRUE, x)
    <3>1. ArchExtend(s, i) = CpuWrite(s, 0, i.size, TRUE, CpuSgn(s.reg[0], i.size \div 2))
      BY <1>8 DEF ArchExtend
    <3>2. 4 \div 2 = 2
      OBVIOUS
    <3> QED  BY <1>4, <1>5, <1>8, <2>1, <3>1, <3>2
  <2>4. CpuWrite(s, 0, 4, TRUE, x) = CpuWrite(s, 0, 4, i.rex, x)
    BY SMT DEF CpuWrite
  <2>5. CpuWrite(s, 0, 4, TRUE, x) \in CpuState
    BY <1>3, <1>8, CpuWriteFlags
  <2> QED  BY <2>2, <2>3, <2>4, <2>5, CpuAgreedBy
<1>9. CASE i.op = "cdqe" /\ i.size = 2
  <2>1. PICK x \in Int : x = CpuSgn(a, 2)
    BY <1>4, CpuSgnIs DEF CpuAllSizes
  <2>2. PICK w \in Int : w = CpuSgn(a, 1)
    BY <1>4, CpuSgnIs DEF CpuAllSizes
  <2>3. CpuNamed(0, 4, i.rex)
    BY <1>1, CpuNamedLow DEF CpuAllSizes
  <2>4. PICK y : y = CpuWrite(s, 0, 4, i.rex, x)
    OBVIOUS
  <2>5. PICK z : z = CpuWrite(s, 0, 2, TRUE, w)
    OBVIOUS
  <2>6. CpuDo(s, i) = y
    <3>1. CpuDoWiden(s, i) = CpuWrite(s, 0, 4, i.rex, CpuSgn(s.reg[0], 2))
      BY <1>9 DEF CpuDoWiden
    <3> QED  BY <1>4, <1>5, <2>1, <2>4, <3>1
  <2>7. Arch(s, i) = z
    <3>1. ArchExtend(s, i) = CpuWrite(s, 0, i.size, TRUE, CpuSgn(s.reg[0], i.size \div 2))
      BY <1>9 DEF ArchExtend
    <3>2. 2 \div 2 = 1
      OBVIOUS
    <3> QED  BY <1>4, <1>5, <1>9, <2>2, <2>5, <3>1, <3>2
  <2>8. y \in CpuState /\ y.cf = s.cf /\ y.zf = s.zf /\ y.sf = s.sf /\ y.of = s.of /\ y.pf = s.pf
    BY <2>3, <2>4, CpuWriteFlags
  <2>9. z \in CpuState /\ z.cf = s.cf /\ z.zf = s.zf /\ z.sf = s.sf /\ z.of = s.of /\ z.pf = s.pf
    <3>1. PICK yes \in BOOLEAN : yes = TRUE
      OBVIOUS
    <3>2. CpuNamed(0, 2, yes)
      BY CpuNamedLow DEF CpuAllSizes
    <3>3. z = CpuWrite(s, 0, 2, yes, w)
      BY <2>5, <3>1
    <3> QED  BY <3>2, <3>3, CpuWriteFlags
  <2>10. "regs" \notin CpuKept(s, i)
    <3>1. CpuMisses(s, i) = {"regs"}
      BY <1>9 DEF CpuMisses
    <3> QED  BY <3>1 DEF CpuKept
  <2> QED  BY <2>6, <2>7, <2>8, <2>9, <2>10, CpuAgreedBy
<1> QED  BY <1>1, <1>6, <1>7, <1>8, <1>9 DEF CpuWidenOps

-----------------------------------------------------------------------------
(* Conditional moves.                                                       *)

LEMMA CpuConds ==
  ASSUME NEW s \in CpuState, NEW cc \in 0..15
  PROVE  \E holds \in BOOLEAN :
           /\ CpuCond(s, cc) = IF cc % 2 = 0 THEN holds ELSE ~holds
           /\ CpuCond(s, cc - (cc % 2)) = holds
           /\ holds = CASE cc \in {0, 1} -> s.of [] cc \in {2, 3} -> s.cf [] cc \in {4, 5} -> s.zf
                        [] cc \in {6, 7} -> (s.cf \/ s.zf) [] cc \in {8, 9} -> s.sf
                        [] cc \in {10, 11} -> s.pf
                        [] cc \in 12..15 -> (s.zf \/ (s.sf # s.of))
<1> DEFINE pair == cc \div 2
           holds == CASE pair = 0 -> s.of [] pair = 1 -> s.cf [] pair = 2 -> s.zf
                      [] pair = 3 -> s.cf \/ s.zf [] pair = 4 -> s.sf [] pair = 5 -> s.pf
                      [] pair \in {6, 7} -> s.zf \/ (s.sf # s.of)
           even == cc - (cc % 2)
<1>1. pair \in 0..7 /\ even \in 0..14 /\ even % 2 = 0 /\ even \div 2 = pair
      /\ (cc \in {0, 1} <=> pair = 0) /\ (cc \in {2, 3} <=> pair = 1) /\ (cc \in {4, 5} <=> pair = 2)
      /\ (cc \in {6, 7} <=> pair = 3) /\ (cc \in {8, 9} <=> pair = 4)
      /\ (cc \in {10, 11} <=> pair = 5) /\ (cc \in 12..15 <=> pair \in {6, 7})
  OBVIOUS
<1>2. s.cf \in BOOLEAN /\ s.zf \in BOOLEAN /\ s.sf \in BOOLEAN /\ s.of \in BOOLEAN /\ s.pf \in BOOLEAN
  BY CpuStateParts
<1>3. CpuCond(s, cc) = IF cc % 2 = 0 THEN holds ELSE ~holds
  BY Zenon DEF CpuCond
<1>4. CpuCond(s, even) = holds
  <2> DEFINE other(k) == CASE k = 0 -> s.of [] k = 1 -> s.cf [] k = 2 -> s.zf
                           [] k = 3 -> s.cf \/ s.zf [] k = 4 -> s.sf [] k = 5 -> s.pf
                           [] k \in {6, 7} -> s.zf \/ (s.sf # s.of)
  <2> HIDE DEF even
  <2>1. CpuCond(s, even) = IF even % 2 = 0 THEN other(even \div 2) ELSE ~other(even \div 2)
    BY Zenon DEF CpuCond
  <2>2. holds = other(pair)
    BY Zenon
  <2> HIDE DEF other, holds, pair
  <2> QED  BY <1>1, <2>1, <2>2
<1>5. holds = CASE cc \in {0, 1} -> s.of [] cc \in {2, 3} -> s.cf [] cc \in {4, 5} -> s.zf
                [] cc \in {6, 7} -> (s.cf \/ s.zf) [] cc \in {8, 9} -> s.sf
                [] cc \in {10, 11} -> s.pf
                [] cc \in 12..15 -> (s.zf \/ (s.sf # s.of))
  <2>1. PICK k \in 0..7 : k = pair
    BY <1>1
  <2> DEFINE with == CASE k = 0 -> s.of [] k = 1 -> s.cf [] k = 2 -> s.zf
                       [] k = 3 -> s.cf \/ s.zf [] k = 4 -> s.sf [] k = 5 -> s.pf
                       [] k \in {6, 7} -> s.zf \/ (s.sf # s.of)
  <2>2. holds = with
    BY <2>1, Zenon
  <2>3. with = CASE cc \in {0, 1} -> s.of [] cc \in {2, 3} -> s.cf [] cc \in {4, 5} -> s.zf
                 [] cc \in {6, 7} -> (s.cf \/ s.zf) [] cc \in {8, 9} -> s.sf
                 [] cc \in {10, 11} -> s.pf
                 [] cc \in 12..15 -> (s.zf \/ (s.sf # s.of))
    <3>2. CASE k = 0
      BY <1>1, <2>1, <3>2
    <3>3. CASE k = 1
      BY <1>1, <2>1, <3>3
    <3>4. CASE k = 2
      BY <1>1, <2>1, <3>4
    <3>5. CASE k = 3
      BY <1>1, <2>1, <3>5
    <3>6. CASE k = 4
      BY <1>1, <2>1, <3>6
    <3>7. CASE k = 5
      BY <1>1, <2>1, <3>7
    <3>8. CASE k = 6
      BY <1>1, <2>1, <3>8
    <3>9. CASE k = 7
      BY <1>1, <2>1, <3>9
    <3> QED  BY <3>2, <3>3, <3>4, <3>5, <3>6, <3>7, <3>8, <3>9
  <2> HIDE DEF holds, with
  <2> QED  BY <2>2, <2>3
<1>6. holds \in BOOLEAN
  <2>1. PICK k \in 0..7 : k = pair
    BY <1>1
  <2> HIDE DEF pair
  <2>2. k = 0 \/ k = 1 \/ k = 2 \/ k = 3 \/ k = 4 \/ k = 5 \/ k = 6 \/ k = 7
    OBVIOUS
  <2> QED  BY <1>2, <2>1, <2>2
<1> HIDE DEF holds
<1> QED  BY <1>3, <1>4, <1>5, <1>6

LEMMA CpuWriteBack ==
  ASSUME NEW s \in CpuState, NEW n, NEW size, NEW rex, CpuNamed(n, size, rex), size \in {2, 8}
  PROVE  CpuWrite(s, n, size, rex, CpuRead(s, n, size, rex)) = s
<1>1. n \in CpuRegs
  BY CpuNamedIs
<1>2. PICK old \in Nat : old = s.reg[n] /\ old \in 0..CpuTop(8) - 1
  BY <1>1, CpuStateRegs
<1>3. CpuRead(s, n, size, rex) = CpuUns(old, size)
  BY <1>2 DEF CpuRead
<1>4. PICK u \in Int : u = CpuUns(old, size) /\ CpuUns(u, size) = u
  <2>1. size \in CpuAllSizes /\ old \in Int
    BY DEF CpuAllSizes
  <2> QED  BY <2>1, CpuUnsIs
<1>5. size \in {4, 8} => u = old
  <2>1. CpuUns(old, 8) = old
    <3>1. 8 \in CpuAllSizes /\ old \in Int
      BY DEF CpuAllSizes
    <3> QED  BY <1>2, <3>1, CpuUnsIs, Zenon
  <2> QED  BY <1>4, <2>1
<1>6. (IF size \in {4, 8} THEN CpuUns(u, size) ELSE old - CpuUns(old, size) + CpuUns(u, size)) = old
  BY <1>2, <1>4, <1>5
<1>7. CpuWrite(s, n, size, rex, u) =
        [s EXCEPT !.reg[n] = IF size \in {4, 8} THEN CpuUns(u, size)
                             ELSE old - CpuUns(old, size) + CpuUns(u, size)]
  BY <1>2 DEF CpuWrite
<1>8. CpuWrite(s, n, size, rex, u) = [s EXCEPT !.reg[n] = old]
  BY <1>6, <1>7
<1>9. s.reg = [s.reg EXCEPT ![n] = old]
  BY <1>1, <1>2 DEF CpuState
<1>10. [s EXCEPT !.reg[n] = old] = s
  BY <1>9 DEF CpuState
<1> QED  BY <1>3, <1>4, <1>8, <1>10

LEMMA CpuCmovAgreed ==
  ASSUME NEW s \in CpuState, NEW i \in CpuInsns, i.op = "cmov"
  PROVE  CpuAgreed(s, i)
<1>1. CpuNamed(i.d, i.size, i.rex) /\ CpuNamed(i.r, i.size, i.rex) /\ i.size \in {2, 4, 8}
      /\ i.cc \in 0..15
  <2>1. i.op \notin CpuExtendOps /\ CpuSizes(i.op) = {2, 4, 8}
    BY DEF CpuExtendOps, CpuSizes, CpuDoubleOps, CpuScanOps, CpuBitOps, CpuWidenOps
  <2> QED  BY <2>1, CpuInsnParts, CpuInsnSource
<1>2. PICK a \in Int : a = CpuRead(s, i.d, i.size, i.rex)
  BY <1>1, CpuReadIs
<1>3. PICK b \in Int : b = CpuRead(s, i.r, i.size, i.rex)
  BY <1>1, CpuReadIs
<1>4. PICK moves \in BOOLEAN : moves = CpuCond(s, i.cc)
  <2>1. PICK holds \in BOOLEAN :
          CpuCond(s, i.cc) = IF i.cc % 2 = 0 THEN holds ELSE ~holds
    BY <1>1, CpuConds, Zenon
  <2>2. CpuCond(s, i.cc) \in BOOLEAN
    BY <2>1, Zenon
  <2> QED  BY <2>2
<1>5. PICK taken \in BOOLEAN :
        taken = ((CASE i.cc \div 2 = 6 -> s.sf # s.of [] OTHER -> CpuCond(s, i.cc - (i.cc % 2)))
                   = (i.cc % 2 = 0))
  OBVIOUS
<1>6. i.cc \notin {12, 13} => taken = moves
  <2> HAVE i.cc \notin {12, 13}
  <2>1. i.cc \div 2 # 6
    BY <1>1
  <2>2. PICK holds \in BOOLEAN : /\ CpuCond(s, i.cc) = IF i.cc % 2 = 0 THEN holds ELSE ~holds
                                 /\ CpuCond(s, i.cc - (i.cc % 2)) = holds
    BY <1>1, CpuConds
  <2>3. taken = (holds = (i.cc % 2 = 0))
    BY <1>5, <2>1, <2>2
  <2>4. CASE i.cc % 2 = 0
    BY <1>4, <2>2, <2>3, <2>4
  <2>5. CASE i.cc % 2 # 0
    BY <1>4, <2>2, <2>3, <2>5
  <2> QED  BY <2>4, <2>5
<1>7. PICK y : y = CpuWrite(s, i.d, i.size, i.rex, b)
  OBVIOUS
<1>8. PICK z : z = CpuWrite(s, i.d, i.size, i.rex, a)
  OBVIOUS
<1>9. CpuDo(s, i) = IF moves THEN y ELSE s
  <2>1. CpuDo(s, i) = CpuDoCmov(s, i)
    BY CpuDoBy
  <2> QED  BY <1>3, <1>4, <1>7, <2>1 DEF CpuDoCmov
<1>10. Arch(s, i) = IF taken THEN y ELSE z
  <2>1. Arch(s, i) = ArchCmov(s, i)
    BY ArchBy
  <2>2. PICK from : from = IF taken THEN i.r ELSE i.d
    OBVIOUS
  <2>3. ArchCmov(s, i) = CpuWrite(s, i.d, i.size, i.rex, CpuRead(s, from, i.size, i.rex))
    BY <1>5, <2>2, Zenon DEF ArchCmov
  <2> QED  BY <1>2, <1>3, <1>7, <1>8, <2>1, <2>2, <2>3
<1>11. y \in CpuState /\ y.cf = s.cf /\ y.zf = s.zf /\ y.sf = s.sf /\ y.of = s.of /\ y.pf = s.pf
  <2>1. CpuNamed(i.d, i.size, i.rex)
    BY <1>1
  <2> QED  BY <1>3, <1>7, <2>1, CpuWriteFlags
<1>12. z \in CpuState /\ z.cf = s.cf /\ z.zf = s.zf /\ z.sf = s.sf /\ z.of = s.of /\ z.pf = s.pf
  <2>1. CpuNamed(i.d, i.size, i.rex)
    BY <1>1
  <2> QED  BY <1>2, <1>8, <2>1, CpuWriteFlags
<1>13. PICK t \in CpuState : /\ t = CpuDo(s, i) /\ t.cf = s.cf /\ t.zf = s.zf /\ t.sf = s.sf
                             /\ t.of = s.of /\ t.pf = s.pf
  BY <1>9, <1>11
<1>14. PICK u \in CpuState : /\ u = Arch(s, i) /\ u.cf = s.cf /\ u.zf = s.zf /\ u.sf = s.sf
                             /\ u.of = s.of /\ u.pf = s.pf
  BY <1>10, <1>11, <1>12
<1>15. "regs" \in CpuKept(s, i) => t.reg = u.reg
  <2> HAVE "regs" \in CpuKept(s, i)
  <2>1. i.cc \notin {12, 13} /\ i.size # 4
    <3>1. CpuMisses(s, i) = IF i.cc \in {12, 13} \/ i.size = 4 THEN {"regs"} ELSE {}
      BY DEF CpuMisses
    <3> QED  BY <3>1 DEF CpuKept
  <2>2. z = s
    <3>1. i.size \in {2, 8}
      BY <1>1, <2>1
    <3> QED  BY <1>1, <1>2, <1>8, <3>1, CpuWriteBack
  <2> QED  BY <1>6, <1>9, <1>10, <1>13, <1>14, <2>1, <2>2
<1> QED  BY <1>13, <1>14, <1>15, CpuAgreedBy

-----------------------------------------------------------------------------
(* The multiplication with two and three operands.                          *)

LEMMA CpuImulAgreed ==
  ASSUME NEW s \in CpuState, NEW i \in CpuInsns, i.op = "imul2"
  PROVE  CpuAgreed(s, i)
<1>1. CpuNamed(i.d, i.size, i.rex) /\ CpuNamed(i.r, i.size, i.rex) /\ i.size \in CpuAllSizes
  <2>1. i.op \notin CpuExtendOps
    BY DEF CpuExtendOps
  <2> QED  BY <2>1, CpuInsnParts, CpuInsnSource
<1>2. PICK x \in Int : x = CpuSgn(CpuRead(s, i.r, i.size, i.rex), i.size)
  <2>1. CpuRead(s, i.r, i.size, i.rex) \in Int
    BY <1>1, CpuReadIs
  <2> QED  BY <1>1, <2>1, CpuSgnIs
<1>3. PICK b \in Int : b = IF i.form = "reg" THEN CpuRead(s, i.d, i.size, i.rex) ELSE CpuOperand(s, i)
  <2>1. CpuRead(s, i.d, i.size, i.rex) \in Int /\ CpuOperand(s, i) \in Int
    BY <1>1, CpuReadIs, CpuOperandExact DEF CpuShort
  <2> QED  BY <2>1
<1>4. PICK c \in Int : c = (IF i.form = "reg" THEN CpuRead(s, i.d, i.size, i.rex) ELSE ArchOperand(s, i))
                       /\ c = CpuUns(b, i.size)
  <2>1. CASE i.form = "reg"
    BY <1>1, <1>3, <2>1, CpuReadIs
  <2>2. CASE i.form # "reg"
    BY <1>3, <2>2, CpuOperandExact DEF CpuShort
  <2> QED  BY <2>1, <2>2
<1>5. PICK y \in Int : y = CpuSgn(c, i.size)
  BY <1>1, CpuSgnIs
<1>6. CpuUns(x * b, i.size) = CpuUns(x * y, i.size)
  <2>1. CpuUns(b, i.size) = CpuUns(y, i.size)
    <3>1. CpuUns(y, i.size) = CpuUns(c, i.size)
      BY <1>1, <1>5, CpuSgnIs
    <3>2. CpuUns(c, i.size) = CpuUns(b, i.size)
      BY <1>1, <1>4, CpuUnsIs
    <3> QED  BY <3>1, <3>2
  <2>2. PICK T \in Nat \ {0} : T = CpuTop(i.size)
    BY <1>1, CpuTops
  <2>3. PICK k \in Int : b = CpuUns(b, i.size) + T * k
    BY <1>1, <2>2, CpuUnsIs
  <2>4. PICK l \in Int : y = CpuUns(b, i.size) + T * l
    BY <1>1, <2>1, <2>2, CpuUnsIs
  <2>5. b = y + T * (k - l)
    <3>1. PICK u \in Int : u = CpuUns(b, i.size)
      BY <1>1, CpuUnsTyped
    <3> QED  BY <2>3, <2>4, <3>1
  <2>6. PICK m \in Int : m = k - l
    OBVIOUS
  <2>7. x * b = x * y + T * (x * m)
    BY <2>5, <2>6
  <2>8. x * m \in Int /\ x * b \in Int /\ x * y \in Int
    OBVIOUS
  <2> QED  BY <1>1, <2>2, <2>7, <2>8, CpuUnsSame
<1>7. PICK p \in Int : p = x * b
  OBVIOUS
<1>8. PICK q \in Int : q = x * y
  OBVIOUS
<1>9. PICK t : t = CpuWrite(s, i.d, i.size, i.rex, p)
  OBVIOUS
<1>10. PICK u : u = CpuWrite(s, i.d, i.size, i.rex, q)
  OBVIOUS
<1>11. CpuDo(s, i) = t
  <2>1. CpuDo(s, i) = CpuDoImul(s, i)
    BY CpuDoBy
  <2> QED  BY <1>2, <1>3, <1>7, <1>9, <2>1 DEF CpuDoImul
<1>12. PICK wide \in BOOLEAN : wide = (q \notin -CpuSign(i.size)..CpuSign(i.size) - 1)
  OBVIOUS
<1>13. PICK v : v = [u EXCEPT !.cf = wide, !.of = wide]
  OBVIOUS
<1>14. Arch(s, i) = v
  <2>1. Arch(s, i) = ArchImul(s, i)
    BY ArchBy
  <2>2. ArchImul(s, i) = [u EXCEPT !.cf = wide, !.of = wide]
    BY <1>2, <1>4, <1>5, <1>8, <1>10, <1>12, Zenon DEF ArchImul
  <2> QED  BY <1>13, <2>1, <2>2
<1>15. t \in CpuState
  BY <1>1, <1>9, CpuWriteFlags
<1>16. u \in CpuState /\ t.reg = u.reg
  <2>1. u \in CpuState
    BY <1>1, <1>10, CpuWriteFlags
  <2> QED  BY <1>1, <1>6, <1>7, <1>8, <1>9, <1>10, <2>1, CpuWriteSame
<1>17. v \in CpuState /\ v.reg = u.reg
  BY <1>13, <1>16 DEF CpuState
<1>18. CpuKept(s, i) \subseteq {"regs"}
  <2>1. ArchDefines(s, i) = {"regs"} \cup {"cf", "of"} /\ CpuMisses(s, i) = {"cf", "of"}
    BY DEF ArchDefines, CpuMisses
  <2> QED  BY <2>1 DEF CpuKept
<1> QED  BY <1>11, <1>14, <1>15, <1>16, <1>17, <1>18, CpuAgreedBy

-----------------------------------------------------------------------------
(* Comparisons.                                                             *)

LEMMA CpuDifferenceSigns ==
  ASSUME NEW S \in Nat \ {0}, NEW a \in 0..2 * S - 1, NEW b \in 0..2 * S - 1, NEW r,
         a < b => r = a - b + 2 * S, ~(a < b) => r = a - b,
         NEW x, a >= S => x = a - 2 * S, ~(a >= S) => x = a,
         NEW y, b >= S => y = b - 2 * S, ~(b >= S) => y = b
  PROVE  /\ (~(r >= S <=> x - y \notin -S..S - 1)) <=> x < y
         /\ r = 0 <=> a = b
         /\ a = b <=> x = y
<1>1. S \in Int /\ a \in Int /\ b \in Int /\ 0 <= a /\ a < 2 * S /\ 0 <= b /\ b < 2 * S /\ S > 0
  OBVIOUS
<1>2. x \in Int /\ y \in Int /\ r \in Int
  BY <1>1
<1>3. x - y \notin -S..S - 1 <=> x - y < -S \/ x - y > S - 1
  BY <1>1, <1>2
<1>4. CASE a >= S /\ b >= S
  BY <1>1, <1>2, <1>3, <1>4
<1>5. CASE a >= S /\ b < S
  BY <1>1, <1>2, <1>3, <1>5
<1>6. CASE a < S /\ b >= S
  BY <1>1, <1>2, <1>3, <1>6
<1>7. CASE a < S /\ b < S
  BY <1>1, <1>2, <1>3, <1>7
<1> QED  BY <1>1, <1>4, <1>5, <1>6, <1>7

\* What a masked difference is.
LEMMA CpuDifferenceIs ==
  ASSUME NEW size \in CpuAllSizes, NEW a \in 0..CpuTop(size) - 1, NEW b \in 0..CpuTop(size) - 1,
         NEW r, r = CpuUns(a - b, size)
  PROVE  (a < b => r = a - b + CpuTop(size)) /\ (~(a < b) => r = a - b)
<1>1. PICK T \in Nat \ {0} : T = CpuTop(size)
  BY CpuTops
<1>2. a \in Int /\ b \in Int
  BY <1>1
<1>3. CASE ~(a < b)
  <2>1. a - b \in 0..T - 1 /\ a - b \in Int
    BY <1>1, <1>2, <1>3
  <2> QED  BY <1>1, <1>3, <2>1, CpuUnsIs
<1>4. CASE a < b
  <2>1. a - b + T \in 0..T - 1 /\ a - b + T \in Int /\ a - b \in Int
        /\ a - b = (a - b + T) + T * (-1)
    BY <1>1, <1>2, <1>4
  <2>2. CpuUns(a - b, size) = CpuUns(a - b + T, size)
    BY <1>1, <2>1, CpuUnsSame
  <2>3. r = a - b + T
    BY <1>1, <2>1, <2>2, CpuUnsIs
  <2> QED  BY <1>1, <1>4, <2>3
<1> QED  BY <1>3, <1>4

LEMMA CpuComparedExact ==
  ASSUME NEW s \in CpuState, NEW i \in CpuInsns, i.op = "cmp", i.form = "reg",
         NEW cc \in {2, 3, 4, 5, 6, 7, 14, 15}
  PROVE  CpuCond(CpuDo(s, i), cc) =
           ArchRelation(CpuRead(s, i.d, i.size, i.rex), CpuRead(s, i.r, i.size, i.rex), cc, i.size)
<1>1. CpuNamed(i.d, i.size, i.rex) /\ CpuNamed(i.r, i.size, i.rex) /\ i.size \in CpuAllSizes
  <2>1. i.op \notin CpuExtendOps
    BY DEF CpuExtendOps
  <2> QED  BY <2>1, CpuInsnParts, CpuInsnSource
<1>2. PICK a \in 0..CpuTop(i.size) - 1 : a \in Int /\ a = CpuRead(s, i.d, i.size, i.rex)
  BY <1>1, CpuReadIs
<1>3. PICK b \in 0..CpuTop(i.size) - 1 : b \in Int /\ b = CpuRead(s, i.r, i.size, i.rex)
  BY <1>1, CpuReadIs
<1>4. PICK x : x = CpuAlu(s, i.op, a, b, i.size)
  OBVIOUS
<1>5. i.op \in CpuAluOps /\ i.op \in CpuAluOps \ {"adc", "sbb"} /\ i.op \notin CpuLogicOps
      /\ i.op \notin CpuAdds /\ CpuCarryOf(s, i.op) = 0
  BY DEF CpuAluOps, CpuLogicOps, CpuAdds, CpuCarryOf
<1>6. CpuDo(s, i) = x.s
  <2>1. CpuDo(s, i) = CpuDoAlu(s, i)
    BY DEF CpuDo, CpuAluOps, CpuUnaryOps, CpuRotateOps, CpuShiftOps, CpuDoubleOps, CpuMulOps,
           CpuDivOps, CpuScanOps, CpuBitOps, CpuExtendOps, CpuWidenOps, CpuCarryOps
  <2>2. b = CpuOperand(s, i)
    BY <1>3 DEF CpuOperand
  <2> QED  BY <1>2, <1>4, <2>1, <2>2 DEF CpuDoAlu
<1>7. CpuUns(b, i.size) = b
  BY <1>1, <1>3, CpuUnsIs
<1>8. CpuAluParts(s, i.op, a, b, i.size, CpuAluResult(i.op, a, b, CpuCarryIn(s)), x)
  BY <1>1, <1>2, <1>3, <1>4, <1>5, CpuAluIs
<1>9. /\ x.r \in 0..CpuTop(i.size) - 1 /\ x.r \in Int /\ x.s \in CpuState /\ x.s.zf = (x.r = 0)
      /\ x.s.sf = CpuBit(x.r, CpuWidth(i.size) - 1)
  BY <1>8, Zenon DEF CpuAluParts
<1>10. x.r = CpuUns(a - b, i.size)
  <2>1. x.r = CpuUns(a - b - CpuCarryOf(s, i.op), i.size)
    BY <1>1, <1>2, <1>3, <1>4, <1>5, <1>7, CpuAluResultExact
  <2>2. a - b - 0 = a - b
    BY <1>2, <1>3
  <2> QED  BY <1>5, <2>1, <2>2
<1>11. x.s.cf = (a < b)
  <2>1. x.s.cf = (a < b + CpuCarryOf(s, i.op))
    BY <1>1, <1>2, <1>3, <1>4, <1>5, CpuAluCarryExact
  <2>2. b + 0 = b
    BY <1>3
  <2> QED  BY <1>5, <2>1, <2>2
<1>12. PICK S \in Nat \ {0} : S = CpuSign(i.size) /\ CpuTop(i.size) = 2 * S
  BY <1>1, CpuTops
<1>13. PICK v \in Int : v = CpuSgn(a, i.size)
  BY <1>1, <1>2, CpuSgnIs
<1>14. PICK w \in Int : w = CpuSgn(b, i.size)
  BY <1>1, <1>3, CpuSgnIs
<1>15. x.s.of = (v - w \notin -S..S - 1)
  <2>1. i.op # "add"
    OBVIOUS
  <2> QED  BY <1>1, <1>2, <1>3, <1>4, <1>5, <1>7, <1>12, <1>13, <1>14, <2>1, CpuAluOverflowExact
<1>16. x.s.sf = (x.r >= S)
  <2>1. CpuBit(x.r, CpuWidth(i.size) - 1) <=> CpuUns(x.r, i.size) >= S
    BY <1>1, <1>9, <1>12, CpuBitsOf
  <2>2. CpuUns(x.r, i.size) = x.r
    BY <1>1, <1>9, CpuUnsIs
  <2>3. x.s.sf \in BOOLEAN
    BY <1>9, CpuStateParts
  <2> QED  BY <1>9, <2>1, <2>2, <2>3
<1>17. /\ ~(x.r >= S <=> v - w \notin -S..S - 1) <=> v < w
       /\ x.r = 0 <=> a = b
       /\ a = b <=> v = w
  <2>1. (a < b => x.r = a - b + 2 * S) /\ (~(a < b) => x.r = a - b)
    <3>1. PICK r : r = x.r
      OBVIOUS
    <3>2. (a < b => r = a - b + CpuTop(i.size)) /\ (~(a < b) => r = a - b)
      BY <1>1, <1>10, <3>1, CpuDifferenceIs
    <3> QED  BY <1>12, <3>1, <3>2
  <2>2. (a >= S => v = a - 2 * S) /\ (~(a >= S) => v = a)
    <3>1. CpuUns(a, i.size) = a
      BY <1>1, <1>2, CpuUnsIs
    <3> QED  BY <1>12, <1>13, <3>1 DEF CpuSgn
  <2>3. (b >= S => w = b - 2 * S) /\ (~(b >= S) => w = b)
    BY <1>7, <1>12, <1>14 DEF CpuSgn
  <2>4. a \in 0..2 * S - 1 /\ b \in 0..2 * S - 1
    BY <1>12
  <2> QED  BY <2>1, <2>2, <2>3, <2>4, CpuDifferenceSigns
<1>18. PICK holds \in BOOLEAN :
         /\ CpuCond(x.s, cc) = IF cc % 2 = 0 THEN holds ELSE ~holds
         /\ holds = CASE cc \in {0, 1} -> x.s.of [] cc \in {2, 3} -> x.s.cf [] cc \in {4, 5} -> x.s.zf
                      [] cc \in {6, 7} -> (x.s.cf \/ x.s.zf) [] cc \in {8, 9} -> x.s.sf
                      [] cc \in {10, 11} -> x.s.pf
                      [] cc \in 12..15 -> (x.s.zf \/ (x.s.sf # x.s.of))
  <2>1. PICK y \in CpuState : y = x.s
    BY <1>9
  <2>2. cc \in 0..15
    OBVIOUS
  <2>3. \E holds \in BOOLEAN :
         /\ CpuCond(y, cc) = IF cc % 2 = 0 THEN holds ELSE ~holds
         /\ CpuCond(y, cc - (cc % 2)) = holds
         /\ holds = CASE cc \in {0, 1} -> y.of [] cc \in {2, 3} -> y.cf [] cc \in {4, 5} -> y.zf
                      [] cc \in {6, 7} -> (y.cf \/ y.zf) [] cc \in {8, 9} -> y.sf
                      [] cc \in {10, 11} -> y.pf
                      [] cc \in 12..15 -> (y.zf \/ (y.sf # y.of))
    BY <2>2, CpuConds
  <2> QED  BY <2>1, <2>3
<1>19. x.s.zf = (a = b) /\ (x.s.sf # x.s.of) = (v < w)
  <2>1. x.s.zf \in BOOLEAN /\ x.s.sf \in BOOLEAN /\ x.s.of \in BOOLEAN
    BY <1>9, CpuStateParts
  <2> QED  BY <1>9, <1>15, <1>16, <1>17, <2>1
<1>20. CASE cc \in {2, 3}
  <2>1. holds = (a < b)
    BY <1>11, <1>18, <1>20
  <2>2. ArchRelation(a, b, 2, i.size) = (a < b) /\ ArchRelation(a, b, 3, i.size) = (a >= b)
    BY DEF ArchRelation
  <2>3. CpuCond(x.s, 2) = (a < b) \/ cc # 2
    BY <1>18, <2>1
  <2>4. CpuCond(x.s, 3) = (a >= b) \/ cc # 3
    BY <1>2, <1>3, <1>18, <2>1
  <2> QED  BY <1>2, <1>3, <1>6, <1>20, <2>2, <2>3, <2>4
<1>21. CASE cc \in {4, 5}
  <2>1. holds = (a = b)
    BY <1>18, <1>19, <1>21
  <2>2. ArchRelation(a, b, 4, i.size) = (a = b) /\ ArchRelation(a, b, 5, i.size) = (a # b)
    BY DEF ArchRelation
  <2>3. CpuCond(x.s, 4) = (a = b) \/ cc # 4
    BY <1>18, <2>1
  <2>4. CpuCond(x.s, 5) = (a # b) \/ cc # 5
    BY <1>18, <2>1
  <2> QED  BY <1>2, <1>3, <1>6, <1>21, <2>2, <2>3, <2>4
<1>22. CASE cc \in {6, 7}
  <2>1. holds = (a < b \/ a = b)
    <3>1. holds = (x.s.cf \/ x.s.zf)
      BY <1>18, <1>22
    <3> QED  BY <1>11, <1>19, <3>1, Zenon
  <2>2. ArchRelation(a, b, 6, i.size) = (a <= b) /\ ArchRelation(a, b, 7, i.size) = (a > b)
    BY DEF ArchRelation
  <2>3. CpuCond(x.s, 6) = (a <= b) \/ cc # 6
    BY <1>2, <1>3, <1>18, <2>1
  <2>4. CpuCond(x.s, 7) = (a > b) \/ cc # 7
    BY <1>2, <1>3, <1>18, <2>1
  <2> QED  BY <1>2, <1>3, <1>6, <1>22, <2>2, <2>3, <2>4
<1>23. CASE cc \in {14, 15}
  <2>1. holds = (v = w \/ v < w)
    <3>1. holds = (x.s.zf \/ (x.s.sf # x.s.of))
      BY <1>18, <1>23
    <3>2. (a = b) = (v = w)
      BY <1>17
    <3> QED  BY <1>19, <3>1, <3>2, Zenon
  <2>2. ArchRelation(a, b, 14, i.size) = (v <= w) /\ ArchRelation(a, b, 15, i.size) = (v > w)
    BY <1>13, <1>14 DEF ArchRelation
  <2>3. CpuCond(x.s, 14) = (v <= w) \/ cc # 14
    BY <1>18, <2>1
  <2>4. CpuCond(x.s, 15) = (v > w) \/ cc # 15
    BY <1>18, <2>1
  <2> QED  BY <1>2, <1>3, <1>6, <1>23, <2>2, <2>3, <2>4
<1> QED  BY <1>20, <1>21, <1>22, <1>23

-----------------------------------------------------------------------------
(* Products.                                                                *)

\* The product of two numbers of a width, signed or not, fits its square.
LEMMA ProductBounds ==
  ASSUME NEW S \in Nat, NEW x \in Int, NEW y \in Int, -S <= x, x <= S, -S <= y, y <= S
  PROVE  x * y \in Int /\ -(S * S) <= x * y /\ x * y <= S * S
<1>1. ASSUME NEW a \in Nat, NEW b \in Nat, a <= S, b <= S
      PROVE  a * b <= S * S /\ a * b \in Nat
  <2>1. PICK c \in Nat : S = a + c
    <3>1. S - a \in Nat /\ S = a + (S - a)
      BY <1>1
    <3> QED  BY <3>1
  <2>2. PICK d \in Nat : S = b + d
    <3>1. S - b \in Nat /\ S = b + (S - b)
      BY <1>1
    <3> QED  BY <3>1
  <2>3. S * S = a * b + a * d + c * b + c * d
    BY <2>1, <2>2
  <2>4. a * b \in Nat /\ a * d \in Nat /\ c * b \in Nat /\ c * d \in Nat
    OBVIOUS
  <2> QED  BY <2>3, <2>4
<1>2. S * S \in Int
  OBVIOUS
<1>3. CASE x >= 0 /\ y >= 0
  <2>1. x \in Nat /\ y \in Nat
    BY <1>3
  <2>2. x * y <= S * S /\ x * y \in Nat
    BY <1>1, <2>1
  <2> QED  BY <1>2, <2>2
<1>4. CASE x < 0 /\ y >= 0
  <2>1. -x \in Nat /\ y \in Nat /\ -x <= S
    BY <1>4
  <2>2. (-x) * y <= S * S /\ (-x) * y \in Nat
    BY <1>1, <2>1
  <2>3. x * y = -((-x) * y)
    OBVIOUS
  <2> QED  BY <1>2, <2>2, <2>3
<1>5. CASE x >= 0 /\ y < 0
  <2>1. x \in Nat /\ -y \in Nat /\ -y <= S
    BY <1>5
  <2>2. x * (-y) <= S * S /\ x * (-y) \in Nat
    BY <1>1, <2>1
  <2>3. x * y = -(x * (-y))
    OBVIOUS
  <2> QED  BY <1>2, <2>2, <2>3
<1>6. CASE x < 0 /\ y < 0
  <2>1. -x \in Nat /\ -y \in Nat /\ -x <= S /\ -y <= S
    BY <1>6
  <2>2. (-x) * (-y) <= S * S /\ (-x) * (-y) \in Nat
    BY <1>1, <2>1
  <2>3. x * y = (-x) * (-y)
    OBVIOUS
  <2> QED  BY <1>2, <2>2, <2>3
<1> QED  BY <1>3, <1>4, <1>5, <1>6

\* A number in its two halves: whether it fits the lower one, unsigned and signed.
LEMMA HalvesUnsigned ==
  ASSUME NEW T \in Nat \ {0}, NEW p \in Nat, p < T * T
  PROVE  p % (T * T) = p /\ (p \div T # 0 <=> p >= T)
<1>1. T * T \in Nat \ {0}
  OBVIOUS
<1>2. PICK Q \in Nat \ {0} : Q = T * T
  BY <1>1
<1>3. (Q * 0 + p) % Q = p
  BY <1>2, DividedOnce
<1>4. Q * 0 + p = p
  BY <1>2
<1>5. PICK q \in Int : q = p \div T
  BY Divided
<1>6. PICK r \in Int : p = T * q + r /\ 0 <= r /\ r < T
  <2>1. p \in Int
    OBVIOUS
  <2> QED  BY <1>5, <2>1, Divided
<1>7. CASE q = 0
  BY <1>5, <1>6, <1>7
<1>8. CASE q >= 1
  <2>1. PICK k \in Nat : q = 1 + k
    <3>1. q - 1 \in Nat /\ q = 1 + (q - 1)
      BY <1>8
    <3> QED  BY <3>1
  <2>2. T * q = T + T * k /\ T * k \in Nat
    BY <2>1
  <2> QED  BY <1>5, <1>6, <1>8, <2>2
<1>9. CASE q <= -1
  <2>1. PICK k \in Nat : q = -1 - k
    <3>1. -1 - q \in Nat /\ q = -1 - (-1 - q)
      BY <1>9
    <3> QED  BY <3>1
  <2>2. T * q = -T - T * k /\ T * k \in Nat
    BY <2>1
  <2> QED  BY <1>6, <2>2
<1> QED  BY <1>2, <1>3, <1>4, <1>7, <1>8, <1>9

HalvesHold(S, T, H, Q, p, u, lo, hi, w) ==
  /\ T = 2 * S /\ S <= H /\ Q = 4 * H /\ -H <= p /\ p <= H
  /\ (p >= 0 => u = p) /\ (p < 0 => u = p + Q) /\ 0 <= u /\ u < Q
  /\ 0 <= lo /\ lo < T /\ u = w + lo
  /\ (hi = 0 => w = 0) /\ (hi >= 1 => w >= T) /\ (hi <= -1 => w <= -T)
  /\ (hi = T - 1 => w = Q - T) /\ (hi <= T - 2 => w <= Q - 2 * T) /\ (hi >= T => w >= Q)

HalvesMeant(S, T, p, lo, hi) ==
  /\ lo >= S => (hi # T - 1 <=> p \notin -S..S - 1)
  /\ lo < S => (hi # 0 <=> p \notin -S..S - 1)

LEMMA HalvesMatter ==
  ASSUME NEW S \in Nat \ {0}, NEW T \in Int, NEW H \in Int, NEW Q \in Int, NEW p \in Int,
         NEW u \in Int, NEW lo \in Int, NEW hi \in Int, NEW w \in Int,
         HalvesHold(S, T, H, Q, p, u, lo, hi, w)
  PROVE  HalvesMeant(S, T, p, lo, hi)
<1> USE DEF HalvesHold, HalvesMeant
<1>1. 0 <= hi /\ hi <= T - 1
  OBVIOUS
<1>2. p \in -S..S - 1 <=> -S <= p /\ p < S
  OBVIOUS
<1>3. CASE p >= 0
  <2>1. u = p /\ u <= H
    BY <1>3
  <2>2. CASE lo >= S
    <3>1. hi # T - 1
      BY <2>1, <2>2
    <3>2. p >= S
      BY <1>1, <2>1, <2>2
    <3> QED  BY <1>2, <2>2, <3>1, <3>2
  <2>3. CASE lo < S
    <3>1. hi = 0 => p < S
      BY <2>1, <2>3
    <3>2. hi # 0 => p >= S
      BY <1>1, <2>1
    <3> QED  BY <1>2, <1>3, <2>3, <3>1, <3>2
  <2> QED  BY <2>2, <2>3
<1>4. CASE p < 0
  <2>1. u = p + Q /\ u >= Q - H
    BY <1>4
  <2>2. CASE lo >= S
    <3>1. hi = T - 1 => p >= -S
      BY <2>1, <2>2
    <3>2. hi # T - 1 => p < -S
      BY <1>1, <2>1
    <3> QED  BY <1>2, <1>4, <2>2, <3>1, <3>2
  <2>3. CASE lo < S
    <3>1. hi # 0
      BY <2>1, <2>3
    <3>2. p < -S
      BY <1>1, <2>1, <2>3
    <3> QED  BY <1>2, <2>3, <3>1, <3>2
  <2> QED  BY <2>2, <2>3
<1> QED  BY <1>3, <1>4

LEMMA HalvesSigned ==
  ASSUME NEW S \in Nat \ {0}, NEW T \in Nat \ {0}, T = 2 * S, NEW p \in Int,
         -(S * S) <= p, p <= S * S, NEW u \in Int, u = p % (T * T),
         NEW lo \in Int, lo = u % T, NEW hi \in Int, hi = u \div T
  PROVE  hi # (IF lo >= S THEN T - 1 ELSE 0) <=> p \notin -S..S - 1
<1>1. PICK Q \in Nat \ {0} : Q = T * T
  <2>1. T * T \in Nat \ {0}
    OBVIOUS
  <2> QED  BY <2>1
<1>2. PICK H \in Nat \ {0} : H = S * S
  <2>1. S * S \in Nat \ {0}
    OBVIOUS
  <2> QED  BY <2>1
<1>3. Q = 4 * H
  BY <1>1, <1>2
<1>4. H >= S
  <2>1. PICK k \in Nat : S = 1 + k
    <3>1. S - 1 \in Nat /\ S = 1 + (S - 1)
      OBVIOUS
    <3> QED  BY <3>1
  <2>2. H = S + S * k /\ S * k \in Nat
    BY <1>2, <2>1
  <2> QED  BY <2>2
<1>5. u = IF p >= 0 THEN p ELSE p + Q
  <2>1. CASE p >= 0
    <3>0. p < Q /\ 0 <= p
      BY <1>2, <1>3, <2>1
    <3>1. (Q * 0 + p) % Q = p
      BY <3>0, DividedOnce, SMTT(30)
    <3>2. Q * 0 + p = p
      OBVIOUS
    <3> QED  BY <1>1, <2>1, <3>1, <3>2
  <2>2. CASE p < 0
    <3>0. p + Q < Q /\ 0 <= p + Q /\ p + Q \in Int /\ -1 \in Int
      BY <1>2, <1>3, <2>2
    <3>1. (Q * (-1) + (p + Q)) % Q = p + Q
      BY <3>0, DividedOnce
    <3>2. Q * (-1) + (p + Q) = p
      OBVIOUS
    <3> QED  BY <1>1, <2>2, <3>1, <3>2
  <2> QED  BY <2>1, <2>2
<1>6. u = T * hi + lo /\ 0 <= lo /\ lo < T
  <2>1. u = T * (u \div T) + (u % T) /\ 0 <= u % T /\ u % T < T
    BY Divided, ZenonT(30)
  <2> QED  BY <2>1, ZenonT(30)
<1>7. 0 <= u /\ u < Q
  BY <1>2, <1>3, <1>5
<1>8. PICK w \in Int : w = T * hi
  OBVIOUS
\* The values of T * hi that matter.
<1>9. hi = 0 => w = 0
  BY <1>8
<1>10. hi >= 1 => w >= T
  <2> HAVE hi >= 1
  <2>1. PICK k \in Nat : hi = 1 + k
    <3>1. hi - 1 \in Nat /\ hi = 1 + (hi - 1)
      OBVIOUS
    <3> QED  BY <3>1
  <2>2. T * hi = T + T * k /\ T * k \in Nat
    BY <2>1
  <2> QED  BY <1>8, <2>2
<1>11. hi <= -1 => w <= -T
  <2> HAVE hi <= -1
  <2>1. PICK k \in Nat : hi = -1 - k
    <3>1. -1 - hi \in Nat /\ hi = -1 - (-1 - hi)
      OBVIOUS
    <3> QED  BY <3>1
  <2>2. T * hi = -T - T * k /\ T * k \in Nat
    BY <2>1
  <2> QED  BY <1>8, <2>2
<1>12. hi = T - 1 => w = Q - T
  <2> HAVE hi = T - 1
  <2>1. T * (T - 1) = T * T - T
    OBVIOUS
  <2> QED  BY <1>1, <1>8, <2>1
<1>13. hi <= T - 2 => w <= Q - 2 * T
  <2> HAVE hi <= T - 2
  <2>1. PICK k \in Nat : hi = T - 2 - k
    <3>1. T - 2 - hi \in Nat /\ hi = T - 2 - (T - 2 - hi)
      OBVIOUS
    <3> QED  BY <3>1
  <2>2. T * hi = T * T - 2 * T - T * k /\ T * k \in Nat
    BY <2>1
  <2> QED  BY <1>1, <1>8, <2>2
<1>14. hi >= T => w >= Q
  <2> HAVE hi >= T
  <2>1. PICK k \in Nat : hi = T + k
    <3>1. hi - T \in Nat /\ hi = T + (hi - T)
      OBVIOUS
    <3> QED  BY <3>1
  <2>2. T * hi = T * T + T * k /\ T * k \in Nat
    BY <2>1
  <2> QED  BY <1>1, <1>8, <2>2
<1>15. u = w + lo
  BY <1>6, <1>8
<1>16. -H <= p /\ p <= H
  BY <1>2
<1>17. (p >= 0 => u = p) /\ (p < 0 => u = p + Q)
  BY <1>5
<1>18. HalvesHold(S, T, H, Q, p, u, lo, hi, w)
  BY <1>3, <1>4, <1>6, <1>7, <1>9, <1>10, <1>11, <1>12, <1>13, <1>14, <1>15, <1>16, <1>17
  DEF HalvesHold
<1>19. T \in Int /\ H \in Int /\ Q \in Int /\ u \in Int /\ lo \in Int /\ hi \in Int
  BY <1>5
<1>20. HalvesMeant(S, T, p, lo, hi)
  BY <1>18, <1>19, HalvesMatter, Zenon
<1>21. lo >= S \/ lo < S
  BY <1>19
<1> QED  BY <1>20, <1>21, Zenon DEF HalvesMeant

-----------------------------------------------------------------------------
(* The pair of registers a multiplication or a division fills.              *)

\* In a 32-bit or a 64-bit instruction the whole registers are what is written.
LEMMA CpuSetWrites ==
  ASSUME NEW s \in CpuState, NEW size \in {4, 8}, NEW n \in {0, 2}, NEW v \in 0..CpuTop(size) - 1
  PROVE  CpuSet(s, n, v) = CpuWrite(s, n, size, TRUE, v) /\ CpuSet(s, n, v) \in CpuState
<1>1. size \in CpuAllSizes /\ n \in CpuRegs
  BY DEF CpuAllSizes, CpuRegs
<1>2. v \in 0..CpuTop(8) - 1 /\ v \in Int
  BY <1>1, CpuFits
<1>3. CpuUns(v, size) = v
  BY <1>1, <1>2, CpuUnsIs
<1>4. CpuWrite(s, n, size, TRUE, v) = [s EXCEPT !.reg[n] = v]
  BY <1>3 DEF CpuWrite
<1>5. CpuSet(s, n, v) = [s EXCEPT !.reg[n] = v]
  BY Zenon DEF CpuSet
<1> QED  BY <1>1, <1>2, <1>4, <1>5, CpuSetIs

LEMMA ArchSetPairIs ==
  ASSUME NEW s \in CpuState, NEW size \in CpuAllSizes,
         NEW lo \in 0..CpuTop(size) - 1, NEW hi \in 0..CpuTop(size) - 1
  PROVE  /\ ArchSetPair(s, size, lo, hi) \in CpuState
         /\ size \in {4, 8} => CpuSet(CpuSet(s, 0, lo), 2, hi) = ArchSetPair(s, size, lo, hi)
<1>1. lo \in Int /\ hi \in Int /\ CpuTop(1) \in Nat
  <2>1. 1 \in CpuAllSizes
    BY DEF CpuAllSizes
  <2> QED  BY <2>1, CpuFits, CpuTops
<1>2. CASE size = 1
  <2>1. PICK v \in Int : v = hi * CpuTop(1) + lo
    BY <1>1
  <2>2. CpuNamed(0, 2, TRUE)
    BY CpuNamedLow DEF CpuAllSizes
  <2>3. CpuWrite(s, 0, 2, TRUE, v) \in CpuState
    BY <2>2, CpuWriteFlags
  <2>4. ArchSetPair(s, size, lo, hi) = CpuWrite(s, 0, 2, TRUE, v)
    BY <1>2, <2>1, Zenon DEF ArchSetPair
  <2>5. size \notin {4, 8}
    BY <1>2
  <2> QED  BY <2>3, <2>4, <2>5, Zenon
<1>3. CASE size # 1
  <2>1. CpuNamed(0, size, TRUE) /\ CpuNamed(2, size, TRUE)
    BY CpuNamedLow
  <2>2. PICK t \in CpuState : t = CpuWrite(s, 0, size, TRUE, lo)
    BY <1>1, <2>1, CpuWriteFlags
  <2>3. CpuWrite(t, 2, size, TRUE, hi) \in CpuState
    BY <1>1, <2>1, CpuWriteFlags
  <2>4. ArchSetPair(s, size, lo, hi) = CpuWrite(t, 2, size, TRUE, hi)
    BY <1>3, <2>2 DEF ArchSetPair
  <2>5. ASSUME size \in {4, 8}
        PROVE  CpuSet(CpuSet(s, 0, lo), 2, hi) = CpuWrite(t, 2, size, TRUE, hi)
    <3>1. CpuSet(s, 0, lo) = t
      BY <2>2, <2>5, CpuSetWrites
    <3>2. CpuSet(t, 2, hi) = CpuWrite(t, 2, size, TRUE, hi)
      BY <2>5, CpuSetWrites
    <3> QED  BY <3>1, <3>2
  <2> QED  BY <2>3, <2>4, <2>5
<1> QED  BY <1>2, <1>3

-----------------------------------------------------------------------------
(* mul and imul.                                                            *)

\* The lower half that an instruction of either sign takes the sign of.
CpuFill(signed, lo, size) ==
  IF signed /\ CpuBit(lo, CpuWidth(size) - 1) THEN CpuTop(size) - 1 ELSE 0
ArchWide(signed, p, size) ==
  IF signed THEN p \notin -CpuSign(size)..CpuSign(size) - 1 ELSE p >= CpuTop(size)
CpuMulLeft(s, lo, hi, wide) ==
  [CpuSet(CpuSet(s, 0, lo), 2, hi) EXCEPT !.cf = wide, !.of = wide]
ArchMulLeft(s, size, lo, hi, wide) ==
  [ArchSetPair(s, size, lo, hi) EXCEPT !.cf = wide, !.of = wide]

LEMMA CpuMulIs ==
  ASSUME NEW s, NEW i, NEW p,
         p = (IF i.op = "imul" THEN CpuSgn(s.reg[0], i.size) ELSE CpuUns(s.reg[0], i.size))
               * (IF i.op = "imul" THEN CpuSgn(CpuRead(s, i.d, i.size, i.rex), i.size)
                  ELSE CpuUns(CpuRead(s, i.d, i.size, i.rex), i.size)),
         NEW u, u = p % (CpuTop(i.size) * CpuTop(i.size)), NEW lo, lo = u % CpuTop(i.size),
         NEW hi, hi = u \div CpuTop(i.size)
  PROVE  CpuDoMul(s, i) = CpuMulLeft(s, lo, hi, hi # CpuFill(i.op = "imul", lo, i.size))
BY Zenon DEF CpuDoMul, CpuMulLeft, CpuFill

LEMMA ArchMulIs ==
  ASSUME NEW s, NEW i, NEW p,
         p = (IF i.op = "imul" THEN CpuSgn(CpuUns(s.reg[0], i.size), i.size)
                                      * CpuSgn(CpuRead(s, i.d, i.size, i.rex), i.size)
              ELSE CpuUns(s.reg[0], i.size) * CpuRead(s, i.d, i.size, i.rex)),
         NEW u, u = p % (CpuTop(i.size) * CpuTop(i.size)), NEW lo, lo = u % CpuTop(i.size),
         NEW hi, hi = u \div CpuTop(i.size)
  PROVE  ArchMul(s, i) = ArchMulLeft(s, i.size, lo, hi, ArchWide(i.op = "imul", p, i.size))
BY Zenon DEF ArchMul, ArchMulLeft, ArchWide

\* What does not fit the lower half is what the upper one shows.
LEMMA CpuWideExact ==
  ASSUME NEW size \in CpuAllSizes, NEW signed \in BOOLEAN, NEW x \in Int, NEW y \in Int,
         signed => /\ -CpuSign(size) <= x /\ x < CpuSign(size)
                   /\ -CpuSign(size) <= y /\ y < CpuSign(size),
         ~signed => x \in 0..CpuTop(size) - 1 /\ y \in 0..CpuTop(size) - 1,
         NEW p, p = x * y, NEW u, u = p % (CpuTop(size) * CpuTop(size)),
         NEW lo, lo = u % CpuTop(size), NEW hi, hi = u \div CpuTop(size)
  PROVE  /\ hi # CpuFill(signed, lo, size) <=> ArchWide(signed, p, size)
         /\ lo \in 0..CpuTop(size) - 1 /\ hi \in 0..CpuTop(size) - 1
<1>1. PICK T \in Nat \ {0} : T = CpuTop(size)
  BY CpuTops
<1>2. PICK S \in Nat \ {0} : S = CpuSign(size) /\ T = 2 * S
  BY <1>1, CpuTops
<1>3. p \in Int
  OBVIOUS
<1>4. lo \in 0..T - 1 /\ hi \in 0..T - 1 /\ u \in Nat
  BY <1>1, <1>3, CpuHalves
<1>5. CpuUns(lo, size) = lo /\ lo \in Int /\ hi \in Int /\ u \in Int
  BY <1>1, <1>4, CpuUnsIs
<1>6. CASE signed
  <2>1. -(S * S) <= p /\ p <= S * S
    <3>1. -S <= x /\ x <= S /\ -S <= y /\ y <= S
      BY <1>2, <1>6
    <3> QED  BY <3>1, ProductBounds
  <2>2. hi # (IF lo >= S THEN T - 1 ELSE 0) <=> p \notin -S..S - 1
    <3>1. u = p % (T * T) /\ lo = u % T /\ hi = u \div T
      BY <1>1
    <3>2. -(S * S) <= p /\ p <= S * S /\ T = 2 * S /\ p \in Int /\ u \in Int /\ lo \in Int /\ hi \in Int
      BY <1>2, <1>3, <1>5, <2>1
    <3> HIDE <2>1
    <3> QED  BY <3>1, <3>2, HalvesSigned
  <2>3. CpuBit(lo, CpuWidth(size) - 1) <=> lo >= S
    BY <1>2, <1>5, CpuBitsOf
  <2>4. CpuFill(signed, lo, size) = IF lo >= S THEN T - 1 ELSE 0
    BY <1>1, <1>6, <2>3, Zenon DEF CpuFill
  <2>5. ArchWide(signed, p, size) = (p \notin -S..S - 1)
    BY <1>2, <1>6, Zenon DEF ArchWide
  <2> QED  BY <1>1, <1>4, <2>2, <2>4, <2>5
<1>7. CASE ~signed
  <2>1. p \in Nat /\ p < T * T
    <3>1. x \in Nat /\ y \in Nat /\ x <= T - 1 /\ y <= T - 1
      BY <1>1, <1>7
    <3>2. PICK m \in Nat : m = T - 1
      BY <1>1
    <3>3. -m <= x /\ x <= m /\ -m <= y /\ y <= m
      BY <3>1, <3>2
    <3>4. x * y <= m * m
      BY <3>3, ProductBounds
    <3>5. T = m + 1
      BY <3>2
    <3>6. m * m < T * T
      BY <3>5
    <3>7. x * y \in Nat
      BY <3>1
    <3> QED  BY <3>4, <3>6, <3>7
  <2>2. u = p /\ (p \div T # 0 <=> p >= T)
    BY <1>1, <2>1, HalvesUnsigned
  <2>3. CpuFill(signed, lo, size) = 0
    BY <1>7, Zenon DEF CpuFill
  <2>4. ArchWide(signed, p, size) = (p >= T)
    BY <1>1, <1>7, Zenon DEF ArchWide
  <2>5. hi # 0 <=> p >= T
    BY <1>1, <2>2
  <2> QED  BY <1>1, <1>4, <2>3, <2>4, <2>5
<1> QED  BY <1>6, <1>7

LEMMA CpuMulAgreed ==
  ASSUME NEW s \in CpuState, NEW i \in CpuInsns, i.op \in CpuMulOps
  PROVE  CpuAgreed(s, i)
<1>1. CpuNamed(i.d, i.size, i.rex) /\ i.size \in CpuAllSizes
  BY CpuInsnParts
<1>2. PICK a \in Int : a = s.reg[0]
  BY CpuStateRegs DEF CpuRegs
<1>3. PICK b \in 0..CpuTop(i.size) - 1 : b = CpuRead(s, i.d, i.size, i.rex)
  BY <1>1, CpuReadIs
<1>4. b \in Int /\ CpuUns(b, i.size) = b
  BY <1>1, <1>3, CpuReadIs
<1>5. PICK x \in Int : x = (IF i.op = "imul" THEN CpuSgn(a, i.size) ELSE CpuUns(a, i.size))
  BY <1>1, CpuSgnIs, CpuUnsIs
<1>6. PICK y \in Int : y = (IF i.op = "imul" THEN CpuSgn(b, i.size) ELSE b)
  BY <1>1, <1>4, CpuSgnIs
<1>7. PICK p \in Int : p = x * y
  OBVIOUS
<1>8. PICK u : u = p % (CpuTop(i.size) * CpuTop(i.size))
  OBVIOUS
<1>9. PICK lo : lo = u % CpuTop(i.size)
  OBVIOUS
<1>10. PICK hi : hi = u \div CpuTop(i.size)
  OBVIOUS
<1>11. PICK signed \in BOOLEAN : signed = (i.op = "imul")
  OBVIOUS
<1>12. /\ hi # CpuFill(signed, lo, i.size) <=> ArchWide(signed, p, i.size)
       /\ lo \in 0..CpuTop(i.size) - 1 /\ hi \in 0..CpuTop(i.size) - 1
  <2>1. signed => /\ -CpuSign(i.size) <= x /\ x < CpuSign(i.size)
                  /\ -CpuSign(i.size) <= y /\ y < CpuSign(i.size)
    <3> HAVE signed
    <3>1. x = CpuSgn(a, i.size) /\ y = CpuSgn(b, i.size)
      BY <1>5, <1>6, <1>11
    <3>2. -CpuSign(i.size) <= CpuSgn(a, i.size) /\ CpuSgn(a, i.size) < CpuSign(i.size)
      BY <1>1, CpuSgnIs
    <3>3. -CpuSign(i.size) <= CpuSgn(b, i.size) /\ CpuSgn(b, i.size) < CpuSign(i.size)
      BY <1>1, <1>4, CpuSgnIs
    <3> QED  BY <3>1, <3>2, <3>3
  <2>2. ~signed => x \in 0..CpuTop(i.size) - 1 /\ y \in 0..CpuTop(i.size) - 1
    <3> HAVE ~signed
    <3>1. x = CpuUns(a, i.size) /\ y = b
      BY <1>5, <1>6, <1>11
    <3>2. CpuUns(a, i.size) \in 0..CpuTop(i.size) - 1
      BY <1>1, CpuUnsTyped
    <3> QED  BY <3>1, <3>2
  <2> QED  BY <1>1, <1>7, <1>8, <1>9, <1>10, <2>1, <2>2, CpuWideExact
<1>13. PICK wide \in BOOLEAN : wide <=> ArchWide(signed, p, i.size)
  OBVIOUS
<1>14. CpuDo(s, i) = CpuMulLeft(s, lo, hi, wide)
  <2>1. CpuDo(s, i) = CpuDoMul(s, i)
    BY CpuDoBy
  <2>2. p = (IF i.op = "imul" THEN CpuSgn(s.reg[0], i.size) ELSE CpuUns(s.reg[0], i.size))
               * (IF i.op = "imul" THEN CpuSgn(CpuRead(s, i.d, i.size, i.rex), i.size)
                  ELSE CpuUns(CpuRead(s, i.d, i.size, i.rex), i.size))
    BY <1>2, <1>3, <1>4, <1>5, <1>6, <1>7
  <2>3. CpuDoMul(s, i) = CpuMulLeft(s, lo, hi, hi # CpuFill(i.op = "imul", lo, i.size))
    BY <1>8, <1>9, <1>10, <2>2, CpuMulIs
  <2>4. (hi # CpuFill(i.op = "imul", lo, i.size)) = wide
    BY <1>11, <1>12, <1>13
  <2> QED  BY <2>1, <2>3, <2>4
<1>15. Arch(s, i) = ArchMulLeft(s, i.size, lo, hi, wide)
  <2>1. Arch(s, i) = ArchMul(s, i)
    BY ArchBy
  <2>2. p = (IF i.op = "imul" THEN CpuSgn(CpuUns(s.reg[0], i.size), i.size)
                                      * CpuSgn(CpuRead(s, i.d, i.size, i.rex), i.size)
              ELSE CpuUns(s.reg[0], i.size) * CpuRead(s, i.d, i.size, i.rex))
    <3>1. CpuSgn(CpuUns(a, i.size), i.size) = CpuSgn(a, i.size)
      BY <1>1, CpuSgnIs
    <3> QED  BY <1>2, <1>3, <1>5, <1>6, <1>7, <3>1
  <2>3. ArchMul(s, i) = ArchMulLeft(s, i.size, lo, hi, ArchWide(i.op = "imul", p, i.size))
    BY <1>8, <1>9, <1>10, <2>2, ArchMulIs
  <2>4. ArchWide(i.op = "imul", p, i.size) = wide
    <3>1. ArchWide(signed, p, i.size) \in BOOLEAN
      <4>1. CASE signed
        <5>1. ArchWide(signed, p, i.size) = (p \notin -CpuSign(i.size)..CpuSign(i.size) - 1)
          BY <4>1, Zenon DEF ArchWide
        <5> QED  BY <5>1
      <4>2. CASE ~signed
        <5>1. ArchWide(signed, p, i.size) = (p >= CpuTop(i.size))
          BY <4>2, Zenon DEF ArchWide
        <5>2. CpuTop(i.size) \in Int
          BY <1>1, CpuTops
        <5> QED  BY <5>1, <5>2
      <4> QED  BY <4>1, <4>2
    <3> QED  BY <1>11, <1>13, <3>1
  <2> QED  BY <2>1, <2>3, <2>4
<1>16. PICK v \in CpuState : v = CpuSet(CpuSet(s, 0, lo), 2, hi)
  <2>1. lo \in 0..CpuTop(8) - 1 /\ hi \in 0..CpuTop(8) - 1
    BY <1>1, <1>12, CpuFits
  <2> QED  BY <2>1, CpuSetIs DEF CpuRegs
<1>17. PICK w \in CpuState : w = ArchSetPair(s, i.size, lo, hi)
  BY <1>1, <1>12, ArchSetPairIs
<1>18. PICK t \in CpuState : t = [v EXCEPT !.cf = wide, !.of = wide]
  BY CpuFlagsSet
<1>19. PICK z \in CpuState : z = [w EXCEPT !.cf = wide, !.of = wide]
  BY CpuFlagsSet
<1>20. CpuDo(s, i) = t /\ Arch(s, i) = z
  BY <1>14, <1>15, <1>16, <1>17, <1>18, <1>19, Zenon DEF CpuMulLeft, ArchMulLeft
<1>21. t.cf = z.cf /\ t.of = z.of /\ t.reg = v.reg /\ z.reg = w.reg
  BY <1>18, <1>19 DEF CpuState
<1>22. i.size \in {4, 8} => t.reg = z.reg
  BY <1>1, <1>12, <1>16, <1>17, <1>21, ArchSetPairIs
<1>23. /\ CpuKept(s, i) \subseteq {"regs", "cf", "of"}
       /\ i.size \in {1, 2} => CpuKept(s, i) \subseteq {"cf", "of"}
  <2>1. ArchDefines(s, i) = {"regs"} \cup {"cf", "of"}
    BY DEF ArchDefines, CpuMulOps
  <2>2. i.size \in {1, 2} => CpuMisses(s, i) = {"regs"}
    BY DEF CpuMisses, CpuMulOps
  <2> QED  BY <2>1, <2>2 DEF CpuKept
<1>24. CASE i.size \in {1, 2}
  <2>1. CpuKept(s, i) \subseteq {"cf", "of"}
    BY <1>23, <1>24
  <2> QED  BY <1>20, <1>21, <2>1, CpuAgreedBy
<1>25. CASE i.size \in {4, 8}
  <2>1. t.reg = z.reg
    BY <1>22, <1>25
  <2> QED  BY <1>20, <1>21, <1>23, <2>1, CpuAgreedBy
<1> QED  BY <1>1, <1>24, <1>25 DEF CpuAllSizes

-----------------------------------------------------------------------------
(* Truncated division.                                                      *)

CpuAbs(v) == IF v < 0 THEN -v ELSE v

\* What a truncated quotient is: the remainder is smaller than the divisor and has the sign of
\* the dividend.
ArchTruncates(n, m, q) ==
  CpuAbs(n - q * m) < CpuAbs(m) /\ (n - q * m = 0 \/ ((n - q * m < 0) = (n < 0)))

LEMMA SmallMultiple ==
  ASSUME NEW d \in Int, NEW m \in Nat, -m < d * m, d * m < m
  PROVE  d = 0
<1>1. CASE d >= 1
  <2>1. PICK j \in Nat : d = 1 + j
    <3>1. d - 1 \in Nat /\ d = 1 + (d - 1)
      BY <1>1
    <3> QED  BY <3>1
  <2>2. d * m = m + j * m /\ j * m \in Nat
    BY <2>1
  <2> QED  BY <2>2
<1>2. CASE d <= -1
  <2>1. PICK j \in Nat : d = -1 - j
    <3>1. -1 - d \in Nat /\ d = -1 - (-1 - d)
      BY <1>2
    <3> QED  BY <3>1
  <2>2. d * m = -m - j * m /\ j * m \in Nat
    BY <2>1
  <2> QED  BY <2>2
<1> QED  BY <1>1, <1>2

\* There is one truncated quotient.
LEMMA ArchTruncatesOnce ==
  ASSUME NEW n \in Int, NEW m \in Int, NEW p \in Int, NEW q \in Int,
         ArchTruncates(n, m, p), ArchTruncates(n, m, q)
  PROVE  p = q
<1>1. PICK a \in Int : a = n - p * m
  OBVIOUS
<1>2. PICK b \in Int : b = n - q * m
  OBVIOUS
<1>3. CpuAbs(a) < CpuAbs(m) /\ (a = 0 \/ ((a < 0) = (n < 0)))
  BY <1>1, Zenon DEF ArchTruncates
<1>4. CpuAbs(b) < CpuAbs(m) /\ (b = 0 \/ ((b < 0) = (n < 0)))
  BY <1>2, Zenon DEF ArchTruncates
<1>5. PICK c \in Nat : c = CpuAbs(m)
  BY DEF CpuAbs
<1>6. a - b < c /\ -c < a - b /\ -c < b - a /\ b - a < c
  BY <1>3, <1>4, <1>5 DEF CpuAbs
<1>7. PICK d \in Int : d = q - p
  OBVIOUS
<1>8. a - b = d * m /\ b - a = d * (-m)
  BY <1>1, <1>2, <1>7
<1>9. d = 0
  <2>1. CASE m >= 0
    <3>1. c = m
      BY <1>5, <2>1 DEF CpuAbs
    <3>2. m \in Nat
      BY <2>1
    <3>3. -m < d * m /\ d * m < m
      BY <1>6, <1>8, <3>1
    <3> QED  BY <3>2, <3>3, SmallMultiple
  <2>2. CASE m < 0
    <3>1. c = -m
      BY <1>5, <2>2 DEF CpuAbs
    <3>2. PICK k \in Nat : k = -m
      BY <2>2
    <3>3. -k < d * k /\ d * k < k
      BY <1>6, <1>8, <3>1, <3>2
    <3> QED  BY <3>3, SmallMultiple
  <2> QED  BY <2>1, <2>2
<1> QED  BY <1>7, <1>9

LEMMA CpuQuotientExact ==
  ASSUME NEW n \in Int, NEW m \in Int, m # 0, NEW q, q = CpuQuotient(n, m)
  PROVE  q \in Int /\ ArchTruncates(n, m, q) /\ (n >= 0 /\ m >= 0 => q >= 0)
<1>1. PICK A \in Nat : A = CpuAbs(n)
  BY DEF CpuAbs
<1>2. PICK B \in Nat \ {0} : B = CpuAbs(m)
  BY DEF CpuAbs
<1>3. PICK k \in Int : k = A \div B
  BY Divided
<1>4. PICK r \in Int : A = B * k + r /\ 0 <= r /\ r < B
  <2>1. A \in Int
    OBVIOUS
  <2> QED  BY <1>3, <2>1, Divided
<1>5. k >= 0
  <2>1. CASE k <= -1
    <3>1. PICK j \in Nat : k = -1 - j
      <4>1. -1 - k \in Nat /\ k = -1 - (-1 - k)
        BY <2>1
      <4> QED  BY <4>1
    <3>2. B * k = -B - B * j /\ B * j \in Nat
      BY <3>1
    <3> QED  BY <1>4, <3>2
  <2> QED  BY <2>1
<1>6. q = IF (n < 0) # (m < 0) THEN -k ELSE k
  BY <1>1, <1>2, <1>3, Zenon DEF CpuQuotient, CpuAbs
<1>7. q \in Int
  BY <1>6
<1>8. PICK w \in Int : w = B * k
  OBVIOUS
<1>9. n - q * m = IF n < 0 THEN -r ELSE r
  <2>1. n = (IF n < 0 THEN -A ELSE A) /\ m = (IF m < 0 THEN -B ELSE B)
    BY <1>1, <1>2 DEF CpuAbs
  <2>2. CASE n < 0 /\ m < 0
    <3>1. q = k /\ m = -B /\ n = -A
      BY <1>6, <2>1, <2>2
    <3>2. q * m = -(B * k)
      BY <3>1
    <3> QED  BY <1>4, <2>2, <3>1, <3>2
  <2>3. CASE n < 0 /\ ~(m < 0)
    <3>1. q = -k /\ m = B /\ n = -A
      BY <1>6, <2>1, <2>3
    <3>2. q * m = -(B * k)
      BY <3>1
    <3> QED  BY <1>4, <2>3, <3>1, <3>2
  <2>4. CASE ~(n < 0) /\ m < 0
    <3>1. q = -k /\ m = -B /\ n = A
      BY <1>6, <2>1, <2>4
    <3>2. q * m = B * k
      BY <3>1
    <3> QED  BY <1>4, <2>4, <3>1, <3>2
  <2>5. CASE ~(n < 0) /\ ~(m < 0)
    <3>1. q = k /\ m = B /\ n = A
      BY <1>6, <2>1, <2>5
    <3>2. q * m = B * k
      BY <3>1
    <3> QED  BY <1>4, <2>5, <3>1, <3>2
  <2> QED  BY <2>2, <2>3, <2>4, <2>5
<1>10. PICK R \in Int : R = n - q * m
  BY <1>7
<1>11. CpuAbs(R) < CpuAbs(m) /\ (R = 0 \/ ((R < 0) = (n < 0)))
  BY <1>2, <1>4, <1>9, <1>10 DEF CpuAbs
<1>12. ArchTruncates(n, m, q)
  BY <1>10, <1>11, Zenon DEF ArchTruncates
<1>13. n >= 0 /\ m >= 0 => q >= 0
  BY <1>5, <1>6
<1> QED  BY <1>7, <1>12, <1>13

-----------------------------------------------------------------------------
(* div and idiv.                                                            *)

CpuDivFits(signed, q, size) ==
  IF signed THEN q >= -CpuSign(size) /\ q < CpuSign(size) ELSE q < CpuTop(size)
CpuDivLeft(s, size, q, n, m) ==
  CpuSet(CpuSet(s, 0, CpuUns(q, size)), 2, CpuUns(n - q * m, size))
CpuDivDone(s, signed, size, q, n, m) ==
  IF m = 0 THEN CpuFault("division by zero")
  ELSE IF ~CpuDivFits(signed, q, size) THEN CpuFault("division overflow")
  ELSE CpuDivLeft(s, size, q, n, m)

ArchDivRange(signed, size) ==
  IF signed THEN -CpuSign(size)..CpuSign(size) - 1 ELSE 0..CpuTop(size) - 1
ArchResults(signed, size, n, m) == {q \in ArchDivRange(signed, size) : ArchTruncates(n, m, q)}
ArchDivLeft(s, size, q, n, m) == ArchSetPair(s, size, CpuUns(q, size), CpuUns(n - q * m, size))
ArchDivDone(s, size, results, n, m) ==
  IF m = 0 \/ results = {} THEN CpuFault("divide error")
  ELSE ArchDivLeft(s, size, CHOOSE q \in results : TRUE, n, m)

CpuBoth(s, size) == s.reg[2] * CpuTop(size) + CpuUns(s.reg[0], size)
CpuDividend(signed, both, square) ==
  IF ~signed THEN both
  ELSE IF 2 * (both % square) >= square THEN (both % square) - square ELSE both % square
CpuDivisor(signed, raw, size) == IF signed THEN CpuSgn(raw, size) ELSE raw

LEMMA CpuDivIs ==
  ASSUME NEW s, NEW i, NEW signed, signed = (i.op = "idiv"),
         NEW n, n = CpuDividend(signed, CpuBoth(s, i.size), CpuTop(i.size) * CpuTop(i.size)),
         NEW m, m = CpuDivisor(signed, CpuRead(s, i.d, i.size, i.rex), i.size),
         NEW q, q = CpuQuotient(n, m)
  PROVE  CpuDoDiv(s, i) = CpuDivDone(s, signed, i.size, q, n, m)
BY Zenon DEF CpuDoDiv, CpuDivDone, CpuDividend, CpuDivisor, CpuBoth, CpuDivFits, CpuDivLeft

ArchDividend(signed, pair, square) ==
  IF signed /\ 2 * pair >= square THEN pair - square ELSE pair

LEMMA ArchDivIs ==
  ASSUME NEW s, NEW i, NEW signed, signed = (i.op = "idiv"),
         NEW n, n = ArchDividend(signed, ArchPair(s, i.size), CpuTop(i.size) * CpuTop(i.size)),
         NEW m, m = CpuDivisor(signed, CpuRead(s, i.d, i.size, i.rex), i.size)
  PROVE  ArchDiv(s, i) = ArchDivDone(s, i.size, ArchResults(signed, i.size, n, m), n, m)
<1> DEFINE abs(v) == IF v < 0 THEN -v ELSE v
           range == IF i.op = "idiv" THEN -CpuSign(i.size)..CpuSign(i.size) - 1
                    ELSE 0..CpuTop(i.size) - 1
           set(x, y) == {q \in range : /\ abs(x - q * y) < abs(y)
                                       /\ x - q * y = 0 \/ ((x - q * y < 0) = (x < 0))}
           left(x, y, q) == ArchSetPair(s, i.size, CpuUns(q, i.size), CpuUns(x - q * y, i.size))
           done(x, y, results) == IF y = 0 \/ results = {} THEN CpuFault("divide error")
                                  ELSE left(x, y, CHOOSE q \in results : TRUE)
           pair == ArchPair(s, i.size)
           square == CpuTop(i.size) * CpuTop(i.size)
           dividend == IF i.op = "idiv" /\ 2 * pair >= square THEN pair - square ELSE pair
           divisor == IF i.op = "idiv" THEN CpuSgn(CpuRead(s, i.d, i.size, i.rex), i.size)
                      ELSE CpuRead(s, i.d, i.size, i.rex)
<1>1. ArchDiv(s, i) = done(dividend, divisor, set(dividend, divisor))
  BY Zenon DEF ArchDiv
<1>2. dividend = n
  BY Zenon DEF ArchDividend
<1>3. divisor = m
  BY Zenon DEF CpuDivisor
<1>4. set(n, m) = ArchResults(signed, i.size, n, m)
  <2>1. ArchDivRange(signed, i.size) = range
    BY Zenon DEF ArchDivRange
  <2>2. \A q \in range : ArchTruncates(n, m, q) <=>
                           /\ abs(n - q * m) < abs(m)
                           /\ n - q * m = 0 \/ ((n - q * m < 0) = (n < 0))
    BY Zenon DEF ArchTruncates, CpuAbs
  <2> HIDE DEF range, abs
  <2> QED  BY <2>1, <2>2, Zenon DEF ArchResults
<1> HIDE DEF dividend, divisor, set
<1>5. ArchDiv(s, i) = done(n, m, ArchResults(signed, i.size, n, m))
  <2> HIDE DEF done
  <2> QED  BY <1>1, <1>2, <1>3, <1>4
<1> QED  BY <1>5, Zenon DEF ArchDivDone, ArchDivLeft

SquareParts(T, a, k, h, r, x, t) ==
  a = T * k + h /\ 0 <= h /\ h < T /\ 0 <= r /\ r < T /\ x = T * a + r /\ t = T * h + r

LEMMA SquareRemainder ==
  ASSUME NEW T \in Nat \ {0}, NEW a \in Int, NEW k \in Int, NEW h \in Int, NEW r \in Int,
         NEW x \in Int, NEW t \in Int, SquareParts(T, a, k, h, r, x, t)
  PROVE  x % (T * T) = t
<1> USE DEF SquareParts
<1>1. PICK Q \in Nat \ {0} : Q = T * T
  <2>1. T * T \in Nat \ {0}
    OBVIOUS
  <2> QED  BY <2>1
<1>2. x = Q * k + t /\ t \in Int
  <2>1. T * (T * k + h) = (T * T) * k + T * h
    OBVIOUS
  <2> QED  BY <1>1, <2>1
<1>3. 0 <= t /\ t < Q
  <2>1. h \in Nat
    OBVIOUS
  <2>2. T * h \in Nat
    BY <2>1
  <2>3. PICK j \in Nat : T = h + 1 + j
    <3>1. T - h - 1 \in Nat /\ T = h + 1 + (T - h - 1)
      OBVIOUS
    <3> QED  BY <3>1
  <2>4. T * T = T * h + T + T * j /\ T * j \in Nat
    BY <2>3
  <2> QED  BY <1>1, <2>2, <2>4
<1>4. (Q * k + t) % Q = t
  BY <1>2, <1>3, DividedOnce
<1> QED  BY <1>1, <1>2, <1>4

\* The dividend is the pair, where a division defines anything.
LEMMA CpuDividendExact ==
  ASSUME NEW s \in CpuState, NEW size \in {4, 8}, NEW signed \in BOOLEAN,
         ~signed => s.reg[2] < CpuTop(size),
         NEW square, square = CpuTop(size) * CpuTop(size)
  PROVE  /\ CpuDividend(signed, CpuBoth(s, size), square)
              = ArchDividend(signed, ArchPair(s, size), square)
         /\ ArchDividend(signed, ArchPair(s, size), square) \in Int
         /\ ~signed => ArchDividend(signed, ArchPair(s, size), square) >= 0
<1>0. size \in CpuAllSizes /\ size # 1
  BY DEF CpuAllSizes
<1>1. PICK T \in Nat \ {0} : T = CpuTop(size)
  BY <1>0, CpuTops
<1>2. PICK a \in Nat : a = s.reg[2]
  BY CpuStateRegs DEF CpuRegs
<1>3. PICK r \in Int : r = CpuUns(s.reg[0], size) /\ 0 <= r /\ r < T
  <2>1. s.reg[0] \in Int
    BY CpuStateRegs DEF CpuRegs
  <2> QED  BY <1>0, <1>1, <2>1, CpuUnsTyped
<1>4. PICK h \in Int : h = CpuUns(a, size) /\ 0 <= h /\ h < T
  BY <1>0, <1>1, CpuUnsTyped
<1>5. PICK k \in Int : a = T * k + h
  <2>1. PICK j \in Int : a = CpuUns(a, size) + CpuTop(size) * j
    BY <1>0, CpuUnsIs
  <2> QED  BY <1>1, <1>4, <2>1
<1>6. PICK both \in Int : both = T * a + r
  OBVIOUS
<1>7. PICK pair \in Int : pair = T * h + r
  OBVIOUS
<1>8. CpuBoth(s, size) = both /\ ArchPair(s, size) = pair /\ square = T * T
  <2>1. T * a = a * T /\ T * h = h * T
    OBVIOUS
  <2>2. CpuBoth(s, size) = a * T + r
    BY <1>1, <1>2, <1>3, Zenon DEF CpuBoth
  <2>3. ArchPair(s, size) = h * T + r
    BY <1>0, <1>1, <1>2, <1>3, <1>4, Zenon DEF ArchPair
  <2> QED  BY <1>1, <1>6, <1>7, <2>1, <2>2, <2>3
<1>9. both % square = pair
  <2>1. both % (T * T) = pair
    <3>1. SquareParts(T, a, k, h, r, both, pair)
      BY <1>3, <1>4, <1>5, <1>6, <1>7 DEF SquareParts
    <3>2. a \in Int
      OBVIOUS
    <3> QED  BY <3>1, <3>2, SquareRemainder, Zenon
  <2> QED  BY <1>8, <2>1
<1>10. PICK Q \in Int : Q = square
  BY <1>8
<1>11. pair >= 0
  <2>1. h \in Nat
    BY <1>4
  <2>2. T * h \in Nat
    BY <2>1
  <2> QED  BY <1>3, <1>7, <2>2
<1>12. CASE signed
  <2>1. CpuDividend(signed, both, Q) = IF 2 * pair >= Q THEN pair - Q ELSE pair
    BY <1>9, <1>10, <1>12, Zenon DEF CpuDividend
  <2>2. ArchDividend(signed, pair, Q) = IF 2 * pair >= Q THEN pair - Q ELSE pair
    BY <1>12, Zenon DEF ArchDividend
  <2>3. (IF 2 * pair >= Q THEN pair - Q ELSE pair) \in Int
    OBVIOUS
  <2> QED  BY <1>8, <1>10, <1>12, <2>1, <2>2, <2>3
<1>13. CASE ~signed
  <2>1. a = h
    <3>1. a \in 0..CpuTop(size) - 1 /\ a \in Int
      BY <1>1, <1>2, <1>13
    <3> QED  BY <1>0, <1>4, <3>1, CpuUnsIs
  <2>2. both = pair
    BY <1>6, <1>7, <2>1
  <2>3. CpuDividend(signed, both, Q) = both
    BY <1>13, Zenon DEF CpuDividend
  <2>4. ArchDividend(signed, pair, Q) = pair
    BY <1>13, Zenon DEF ArchDividend
  <2> QED  BY <1>8, <1>10, <1>11, <2>2, <2>3, <2>4
<1> QED  BY <1>12, <1>13

LEMMA CpuDivKept ==
  ASSUME NEW s \in CpuState, NEW i \in CpuInsns, i.op \in CpuDivOps
  PROVE  /\ i.size \in {1, 2} => CpuKept(s, i) = {}
         /\ i.op = "div" /\ i.size = 4 /\ s.reg[2] >= CpuTop(4) => CpuKept(s, i) = {}
<1>1. ArchDefines(s, i) = {"regs"}
  BY DEF ArchDefines, CpuDivOps
<1>2. i.size \in {1, 2} => CpuMisses(s, i) = {"regs"}
  BY DEF CpuMisses, CpuDivOps
<1>3. i.op = "div" /\ i.size = 4 /\ s.reg[2] >= CpuTop(4) => CpuMisses(s, i) = {"regs"}
  <2> HAVE i.op = "div" /\ i.size = 4 /\ s.reg[2] >= CpuTop(4)
  <2>1. PICK yes \in BOOLEAN : yes = TRUE /\ yes = (s.reg[2] >= CpuTop(4))
    <3>1. (s.reg[2] >= CpuTop(4)) = TRUE
      <4>1. CpuTop(4) \in Int /\ s.reg[2] \in Int
        BY CpuTops, CpuStateRegs DEF CpuAllSizes, CpuRegs
      <4> QED  BY <4>1
    <3> QED  BY <3>1
  <2> QED  BY <2>1 DEF CpuMisses, CpuDivOps
<1> QED  BY <1>1, <1>2, <1>3 DEF CpuKept

LEMMA CpuDivAgreed ==
  ASSUME NEW s \in CpuState, NEW i \in CpuInsns, i.op \in CpuDivOps
  PROVE  CpuAgreed(s, i)
<1>1. CpuNamed(i.d, i.size, i.rex) /\ i.size \in CpuAllSizes
  BY CpuInsnParts
<1>2. CASE CpuKept(s, i) = {}
  <2>1. \A t, u : CpuAgreesOn({}, t, u)
    BY DEF CpuAgreesOn
  <2> QED  BY <1>2, <2>1 DEF CpuAgreed
<1>3. CASE CpuKept(s, i) # {}
  <2>1. i.size \in {4, 8}
    BY <1>1, <1>3, CpuDivKept DEF CpuAllSizes
  <2>2. PICK signed \in BOOLEAN : signed = (i.op = "idiv")
    OBVIOUS
  <2>3. PICK T \in Nat \ {0} : T = CpuTop(i.size)
    BY <1>1, CpuTops
  <2>4. PICK S \in Nat \ {0} : S = CpuSign(i.size)
    BY <1>1, CpuTops
  <2>5. ~signed => s.reg[2] < CpuTop(i.size)
    <3>1. s.reg[2] \in Nat /\ s.reg[2] < CpuTop(8) /\ CpuTop(8) \in Nat /\ CpuTop(4) \in Nat
      BY CpuStateRegs, CpuTops DEF CpuRegs, CpuAllSizes
    <3>2. ~signed => i.op = "div"
      BY <2>2 DEF CpuDivOps
    <3> QED  BY <1>3, <2>1, <3>1, <3>2, CpuDivKept
  <2>6. PICK square : square = CpuTop(i.size) * CpuTop(i.size)
    OBVIOUS
  <2>7. PICK n \in Int : /\ n = ArchDividend(signed, ArchPair(s, i.size), square)
                         /\ n = CpuDividend(signed, CpuBoth(s, i.size), square)
                         /\ ~signed => n >= 0
    BY <2>1, <2>5, <2>6, CpuDividendExact
  <2>8. PICK m \in Int : /\ m = CpuDivisor(signed, CpuRead(s, i.d, i.size, i.rex), i.size)
                         /\ ~signed => m >= 0
    <3>1. PICK raw \in Nat : raw = CpuRead(s, i.d, i.size, i.rex)
      BY <1>1, CpuReadIs
    <3>2. CpuSgn(raw, i.size) \in Int
      BY <1>1, CpuSgnIs
    <3>3. CpuDivisor(signed, raw, i.size) = IF signed THEN CpuSgn(raw, i.size) ELSE raw
      BY Zenon DEF CpuDivisor
    <3> QED  BY <3>1, <3>2, <3>3
  <2>9. PICK q : q = CpuQuotient(n, m)
    OBVIOUS
  <2>10. PICK results : results = ArchResults(signed, i.size, n, m)
    OBVIOUS
  <2>11. CpuDo(s, i) = CpuDivDone(s, signed, i.size, q, n, m)
    <3>1. CpuDo(s, i) = CpuDoDiv(s, i)
      BY CpuDoBy
    <3>2. CpuDoDiv(s, i) = CpuDivDone(s, signed, i.size, q, n, m)
      BY <2>2, <2>6, <2>7, <2>8, <2>9, CpuDivIs
    <3> QED  BY <3>1, <3>2
  <2>12. Arch(s, i) = ArchDivDone(s, i.size, results, n, m)
    <3>1. Arch(s, i) = ArchDiv(s, i)
      BY ArchBy
    <3>2. ArchDiv(s, i) = ArchDivDone(s, i.size, results, n, m)
      BY <2>2, <2>6, <2>7, <2>8, <2>10, ArchDivIs
    <3> QED  BY <3>1, <3>2
  <2>13. \A why : CpuFaults(CpuFault(why))
    BY DEF CpuFaults, CpuFault
  <2>14. \A t, u : (CpuFaults(t) /\ CpuFaults(u)) \/ t = u => CpuAgreesOn(CpuKept(s, i), t, u)
    BY DEF CpuAgreesOn, CpuFaults
  <2>15. CASE m = 0
    <3>1. CpuFaults(CpuDo(s, i)) /\ CpuFaults(Arch(s, i))
      BY <2>11, <2>12, <2>13, <2>15, Zenon DEF CpuDivDone, ArchDivDone
    <3> QED  BY <2>14, <3>1 DEF CpuAgreed
  <2>16. CASE m # 0
    <3>1. q \in Int /\ ArchTruncates(n, m, q) /\ (n >= 0 /\ m >= 0 => q >= 0)
      BY <2>9, <2>16, CpuQuotientExact
    <3>2. \A p \in Int : ArchTruncates(n, m, p) => p = q
      BY <3>1, ArchTruncatesOnce
    <3>3. CpuDivFits(signed, q, i.size) <=> q \in ArchDivRange(signed, i.size)
      <4>1. CASE signed
        <5>1. CpuDivFits(signed, q, i.size) <=> (q >= -S /\ q < S)
          BY <2>4, <4>1, Zenon DEF CpuDivFits
        <5>2. ArchDivRange(signed, i.size) = -S..S - 1
          BY <2>4, <4>1, Zenon DEF ArchDivRange
        <5> QED  BY <3>1, <5>1, <5>2
      <4>2. CASE ~signed
        <5>1. CpuDivFits(signed, q, i.size) <=> q < T
          BY <2>3, <4>2, Zenon DEF CpuDivFits
        <5>2. ArchDivRange(signed, i.size) = 0..T - 1
          BY <2>3, <4>2, Zenon DEF ArchDivRange
        <5>3. q >= 0
          BY <2>7, <2>8, <3>1, <4>2
        <5> QED  BY <3>1, <5>1, <5>2, <5>3
      <4> QED  BY <4>1, <4>2
    <3>4. ArchDivRange(signed, i.size) \subseteq Int
      BY <2>3, <2>4 DEF ArchDivRange
    <3>5. CASE ~CpuDivFits(signed, q, i.size)
      <4>1. results = {}
        BY <2>10, <3>2, <3>3, <3>4, <3>5 DEF ArchResults
      <4>2. CpuFaults(CpuDo(s, i)) /\ CpuFaults(Arch(s, i))
        BY <2>11, <2>12, <2>13, <2>16, <3>5, <4>1, Zenon DEF CpuDivDone, ArchDivDone
      <4> QED  BY <2>14, <4>2 DEF CpuAgreed
    <3>6. CASE CpuDivFits(signed, q, i.size)
      <4>1. results = {q}
        BY <2>10, <3>1, <3>2, <3>3, <3>4, <3>6 DEF ArchResults
      <4>2. (CHOOSE p \in results : TRUE) = q /\ results # {}
        BY <4>1
      <4>3. CpuDo(s, i) = CpuDivLeft(s, i.size, q, n, m)
        BY <2>11, <2>16, <3>6, Zenon DEF CpuDivDone
      <4>4. Arch(s, i) = ArchDivLeft(s, i.size, q, n, m)
        BY <2>12, <2>16, <4>2, Zenon DEF ArchDivDone
      <4>5. PICK rem \in Int : rem = n - q * m
        BY <3>1
      <4>6. PICK lo \in 0..CpuTop(i.size) - 1 : lo = CpuUns(q, i.size)
        BY <1>1, <3>1, CpuUnsTyped
      <4>7. PICK hi \in 0..CpuTop(i.size) - 1 : hi = CpuUns(rem, i.size)
        BY <1>1, CpuUnsTyped
      <4>8. CpuDivLeft(s, i.size, q, n, m) = CpuSet(CpuSet(s, 0, lo), 2, hi)
        BY <4>5, <4>6, <4>7, Zenon DEF CpuDivLeft
      <4>9. ArchDivLeft(s, i.size, q, n, m) = ArchSetPair(s, i.size, lo, hi)
        BY <4>5, <4>6, <4>7, Zenon DEF ArchDivLeft
      <4>10. CpuSet(CpuSet(s, 0, lo), 2, hi) = ArchSetPair(s, i.size, lo, hi)
        BY <1>1, <2>1, ArchSetPairIs
      <4>11. CpuDo(s, i) = Arch(s, i)
        BY <4>3, <4>4, <4>8, <4>9, <4>10
      <4> QED  BY <2>14, <4>11 DEF CpuAgreed
    <3> QED  BY <3>5, <3>6
  <2> QED  BY <2>15, <2>16
<1> QED  BY <1>2, <1>3

-----------------------------------------------------------------------------
(* Rotations.  Ring(n, x, c) is a word x of n bits turned left c times.      *)

Ring(n, x, c) == (x % 2 ^ (n - c)) * 2 ^ c + x \div 2 ^ (n - c)

\* One turn of a word of which M is the value of the top bit: w is v turned left, v is w turned
\* right, and bit is the bit that goes round.
RingNext(v, w, M, bit) ==
  /\ v \in 0..2 * M - 1 /\ w \in 0..2 * M - 1
  /\ w = ((2 * v) % (2 * M)) + v \div M /\ v = (w \div 2) + (w % 2) * M
  /\ v \div M = bit /\ w % 2 = bit

LEMMA RingTurn ==
  ASSUME NEW M \in Nat \ {0}, NEW y \in Nat, y < M, NEW bit \in {0, 1},
         NEW v, v = bit * M + y, NEW w, w = 2 * y + bit
  PROVE  RingNext(v, w, M, bit)
<1>1. v = M * bit + y
  OBVIOUS
<1>2. v \div M = bit
  <2>1. (M * bit + y) \div M = bit
    BY DividedOnce
  <2> QED  BY <1>1, <2>1
<1>3. w \div 2 = y /\ w % 2 = bit
  OBVIOUS
<1>4. (2 * v) % (2 * M) = 2 * y
  <2>1. PICK N \in Nat \ {0} : N = 2 * M
    OBVIOUS
  <2>2. 2 * v = N * bit + 2 * y /\ 0 <= 2 * y /\ 2 * y < N
    BY <1>1, <2>1
  <2>3. (N * bit + 2 * y) % N = 2 * y
    BY <2>2, DividedOnce
  <2> QED  BY <2>1, <2>2, <2>3
<1>5. v \in 0..2 * M - 1 /\ w \in 0..2 * M - 1
  OBVIOUS
<1>6. v = y + bit * M
  OBVIOUS
<1> QED  BY <1>2, <1>3, <1>4, <1>5, <1>6 DEF RingNext

\* A word as its upper bits, the bit that goes round and its lower bits.
RingParts(P, Q, x, h, bit, l) ==
  /\ x = (2 * Q) * h + (Q * bit + l) /\ h < P /\ l < Q
  /\ x % (2 * Q) = Q * bit + l /\ x \div (2 * Q) = h
  /\ x % Q = l /\ x \div Q = 2 * h + bit /\ (x \div Q) % 2 = bit

LEMMA RingParted ==
  ASSUME NEW P \in Nat \ {0}, NEW Q \in Nat \ {0}, NEW x \in Nat, x < 2 * (P * Q)
  PROVE  \E h \in Nat, bit \in {0, 1}, l \in Nat : RingParts(P, Q, x, h, bit, l)
<1>1. PICK l \in Nat : l = x % Q /\ l < Q
  BY Divided
<1>2. PICK k \in Int : k = x \div Q
  OBVIOUS
<1>3. x = Q * k + l
  <2>1. x \in Int
    OBVIOUS
  <2>2. x = Q * (x \div Q) + (x % Q)
    BY <2>1, Divided
  <2> QED  BY <1>1, <1>2, <2>2
<1>4. k >= 0
  <2>1. ASSUME k <= -1 PROVE FALSE
    <3>1. PICK j \in Nat : k = -1 - j
      <4>1. -1 - k \in Nat /\ k = -1 - (-1 - k)
        BY <2>1
      <4> QED  BY <4>1
    <3>2. Q * k = -Q - Q * j /\ Q * j \in Nat
      BY <3>1
    <3> QED  BY <1>1, <1>3, <3>2
  <2> QED  BY <2>1
<1>5. PICK h \in Nat : h = k \div 2
  BY <1>4
<1>6. PICK bit \in {0, 1} : bit = k % 2
  OBVIOUS
<1>7. k = 2 * h + bit
  BY <1>5, <1>6
<1>8. x = (2 * Q) * h + (Q * bit + l)
  <2>1. Q * (2 * h + bit) = (2 * Q) * h + Q * bit
    OBVIOUS
  <2> QED  BY <1>3, <1>7, <2>1
<1>9. 0 <= Q * bit + l /\ Q * bit + l < 2 * Q /\ Q * bit + l \in Int
  BY <1>1
<1>10. x % (2 * Q) = Q * bit + l /\ x \div (2 * Q) = h
  <2>1. PICK N \in Nat \ {0} : N = 2 * Q
    OBVIOUS
  <2>2. PICK z \in Int : z = Q * bit + l /\ 0 <= z /\ z < N
    BY <1>9, <2>1
  <2>3. (N * h + z) % N = z /\ (N * h + z) \div N = h
    BY <2>2, DividedOnce
  <2>4. x = N * h + z
    BY <1>8, <2>1, <2>2
  <2> QED  BY <2>1, <2>2, <2>3, <2>4
<1>11. h < P
  <2>1. ASSUME h >= P PROVE FALSE
    <3>1. PICK j \in Nat : h = P + j
      <4>1. h - P \in Nat /\ h = P + (h - P)
        BY <2>1
      <4> QED  BY <4>1
    <3>2. (2 * Q) * h = 2 * (P * Q) + (2 * Q) * j /\ (2 * Q) * j \in Nat
      BY <3>1
    <3> QED  BY <1>8, <1>9, <3>2
  <2> QED  BY <2>1
<1>12. RingParts(P, Q, x, h, bit, l)
  BY <1>1, <1>2, <1>6, <1>7, <1>8, <1>10, <1>11 DEF RingParts
<1> QED  BY <1>12

LEMMA RingTurnsParts ==
  ASSUME NEW P \in Nat \ {0}, NEW Q \in Nat \ {0}, NEW x \in Nat, x < 2 * (P * Q),
         NEW v, v = (x % (2 * Q)) * P + x \div (2 * Q),
         NEW w, w = (x % Q) * (2 * P) + x \div Q
  PROVE  RingNext(v, w, P * Q, (x \div Q) % 2)
<1>1. PICK h \in Nat, bit \in {0, 1}, l \in Nat : RingParts(P, Q, x, h, bit, l)
  BY RingParted
<1>2. h < P /\ l < Q /\ (x \div Q) % 2 = bit
  BY <1>1 DEF RingParts
<1>3. PICK M \in Nat \ {0} : M = P * Q
  <2>1. P * Q \in Nat \ {0}
    OBVIOUS
  <2> QED  BY <2>1
<1>4. PICK y \in Nat : y = l * P + h
  <2>1. l * P \in Nat
    OBVIOUS
  <2> QED  BY <2>1
<1>5. y < M
  <2>1. PICK j \in Nat : Q = l + 1 + j
    <3>1. Q - l - 1 \in Nat /\ Q = l + 1 + (Q - l - 1)
      BY <1>2
    <3> QED  BY <3>1
  <2>2. P * Q = l * P + P + P * j /\ P * j \in Nat
    BY <2>1
  <2> QED  BY <1>2, <1>3, <1>4, <2>2
<1>6. v = bit * M + y
  <2>1. v = (Q * bit + l) * P + h
    BY <1>1 DEF RingParts
  <2>2. (Q * bit + l) * P = bit * (P * Q) + l * P
    OBVIOUS
  <2> QED  BY <1>3, <1>4, <2>1, <2>2
<1>7. w = 2 * y + bit
  <2>1. w = l * (2 * P) + (2 * h + bit)
    BY <1>1 DEF RingParts
  <2>2. l * (2 * P) = 2 * (l * P)
    OBVIOUS
  <2> QED  BY <1>4, <2>1, <2>2
<1> QED  BY <1>2, <1>3, <1>5, <1>6, <1>7, RingTurn

LEMMA RingTurned ==
  ASSUME NEW n \in Nat \ {0}, NEW x \in 0..2 ^ n - 1, NEW c \in Nat, c < n
  PROVE  RingNext(Ring(n, x, c), Ring(n, x, c + 1), 2 ^ (n - 1), (x \div 2 ^ (n - c - 1)) % 2)
<1>1. PICK P \in Nat \ {0} : P = 2 ^ c
  BY CpuPowers
<1>2. PICK j \in Nat : j = n - c - 1
  OBVIOUS
<1>3. PICK Q \in Nat \ {0} : Q = 2 ^ j
  BY CpuPowers
<1>4. 2 ^ (n - 1) = P * Q
  <2>1. n - 1 = c + j
    BY <1>2
  <2> QED  BY <1>1, <1>3, <2>1, PowerAdds
<1>5. 2 ^ (n - c) = 2 * Q /\ 2 ^ (c + 1) = 2 * P
  <2>1. n - c = j + 1
    BY <1>2
  <2> QED  BY <1>1, <1>3, <2>1, PowerStep
<1>6. 2 ^ n = 2 * (P * Q)
  <2>1. n = (n - 1) + 1 /\ n - 1 \in Nat
    OBVIOUS
  <2>2. 2 ^ ((n - 1) + 1) = 2 * 2 ^ (n - 1)
    BY <2>1, PowerStep, Zenon
  <2> QED  BY <1>4, <2>1, <2>2
<1>7. x \in Nat /\ x < 2 * (P * Q)
  <2>1. PICK N \in Nat : N = 2 * (P * Q)
    OBVIOUS
  <2>2. x \in 0..N - 1
    BY <1>6, <2>1
  <2> QED  BY <2>1, <2>2
<1>8. Ring(n, x, c) = (x % (2 * Q)) * P + x \div (2 * Q)
  BY <1>1, <1>5, Zenon DEF Ring
<1>9. Ring(n, x, c + 1) = (x % Q) * (2 * P) + x \div Q
  <2>1. n - (c + 1) = j
    BY <1>2
  <2> QED  BY <1>3, <1>5, <2>1, Zenon DEF Ring
<1> QED  BY <1>2, <1>3, <1>4, <1>7, <1>8, <1>9, RingTurnsParts

\* A word turned all the way round is itself.
LEMMA RingEnds ==
  ASSUME NEW n \in Nat, NEW x \in 0..2 ^ n - 1
  PROVE  Ring(n, x, 0) = x /\ Ring(n, x, n) = x
<1>1. PICK N \in Nat \ {0} : N = 2 ^ n
  BY CpuPowers
<1>2. x \in Nat /\ x < N
  BY <1>1
<1>3. 2 ^ 0 = 1
  OBVIOUS
<1>4. x % N = x /\ x \div N = 0
  <2>1. (N * 0 + x) % N = x /\ (N * 0 + x) \div N = 0
    BY <1>2, DividedOnce
  <2>2. N * 0 + x = x
    BY <1>2
  <2> QED  BY <2>1, <2>2
<1>5. n - 0 = n /\ n - n = 0
  OBVIOUS
<1>6. Ring(n, x, 0) = (x % N) * 1 + x \div N
  BY <1>1, <1>3, <1>5, Zenon DEF Ring
<1>7. Ring(n, x, n) = (x % 1) * N + x \div 1
  BY <1>1, <1>3, <1>5, Zenon DEF Ring
<1>8. x % 1 = 0 /\ x \div 1 = x
  BY <1>2
<1> QED  BY <1>1, <1>2, <1>4, <1>6, <1>7, <1>8

-----------------------------------------------------------------------------
(* Shifts and rotates, one bit at a time.                                   *)

CpuTurnOps == CpuRotateOps \cup CpuShiftOps
ArchLeftOps == {"rol", "rcl", "shl"}
ArchShifted(size) == [a : 0..CpuTop(size) - 1, cf : BOOLEAN]

\* The word after one bit.
ArchShift1Word(op, v, size) ==
  CASE op = "rol" -> ((2 * v.a) % CpuTop(size)) + v.a \div CpuSign(size)
    [] op = "rcl" -> ((2 * v.a) % CpuTop(size)) + (IF v.cf THEN 1 ELSE 0)
    [] op = "shl" -> (2 * v.a) % CpuTop(size)
    [] op = "ror" -> (v.a \div 2) + (v.a % 2) * CpuSign(size)
    [] op = "rcr" -> (v.a \div 2) + (IF v.cf THEN 1 ELSE 0) * CpuSign(size)
    [] op = "shr" -> v.a \div 2
    [] op = "sar" -> (v.a \div 2) + (v.a \div CpuSign(size)) * CpuSign(size)

LEMMA ArchBits ==
  ASSUME NEW S \in Nat \ {0}, NEW a \in 0..2 * S - 1
  PROVE  /\ a \div S \in {0, 1} /\ a % 2 \in {0, 1} /\ (a \div S = 1 <=> a >= S)
         /\ a \div 2 \in 0..S - 1 /\ a = 2 * (a \div 2) + (a % 2)
         /\ (2 * a) % (2 * S) \in 0..2 * S - 2
         /\ (2 * a) % (2 * S) = 2 * a - 2 * S * (a \div S)
<1>1. a \div S = (IF a >= S THEN 1 ELSE 0)
  <2>1. CASE a >= S
    <3>1. a = S * 1 + (a - S) /\ 0 <= a - S /\ a - S < S /\ a - S \in Int
      BY <2>1
    <3>2. (S * 1 + (a - S)) \div S = 1
      BY <3>1, DividedOnce
    <3> QED  BY <2>1, <3>1, <3>2
  <2>2. CASE a < S
    <3>1. a = S * 0 + a /\ 0 <= a /\ a \in Int
      BY <2>2
    <3>2. (S * 0 + a) \div S = 0
      BY <2>2, <3>1, DividedOnce
    <3> QED  BY <2>2, <3>1, <3>2
  <2> QED  BY <2>1, <2>2
<1>2. a \in Nat /\ a % 2 \in {0, 1} /\ a = 2 * (a \div 2) + (a % 2) /\ a \div 2 \in 0..S - 1
  OBVIOUS
<1>3. PICK N \in Nat \ {0} : N = 2 * S
  OBVIOUS
<1>4. (2 * a) % N = (IF a >= S THEN 2 * a - N ELSE 2 * a)
  <2>1. CASE a >= S
    <3>1. 2 * a = N * 1 + (2 * a - N) /\ 0 <= 2 * a - N /\ 2 * a - N < N /\ 2 * a - N \in Int
      BY <1>3, <2>1
    <3>2. (N * 1 + (2 * a - N)) % N = 2 * a - N
      BY <3>1, DividedOnce
    <3> QED  BY <2>1, <3>1, <3>2
  <2>2. CASE a < S
    <3>1. 2 * a = N * 0 + 2 * a /\ 0 <= 2 * a /\ 2 * a < N /\ 2 * a \in Int
      BY <1>3, <2>2
    <3>2. (N * 0 + 2 * a) % N = 2 * a
      BY <3>1, DividedOnce
    <3> QED  BY <2>2, <3>1, <3>2
  <2> QED  BY <2>1, <2>2
<1>5. a \div S \in {0, 1} /\ (a \div S = 1 <=> a >= S)
  BY <1>1
<1>6. 2 * S * 1 = N /\ 2 * S * 0 = 0
  BY <1>3
<1>7. (2 * a) % (2 * S) = 2 * a - 2 * S * (a \div S)
  <2>1. CASE a >= S
    BY <1>1, <1>3, <1>4, <1>6, <2>1
  <2>2. CASE a < S
    BY <1>1, <1>3, <1>4, <1>6, <2>2
  <2> QED  BY <2>1, <2>2
<1>8. (2 * a) % (2 * S) \in 0..2 * S - 2
  BY <1>3, <1>4
<1> QED  BY <1>2, <1>5, <1>7, <1>8

LEMMA ArchShift1Is ==
  ASSUME NEW size \in CpuAllSizes, NEW op \in CpuTurnOps, NEW v \in ArchShifted(size),
         NEW x, x = ArchShift1(op, v, size)
  PROVE  /\ x \in ArchShifted(size) /\ x.a = ArchShift1Word(op, v, size)
         /\ op \in ArchLeftOps => x.cf = (v.a \div CpuSign(size) = 1)
         /\ op \notin ArchLeftOps => x.cf = (v.a % 2 = 1)
<1>1. PICK S \in Nat \ {0} : S = CpuSign(size) /\ CpuTop(size) = 2 * S
  BY CpuTops
<1>2. PICK a \in 0..2 * S - 1 : a = v.a
  BY <1>1 DEF ArchShifted
<1>3. PICK c \in BOOLEAN : c = v.cf
  BY DEF ArchShifted
<1>4. PICK high \in {0, 1} : high = a \div S
  BY ArchBits
<1>5. PICK low \in {0, 1} : low = a % 2
  BY ArchBits
<1>6. PICK carry \in {0, 1} : carry = IF c THEN 1 ELSE 0
  OBVIOUS
<1>7. PICK double \in 0..2 * S - 2 : double = (2 * a) % (2 * S)
  BY ArchBits
<1>8. PICK half \in 0..S - 1 : half = a \div 2
  BY ArchBits
<1>9. PICK into \in {0, 1} :
        into = (CASE op = "rol" -> high [] op = "ror" -> low [] op \in {"rcl", "rcr"} -> carry
                  [] op \in {"shl", "shr"} -> 0 [] op = "sar" -> high)
  BY DEF CpuTurnOps, CpuRotateOps, CpuShiftOps
<1>10. x = IF op \in {"rol", "rcl", "shl"}
           THEN [a |-> CpuUns(a * 2, size) + into, cf |-> high = 1]
           ELSE [a |-> half + into * S, cf |-> low = 1]
  <2>1. ArchShift1(op, v, size) =
          (LET l == a % 2
               h == a \div S
               k == IF c THEN 1 ELSE 0
               n == CASE op = "rol" -> h [] op = "ror" -> l [] op \in {"rcl", "rcr"} -> k
                      [] op \in {"shl", "shr"} -> 0 [] op = "sar" -> h
           IN IF op \in {"rol", "rcl", "shl"} THEN [a |-> CpuUns(a * 2, size) + n, cf |-> h = 1]
              ELSE [a |-> a \div 2 + n * S, cf |-> l = 1])
    BY <1>1, <1>2, <1>3, Zenon DEF ArchShift1
  <2> QED  BY <1>4, <1>5, <1>6, <1>8, <1>9, <2>1, Zenon
<1>11. CpuUns(a * 2, size) = double
  <2>1. a * 2 = 2 * a
    OBVIOUS
  <2> QED  BY <1>1, <1>7, <2>1, Zenon DEF CpuUns
<1>12. into * S \in {0, S} /\ (into = 0 => into * S = 0) /\ (into = 1 => into * S = S)
  OBVIOUS
<1>13. CASE op \in ArchLeftOps
  <2>1. x = [a |-> double + into, cf |-> high = 1]
    BY <1>10, <1>11, <1>13, Zenon DEF ArchLeftOps
  <2>2. x \in ArchShifted(size)
    BY <1>1, <2>1 DEF ArchShifted
  <2>3. x.a = double + into /\ x.cf = (high = 1)
    BY <2>1
  <2>4. ArchShift1Word(op, v, size) = double + into
    <3>1. CASE op = "rol"
      <4>1. into = high
        BY <1>9, <3>1
      <4> QED  BY <1>1, <1>2, <1>4, <1>7, <3>1, <4>1 DEF ArchShift1Word
    <3>2. CASE op = "rcl"
      <4>1. into = carry
        BY <1>9, <3>2
      <4> QED  BY <1>1, <1>2, <1>3, <1>6, <1>7, <3>2, <4>1 DEF ArchShift1Word
    <3>3. CASE op = "shl"
      <4>1. into = 0
        BY <1>9, <3>3
      <4>2. ArchShift1Word(op, v, size) = double
        BY <1>1, <1>2, <1>7, <3>3 DEF ArchShift1Word
      <4> QED  BY <4>1, <4>2
    <3> QED  BY <1>13, <3>1, <3>2, <3>3 DEF ArchLeftOps
  <2> QED  BY <1>1, <1>2, <1>4, <1>13, <2>2, <2>3, <2>4
<1>14. CASE op \notin ArchLeftOps
  <2>1. x = [a |-> half + into * S, cf |-> low = 1]
    BY <1>10, <1>14, Zenon DEF ArchLeftOps
  <2>2. x \in ArchShifted(size)
    <3>1. half + into * S \in 0..2 * S - 1
      BY <1>12
    <3> QED  BY <1>1, <2>1, <3>1 DEF ArchShifted
  <2>3. x.a = half + into * S /\ x.cf = (low = 1)
    BY <2>1
  <2>4. ArchShift1Word(op, v, size) = half + into * S
    <3>1. CASE op = "ror"
      <4>1. into = low
        BY <1>9, <3>1
      <4> QED  BY <1>1, <1>2, <1>5, <1>8, <3>1, <4>1 DEF ArchShift1Word
    <3>2. CASE op = "rcr"
      <4>1. into = carry
        BY <1>9, <3>2
      <4> QED  BY <1>1, <1>2, <1>3, <1>6, <1>8, <3>2, <4>1 DEF ArchShift1Word
    <3>3. CASE op = "shr"
      <4>1. into = 0
        BY <1>9, <3>3
      <4>2. ArchShift1Word(op, v, size) = half
        BY <1>1, <1>2, <1>8, <3>3 DEF ArchShift1Word
      <4>3. half + into * S = half
        BY <1>12, <4>1
      <4> QED  BY <4>2, <4>3
    <3>4. CASE op = "sar"
      <4>1. into = high
        BY <1>9, <3>4
      <4> QED  BY <1>1, <1>2, <1>4, <1>8, <3>4, <4>1 DEF ArchShift1Word
    <3> QED  BY <1>14, <3>1, <3>2, <3>3, <3>4 DEF ArchLeftOps, CpuTurnOps, CpuRotateOps, CpuShiftOps
  <2> QED  BY <1>2, <1>5, <1>14, <2>2, <2>3, <2>4
<1> QED  BY <1>13, <1>14

-----------------------------------------------------------------------------
(* The words a shift goes through.                                          *)

ArchTurns(at, op, start, count, size) ==
  /\ at \in [0..count -> ArchShifted(size)] /\ at[0] = start
  /\ \A k \in 1..count : at[k] = ArchShift1(op, at[k - 1], size)

CpuTopBit(v, size) == CpuBit(v, CpuWidth(size) - 1)

ArchShiftOverflow(s, op, a, count, x, size) ==
  IF count # 1 THEN s.of
  ELSE IF op \in {"shl", "rol", "rcl"} THEN CpuTopBit(x.a, size) # x.cf
  ELSE IF op = "sar" THEN FALSE ELSE CpuTopBit(x.a, size) # CpuTopBit(a, size)

ArchShiftDone(s, i, a, count, x) ==
  IF count = 0 THEN CpuWrite(s, i.d, i.size, i.rex, a)
  ELSE CpuWrite([(IF i.op \in {"shl", "shr", "sar"} THEN CpuResultFlags(s, x.a, i.size) ELSE s)
                   EXCEPT !.cf = x.cf, !.of = ArchShiftOverflow(s, i.op, a, count, x, i.size)],
                i.d, i.size, i.rex, x.a)

LEMMA ArchShiftIs ==
  ASSUME NEW s \in CpuState, NEW i \in CpuInsns, i.op \in CpuTurnOps,
         NEW a, a = CpuRead(s, i.d, i.size, i.rex), NEW count \in Nat, count = CpuCount(s, i)
  PROVE  \E at : /\ ArchTurns(at, i.op, [a |-> a, cf |-> s.cf], count, i.size)
                 /\ ArchShift(s, i) = ArchShiftDone(s, i, a, count, at[count])
<1> DEFINE start == [a |-> a, cf |-> s.cf]
           V == ArchShifted(i.size)
           one(v) == ArchShift1(i.op, v, i.size)
           Is(g) == g = [k \in 0..count |-> IF k = 0 THEN start ELSE one(g[k - 1])]
           step == [v \in V \X (1..count) |-> one(v[1])]
<1>1. CpuNamed(i.d, i.size, i.rex) /\ i.size \in CpuAllSizes
  BY CpuInsnParts
<1>2. start \in V
  <2>1. a \in 0..CpuTop(i.size) - 1 /\ s.cf \in BOOLEAN
    BY <1>1, CpuReadIs, CpuStateParts
  <2> QED  BY <2>1 DEF ArchShifted
<1>3. ASSUME NEW v \in V PROVE one(v) \in V
  BY <1>1, ArchShift1Is
<1>4. ArchShift(s, i) = ArchShiftDone(s, i, a, count, (CHOOSE g : Is(g))[count])
  <2> DEFINE at(b, n) == CHOOSE g : g = [k \in 0..n |-> IF k = 0 THEN [a |-> b, cf |-> s.cf]
                                                       ELSE ArchShift1(i.op, g[k - 1], i.size)]
             read == CpuRead(s, i.d, i.size, i.rex)
             masked == CpuCount(s, i)
  <2>1. ArchShift(s, i) = ArchShiftDone(s, i, read, masked, at(read, masked)[masked])
    BY Zenon DEF ArchShift, ArchShiftDone, ArchShiftOverflow, CpuTopBit
  <2>2. at(a, count) = CHOOSE g : Is(g)
    OBVIOUS
  <2>3. read = a /\ masked = count
    OBVIOUS
  <2> HIDE DEF at, read, masked, Is
  <2> QED  BY <2>1, <2>2, <2>3
<1> HIDE DEF start, one, V
<1>5. ASSUME NEW v \in V, NEW k \in 1..count
      PROVE  step[<<v, k>>] = one(v) /\ step[<<v, k>>] \in V
  <2>1. step[<<v, k>>] = one(v)
    OBVIOUS
  <2> QED  BY <1>3, <2>1
<1>6. IsStep(step, V, count)
  <2> HIDE DEF step
  <2> QED  BY <1>5 DEF IsStep
<1>7. PICK f : Iterates(f, V, start, count, step)
  <2> HIDE DEF step
  <2> QED  BY <1>2, <1>6, Recursion
<1>8. f \in [0..count -> V] /\ f[0] = start
  BY <1>7 DEF Iterates
<1> HIDE DEF step
<1>9. Is(f)
  <2>1. ASSUME NEW k \in 0..count, k # 0
        PROVE  f[k] = one(f[k - 1])
    <3>1. k \in 1..count /\ k - 1 \in 0..count
      BY <2>1
    <3>2. f[k - 1] \in V
      BY <1>8, <3>1
    <3>3. f[k] = step[<<f[k - 1], k>>]
      BY <1>7, <3>1 DEF Iterates
    <3> QED  BY <1>5, <3>1, <3>2, <3>3
  <2>2. \A k \in 0..count : f[k] = IF k = 0 THEN start ELSE one(f[k - 1])
    BY <1>8, <2>1
  <2>3. f = [k \in 0..count |-> f[k]]
    BY <1>8
  <2> QED  BY <2>2, <2>3
<1>10. PICK g : g = CHOOSE h : Is(h)
  OBVIOUS
<1>11. Is(g)
  <2> HIDE DEF Is
  <2> QED  BY <1>9, <1>10
<1>12. g[0] = start /\ \A k \in 1..count : g[k] = one(g[k - 1])
  BY <1>11
<1>13. g \in [0..count -> V]
  <2> DEFINE N == {k \in Nat : k <= count => g[k] \in V}
  <2>1. 0 \in N
    BY <1>2, <1>12
  <2>2. \A k \in Nat : k \in N => k + 1 \in N
    <3> SUFFICES ASSUME NEW k \in Nat, k \in N, k + 1 <= count
                 PROVE  g[k + 1] \in V
      OBVIOUS
    <3>1. k + 1 \in 1..count /\ (k + 1) - 1 = k /\ g[k] \in V
      OBVIOUS
    <3>2. g[k + 1] = one(g[k])
      BY <1>12, <3>1
    <3> QED  BY <1>3, <3>1, <3>2
  <2>3. Nat \subseteq N
    <3> HIDE DEF N
    <3> QED  BY <2>1, <2>2, SetInduction
  <2>4. \A k \in 0..count : g[k] \in V
    BY <2>3
  <2>5. g = [k \in 0..count |-> g[k]]
    BY <1>11
  <2> QED  BY <2>4, <2>5
<1>14. ArchTurns(g, i.op, start, count, i.size)
  BY <1>12, <1>13 DEF ArchTurns, one, V
<1> HIDE DEF Is
<1>15. ArchShift(s, i) = ArchShiftDone(s, i, a, count, g[count])
  BY <1>4, <1>10
<1> QED  BY <1>14, <1>15 DEF start

\* One word to the next.
LEMMA ArchTurnsStep ==
  ASSUME NEW size \in CpuAllSizes, NEW op \in CpuTurnOps, NEW at, NEW start, NEW count \in Nat,
         ArchTurns(at, op, start, count, size), NEW k \in Nat, k + 1 <= count
  PROVE  /\ at[k] \in ArchShifted(size) /\ at[k + 1] \in ArchShifted(size)
         /\ at[k + 1].a = ArchShift1Word(op, at[k], size)
         /\ op \in ArchLeftOps => at[k + 1].cf = (at[k].a \div CpuSign(size) = 1)
         /\ op \notin ArchLeftOps => at[k + 1].cf = (at[k].a % 2 = 1)
<1>1. k \in 0..count /\ k + 1 \in 1..count /\ (k + 1) - 1 = k
  OBVIOUS
<1>2. at[k] \in ArchShifted(size) /\ at[k + 1] = ArchShift1(op, at[k], size)
  BY <1>1 DEF ArchTurns
<1> QED  BY <1>2, ArchShift1Is

-----------------------------------------------------------------------------
(* Where rotations have come to.                                            *)

LEMMA NextModulo ==
  ASSUME NEW n \in Nat \ {0}, NEW k \in Nat
  PROVE  /\ k % n \in 0..n - 1
         /\ (k + 1) % n = IF (k % n) + 1 = n THEN 0 ELSE (k % n) + 1
<1>1. PICK c \in 0..n - 1 : c = k % n
  OBVIOUS
<1>2. PICK q \in Int : q = k \div n
  OBVIOUS
<1>3. k = n * q + c
  BY <1>1, <1>2, Divided
<1>4. CASE c + 1 = n
  <2>1. k + 1 = n * (q + 1) + 0
    BY <1>3, <1>4
  <2>2. (n * (q + 1) + 0) % n = 0
    BY DividedOnce
  <2> QED  BY <1>1, <1>4, <2>1, <2>2
<1>5. CASE c + 1 # n
  <2>1. k + 1 = n * q + (c + 1) /\ 0 <= c + 1 /\ c + 1 < n /\ c + 1 \in Int
    BY <1>3, <1>5
  <2>2. (n * q + (c + 1)) % n = c + 1
    BY <2>1, DividedOnce
  <2> QED  BY <1>1, <1>5, <2>1, <2>2
<1> QED  BY <1>4, <1>5

RingGoesLeft(f, n, x, M, count) ==
  /\ f[0] = x /\ M = 2 ^ (n - 1)
  /\ \A k \in Nat : k + 1 <= count => f[k + 1] = ((2 * f[k]) % (2 * M)) + f[k] \div M
RingGoesRight(f, n, x, M, count) ==
  /\ f[0] = x /\ M = 2 ^ (n - 1)
  /\ \A k \in Nat : k + 1 <= count => f[k + 1] = (f[k] \div 2) + (f[k] % 2) * M

\* A sequence of words each of which is the one before turned left.
LEMMA RingLeft ==
  ASSUME NEW n \in Nat \ {0}, NEW x \in 0..2 ^ n - 1, NEW M,
         NEW count \in Nat, NEW f, RingGoesLeft(f, n, x, M, count)
  PROVE  \A k \in Nat : k <= count => f[k] = Ring(n, x, k % n)
<1> USE DEF RingGoesLeft
<1> DEFINE N == {k \in Nat : k <= count => f[k] = Ring(n, x, k % n)}
<1>0. Ring(n, x, 0) = x /\ Ring(n, x, n) = x
  BY RingEnds
<1>1. 0 \in N
  <2>1. 0 % n = 0
    <3>1. (n * 0 + 0) % n = 0 /\ n * 0 + 0 = 0
      BY DividedOnce
    <3> QED  BY <3>1
  <2> QED  BY <1>0, <2>1
<1>2. \A k \in Nat : k \in N => k + 1 \in N
  <2> SUFFICES ASSUME NEW k \in Nat, k \in N, k + 1 <= count
               PROVE  f[k + 1] = Ring(n, x, (k + 1) % n)
    OBVIOUS
  <2>1. PICK c \in 0..n - 1 : c = k % n
    BY NextModulo
  <2>2. f[k] = Ring(n, x, c)
    BY <2>1
  <2>3. RingNext(Ring(n, x, c), Ring(n, x, c + 1), M, (x \div 2 ^ (n - c - 1)) % 2)
    <3>1. c \in Nat /\ c < n
      OBVIOUS
    <3> QED  BY <3>1, RingTurned
  <2>4. f[k + 1] = Ring(n, x, c + 1)
    <3>1. Ring(n, x, c + 1) = ((2 * Ring(n, x, c)) % (2 * M)) + Ring(n, x, c) \div M
      BY <2>3, Zenon DEF RingNext
    <3>2. f[k + 1] = ((2 * f[k]) % (2 * M)) + f[k] \div M
      OBVIOUS
    <3> QED  BY <2>2, <3>1, <3>2
  <2>5. (k + 1) % n = IF c + 1 = n THEN 0 ELSE c + 1
    BY <2>1, NextModulo
  <2> QED  BY <1>0, <2>4, <2>5
<1>3. Nat \subseteq N
  <2> HIDE DEF N
  <2> QED  BY <1>1, <1>2, SetInduction
<1> QED  BY <1>3

\* The same to the right.
LEMMA RingRight ==
  ASSUME NEW n \in Nat \ {0}, NEW x \in 0..2 ^ n - 1, NEW M,
         NEW count \in Nat, NEW f, RingGoesRight(f, n, x, M, count)
  PROVE  \A k \in Nat : k <= count => f[k] = Ring(n, x, n - (k % n))
<1> USE DEF RingGoesRight
<1> DEFINE N == {k \in Nat : k <= count => f[k] = Ring(n, x, n - (k % n))}
<1>0. Ring(n, x, 0) = x /\ Ring(n, x, n) = x
  BY RingEnds
<1>1. 0 \in N
  <2>1. 0 % n = 0 /\ n - 0 = n
    <3>1. (n * 0 + 0) % n = 0 /\ n * 0 + 0 = 0
      BY DividedOnce
    <3> QED  BY <3>1
  <2> QED  BY <1>0, <2>1
<1>2. \A k \in Nat : k \in N => k + 1 \in N
  <2> SUFFICES ASSUME NEW k \in Nat, k \in N, k + 1 <= count
               PROVE  f[k + 1] = Ring(n, x, n - ((k + 1) % n))
    OBVIOUS
  <2>1. PICK c \in 0..n - 1 : c = k % n
    BY NextModulo
  <2>2. PICK d \in 0..n - 1 : d = n - c - 1
    OBVIOUS
  <2>3. f[k] = Ring(n, x, d + 1)
    <3>1. n - c = d + 1
      BY <2>2
    <3> QED  BY <2>1, <3>1
  <2>4. RingNext(Ring(n, x, d), Ring(n, x, d + 1), M, (x \div 2 ^ (n - d - 1)) % 2)
    <3>1. d \in Nat /\ d < n
      OBVIOUS
    <3> QED  BY <3>1, RingTurned
  <2>5. f[k + 1] = Ring(n, x, d)
    <3>1. Ring(n, x, d) = (Ring(n, x, d + 1) \div 2) + (Ring(n, x, d + 1) % 2) * M
      BY <2>4, Zenon DEF RingNext
    <3>2. f[k + 1] = (f[k] \div 2) + (f[k] % 2) * M
      OBVIOUS
    <3> QED  BY <2>3, <3>1, <3>2
  <2>6. (k + 1) % n = IF c + 1 = n THEN 0 ELSE c + 1
    BY <2>1, NextModulo
  <2>7. CASE c + 1 = n
    <3>1. n - ((k + 1) % n) = n /\ d = 0
      BY <2>2, <2>6, <2>7
    <3> QED  BY <1>0, <2>5, <3>1
  <2>8. CASE c + 1 # n
    <3>1. n - ((k + 1) % n) = d
      BY <2>2, <2>6, <2>8
    <3> QED  BY <2>5, <3>1
  <2> QED  BY <2>7, <2>8
<1>3. Nat \subseteq N
  <2> HIDE DEF N
  <2> QED  BY <1>1, <1>2, SetInduction
<1> QED  BY <1>3

-----------------------------------------------------------------------------
(* What the interpreter's shifts leave, part by part.                       *)

CpuRotated(op, a, c, size) ==
  IF op = "rol" THEN CpuUns(a * 2 ^ c, size) + a \div 2 ^ (CpuWidth(size) - c)
  ELSE a \div 2 ^ c + CpuUns(a * 2 ^ (CpuWidth(size) - c), size)

CpuShiftWord(s, op, a, count, size) ==
  CASE op \in {"rol", "ror"} -> IF count % CpuWidth(size) = 0 THEN a
                                ELSE CpuRotated(op, a, count % CpuWidth(size), size)
    [] op \in {"rcl", "rcr"} -> CpuThroughCarry(s, op, a, count, size).r
    [] op = "shl" -> CpuUns(a * 2 ^ count, size)
    [] op = "shr" -> a \div 2 ^ count
    [] op = "sar" -> CpuUns(CpuSgn(a, size) \div 2 ^ count, size)

CpuShiftCarry(s, op, a, count, r, size) ==
  CASE op \in {"rol", "ror"} /\ count % CpuWidth(size) = 0 -> s.cf
    [] op = "rol" /\ count % CpuWidth(size) # 0 ->
         CpuBit(a, CpuWidth(size) - (count % CpuWidth(size)))
    [] op = "ror" /\ count % CpuWidth(size) # 0 -> CpuBit(r, CpuWidth(size) - 1)
    [] op \in {"rcl", "rcr"} -> CpuThroughCarry(s, op, a, count, size).cf
    [] op = "shl" -> count > 0 /\ CpuBit(a, CpuWidth(size) - count)
    [] op \in {"shr", "sar"} -> count > 0 /\ CpuBit(a, count - 1)

CpuShiftOverflow(s, op, count, r, cf, size) ==
  CASE op = "rol" /\ count = 1 -> CpuBit(r, CpuWidth(size) - 1) # cf
    [] op = "ror" /\ count = 1 -> CpuBit(r, CpuWidth(size) - 1) # CpuBit(r, CpuWidth(size) - 2)
    [] OTHER -> s.of

\* The word is written to a state with these flags.
CpuShiftLeft(p, i, cf, of, r) == CpuWrite([p EXCEPT !.cf = cf, !.of = of], i.d, i.size, i.rex, r)
CpuShiftFlagged(s, op, r, size) ==
  IF op \in {"rol", "ror"} THEN s ELSE CpuResultFlags(s, r, size)

LEMMA CpuDoShiftIs ==
  ASSUME NEW s, NEW i, NEW a, a = CpuRead(s, i.d, i.size, i.rex),
         NEW count, count = CpuCount(s, i), NEW r, r = CpuShiftWord(s, i.op, a, count, i.size),
         NEW cf, cf = CpuShiftCarry(s, i.op, a, count, r, i.size),
         NEW of, of = CpuShiftOverflow(s, i.op, count, r, cf, i.size)
  PROVE  CpuDoShift(s, i) = CpuShiftLeft(CpuShiftFlagged(s, i.op, r, i.size), i, cf, of, r)
<1> DEFINE size == i.size
           bits == CpuWidth(size)
           from == CpuRead(s, i.d, size, i.rex)
           n == CpuCount(s, i)
           c == n % bits
           rotated == IF i.op = "rol" THEN CpuUns(from * 2 ^ c, size) + from \div 2 ^ (bits - c)
                      ELSE from \div 2 ^ c + CpuUns(from * 2 ^ (bits - c), size)
           through == CpuThroughCarry(s, i.op, from, n, size)
           word == CASE i.op \in {"rol", "ror"} -> IF c = 0 THEN from ELSE rotated
                     [] i.op \in {"rcl", "rcr"} -> through.r
                     [] i.op = "shl" -> CpuUns(from * 2 ^ n, size)
                     [] i.op = "shr" -> from \div 2 ^ n
                     [] i.op = "sar" -> CpuUns(CpuSgn(from, size) \div 2 ^ n, size)
           carry == CASE i.op \in {"rol", "ror"} /\ c = 0 -> s.cf
                      [] i.op = "rol" /\ c # 0 -> CpuBit(from, bits - c)
                      [] i.op = "ror" /\ c # 0 -> CpuBit(word, bits - 1)
                      [] i.op \in {"rcl", "rcr"} -> through.cf
                      [] i.op = "shl" -> n > 0 /\ CpuBit(from, bits - n)
                      [] i.op \in {"shr", "sar"} -> n > 0 /\ CpuBit(from, n - 1)
           over == CASE i.op = "rol" /\ n = 1 -> CpuBit(word, bits - 1) # carry
                     [] i.op = "ror" /\ n = 1 -> CpuBit(word, bits - 1) # CpuBit(word, bits - 2)
                     [] OTHER -> s.of
           flagged == IF i.op \in {"rol", "ror"} THEN s ELSE CpuResultFlags(s, word, size)
<1>1. CpuDoShift(s, i) = CpuWrite([flagged EXCEPT !.cf = carry, !.of = over], i.d, size, i.rex, word)
  BY Zenon DEF CpuDoShift
<1>2. from = a /\ n = count
  OBVIOUS
<1> HIDE DEF from, n
<1>3. word = r
  BY <1>2, Zenon DEF CpuShiftWord, CpuRotated
<1> HIDE DEF word
<1>4. carry = cf
  BY <1>2, <1>3, Zenon DEF CpuShiftCarry
<1> HIDE DEF carry
<1>5. over = of
  BY <1>2, <1>3, <1>4, Zenon DEF CpuShiftOverflow
<1> HIDE DEF over
<1>6. flagged = CpuShiftFlagged(s, i.op, r, i.size)
  BY <1>3, Zenon DEF CpuShiftFlagged
<1> HIDE DEF flagged
<1> QED  BY <1>1, <1>3, <1>4, <1>5, <1>6, Zenon DEF CpuShiftLeft

LEMMA CpuShiftAgreedBy ==
  ASSUME NEW s \in CpuState, NEW i \in CpuInsns, NEW p \in CpuState, NEW q \in CpuState,
         p.reg = q.reg, NEW c \in BOOLEAN, NEW d \in BOOLEAN, NEW o \in BOOLEAN, NEW n \in BOOLEAN,
         NEW r \in Int,
         CpuDo(s, i) = CpuShiftLeft(p, i, c, o, r), Arch(s, i) = CpuShiftLeft(q, i, d, n, r),
         NEW parts, CpuKept(s, i) \subseteq parts, "cf" \in parts => c = d,
         "of" \in parts => o = n, "zf" \in parts => p.zf = q.zf,
         "sf" \in parts => p.sf = q.sf, "pf" \in parts => p.pf = q.pf
  PROVE  CpuAgreed(s, i)
<1>1. CpuNamed(i.d, i.size, i.rex)
  BY CpuInsnParts
<1>2. PICK x \in CpuState : x = [p EXCEPT !.cf = c, !.of = o]
  BY CpuFlagsSet
<1>3. PICK y \in CpuState : y = [q EXCEPT !.cf = d, !.of = n]
  BY CpuFlagsSet
<1>4. /\ x.cf = c /\ x.of = o /\ x.zf = p.zf /\ x.sf = p.sf /\ x.pf = p.pf /\ x.reg = p.reg
      /\ y.cf = d /\ y.of = n /\ y.zf = q.zf /\ y.sf = q.sf /\ y.pf = q.pf /\ y.reg = q.reg
  BY <1>2, <1>3 DEF CpuState
<1>5. PICK t \in CpuState : /\ t = CpuWrite(x, i.d, i.size, i.rex, r)
                            /\ t.cf = x.cf /\ t.zf = x.zf /\ t.sf = x.sf /\ t.of = x.of
                            /\ t.pf = x.pf
  BY <1>1, CpuWriteFlags
<1>6. PICK u \in CpuState : /\ u = CpuWrite(y, i.d, i.size, i.rex, r)
                            /\ u.cf = y.cf /\ u.zf = y.zf /\ u.sf = y.sf /\ u.of = y.of
                            /\ u.pf = y.pf
  BY <1>1, CpuWriteFlags
<1>7. t.reg = u.reg
  <2>1. x.reg = y.reg
    BY <1>4
  <2> QED  BY <1>1, <1>5, <1>6, <2>1, CpuWriteSame
<1>8. CpuDo(s, i) = t /\ Arch(s, i) = u
  BY <1>2, <1>3, <1>5, <1>6, Zenon DEF CpuShiftLeft
<1> QED  BY <1>4, <1>5, <1>6, <1>7, <1>8, CpuAgreedBy

\* Arch(s, i) has the same form.
LEMMA ArchShiftForm ==
  ASSUME NEW s \in CpuState, NEW i, NEW a, NEW count, NEW x,
         NEW cf, cf = (IF count = 0 THEN s.cf ELSE x.cf),
         NEW of, of = (IF count = 0 THEN s.of
                       ELSE ArchShiftOverflow(s, i.op, a, count, x, i.size)),
         count = 0 => x.a = a,
         NEW q, q = (IF count # 0 /\ i.op \in CpuShiftOps THEN CpuResultFlags(s, x.a, i.size)
                     ELSE s)
  PROVE  ArchShiftDone(s, i, a, count, x) = CpuShiftLeft(q, i, cf, of, x.a)
<1>1. CASE count = 0
  <2>1. [s EXCEPT !.cf = s.cf, !.of = s.of] = s
    BY DEF CpuState
  <2>2. CpuShiftLeft(q, i, cf, of, x.a)
          = CpuWrite([s EXCEPT !.cf = s.cf, !.of = s.of], i.d, i.size, i.rex, a)
    BY <1>1, Zenon DEF CpuShiftLeft
  <2>3. ArchShiftDone(s, i, a, count, x) = CpuWrite(s, i.d, i.size, i.rex, a)
    BY <1>1, Zenon DEF ArchShiftDone
  <2> QED  BY <2>1, <2>2, <2>3
<1>2. CASE count # 0
  BY <1>2, Zenon DEF ArchShiftDone, CpuShiftLeft, CpuShiftOps
<1> QED  BY <1>1, <1>2

\* What is kept of a shift or rotate.
LEMMA CpuTurnsKept ==
  ASSUME NEW s \in CpuState, NEW i \in CpuInsns, i.op \in CpuTurnOps,
         NEW count \in Nat, count = CpuCount(s, i)
  PROVE  /\ i.op \in {"rcl", "rcr"} => CpuKept(s, i) \subseteq {"regs", "cf"}
         /\ i.op \in {"rol", "ror"} =>
              /\ "of" \in CpuKept(s, i) => count \in {0, 1}
              /\ "cf" \in CpuKept(s, i) => count = 0 \/ count % CpuWidth(i.size) # 0
         /\ i.op \in CpuShiftOps =>
              /\ "of" \notin CpuKept(s, i)
              /\ count = 0 => CpuKept(s, i) \subseteq {"regs"}
              /\ "cf" \in CpuKept(s, i) => count <= CpuWidth(i.size)
<1>1. PICK W \in Nat : W = CpuWidth(i.size)
  BY CpuInsnParts, CpuTops
<1> DEFINE of == IF count \in {0, 1} THEN {"of"} ELSE {}
<1>2. ASSUME i.op \in {"rcl", "rcr"}
      PROVE  CpuKept(s, i) \subseteq {"regs", "cf"}
  <2>1. ArchDefines(s, i) = {"regs"} \cup ((CpuFlags \ {"of"}) \cup of)
    BY <1>2, Zenon DEF ArchDefines
  <2>2. CpuMisses(s, i) = {"zf", "sf", "pf", "of"}
    BY <1>2 DEF CpuMisses
  <2> QED  BY <2>1, <2>2 DEF CpuKept, CpuFlags
<1>3. ASSUME i.op \in {"rol", "ror"}
      PROVE  /\ "of" \in CpuKept(s, i) => count \in {0, 1}
             /\ "cf" \in CpuKept(s, i) => count = 0 \/ count % CpuWidth(i.size) # 0
  <2>1. ArchDefines(s, i) = {"regs"} \cup ((CpuFlags \ {"of"}) \cup of)
    BY <1>3 DEF ArchDefines
  <2>2. count > 0 /\ count % W = 0 => CpuMisses(s, i) = {"cf"}
    <3> HAVE count > 0 /\ count % W = 0
    <3>1. PICK yes \in BOOLEAN : yes = TRUE /\ yes = (count > 0 /\ count % W = 0)
      OBVIOUS
    <3>2. yes = (CpuCount(s, i) > 0 /\ CpuCount(s, i) % CpuWidth(i.size) = 0)
      BY <1>1, <3>1
    <3> QED  BY <1>3, <3>1, <3>2 DEF CpuMisses
  <2>3. "of" \in CpuKept(s, i) => "of" \in ArchDefines(s, i)
    BY DEF CpuKept
  <2>4. "cf" \in CpuKept(s, i) => "cf" \notin CpuMisses(s, i)
    BY DEF CpuKept
  <2> QED  BY <1>1, <2>1, <2>2, <2>3, <2>4 DEF CpuFlags
<1>4. ASSUME i.op \in CpuShiftOps
      PROVE  /\ "of" \notin CpuKept(s, i)
             /\ count = 0 => CpuKept(s, i) \subseteq {"regs"}
             /\ "cf" \in CpuKept(s, i) => count <= CpuWidth(i.size)
  <2>1. CpuMisses(s, i) = IF count = 0 THEN CpuFlags
                          ELSE {"of"} \cup (IF count > W THEN {"cf"} ELSE {})
    BY <1>1, <1>4 DEF CpuMisses, CpuShiftOps
  <2>2. CpuKept(s, i) \subseteq {"regs"} \cup CpuFlags
    BY CpuKeptKnown
  <2>3. CpuKept(s, i) \cap CpuMisses(s, i) = {}
    BY DEF CpuKept
  <2>4. "of" \in CpuMisses(s, i)
    BY <2>1 DEF CpuFlags
  <2>5. count > W => "cf" \in CpuMisses(s, i)
    BY <2>1
  <2>6. count = 0 => CpuKept(s, i) \subseteq {"regs"}
    BY <2>1, <2>2, <2>3
  <2> QED  BY <1>1, <2>3, <2>4, <2>5, <2>6
<1> QED  BY <1>2, <1>3, <1>4

-----------------------------------------------------------------------------
(* rol and ror.                                                             *)

LEMMA CpuPowersOf ==
  ASSUME NEW size \in CpuAllSizes
  PROVE  /\ CpuWidth(size) \in Nat \ {0, 1} /\ CpuTop(size) = 2 ^ CpuWidth(size)
         /\ CpuSign(size) = 2 ^ (CpuWidth(size) - 1)
         /\ CpuSign(size) \in Nat \ {0} /\ CpuTop(size) = 2 * CpuSign(size)
<1>1. CpuTop(size) = 2 ^ CpuWidth(size) /\ CpuSign(size) = 2 ^ (CpuWidth(size) - 1)
  BY Zenon DEF CpuTop, CpuSign
<1> QED  BY <1>1, CpuTops

LEMMA RolTurns ==
  ASSUME NEW size \in CpuAllSizes, NEW a \in 0..CpuTop(size) - 1, NEW cf \in BOOLEAN,
         NEW count \in Nat, NEW at, ArchTurns(at, "rol", [a |-> a, cf |-> cf], count, size),
         NEW c, c = count % CpuWidth(size)
  PROVE  /\ at[count].a = Ring(CpuWidth(size), a, c)
         /\ c # 0 => at[count].cf = CpuBit(a, CpuWidth(size) - c)
<1>1. PICK W \in Nat \ {0, 1} : W = CpuWidth(size)
  BY CpuPowersOf
<1>2. PICK S \in Nat \ {0} : S = CpuSign(size) /\ S = 2 ^ (W - 1) /\ CpuTop(size) = 2 * S
                             /\ CpuTop(size) = 2 ^ W
  BY <1>1, CpuPowersOf
<1>3. a \in 0..2 ^ W - 1
  BY <1>2
<1> DEFINE f == [k \in 0..count |-> at[k].a]
<1>4. f[0] = a
  BY DEF ArchTurns
<1>5. ASSUME NEW k \in Nat, k + 1 <= count
      PROVE  /\ f[k + 1] = ((2 * f[k]) % (2 * S)) + f[k] \div S
             /\ at[k + 1].cf = (f[k] \div S = 1)
  <2>1. f[k] = at[k].a /\ f[k + 1] = at[k + 1].a
    BY <1>5
  <2>2. /\ at[k + 1].a = ArchShift1Word("rol", at[k], size)
        /\ at[k + 1].cf = (at[k].a \div CpuSign(size) = 1)
    BY <1>5, ArchTurnsStep DEF CpuTurnOps, CpuRotateOps, ArchLeftOps
  <2>3. ArchShift1Word("rol", at[k], size) = ((2 * at[k].a) % (2 * S)) + at[k].a \div S
    BY <1>2 DEF ArchShift1Word
  <2> QED  BY <1>2, <2>1, <2>2, <2>3, Zenon
<1>6. \A k \in Nat : k <= count => f[k] = Ring(W, a, k % W)
  <2> HIDE DEF f
  <2>1. \A k \in Nat : k + 1 <= count => f[k + 1] = ((2 * f[k]) % (2 * S)) + f[k] \div S
    BY <1>5
  <2>2. S = 2 ^ (W - 1) /\ W \in Nat \ {0}
    BY <1>2
  <2>3. RingGoesLeft(f, W, a, S, count)
    BY <1>4, <2>1, <2>2, Zenon DEF RingGoesLeft
  <2> QED  BY <1>3, <2>2, <2>3, RingLeft
<1>7. at[count].a = Ring(W, a, c)
  BY <1>1, <1>6
<1>8. ASSUME c # 0
      PROVE  at[count].cf = CpuBit(a, W - c)
  <2>1. count # 0
    <3>1. (W * 0 + 0) % W = 0 /\ W * 0 + 0 = 0
      BY DividedOnce
    <3> QED  BY <1>1, <1>8, <3>1
  <2>2. PICK k \in Nat : k + 1 = count
    <3>1. count - 1 \in Nat /\ (count - 1) + 1 = count
      BY <2>1
    <3> QED  BY <3>1
  <2>3. PICK d \in 0..W - 1 : d = k % W
    BY NextModulo
  <2>4. c = d + 1
    BY <1>1, <1>8, <2>2, <2>3, NextModulo
  <2>5. f[k] = Ring(W, a, d)
    BY <1>6, <2>2, <2>3
  <2>6. RingNext(Ring(W, a, d), Ring(W, a, d + 1), S, (a \div 2 ^ (W - d - 1)) % 2)
    <3>1. d \in Nat /\ d < W
      OBVIOUS
    <3> QED  BY <1>2, <1>3, <3>1, RingTurned
  <2>7. Ring(W, a, d) \div S = (a \div 2 ^ (W - d - 1)) % 2
    BY <2>6, Zenon DEF RingNext
  <2>8. at[count].cf = (f[k] \div S = 1)
    <3> HIDE DEF f
    <3>1. k + 1 <= count
      BY <2>2
    <3>2. at[k + 1].cf = (f[k] \div S = 1)
      BY <1>5, <3>1
    <3> QED  BY <2>2, <3>2
  <2>9. W - d - 1 = W - c /\ W - c >= 0
    BY <2>4
  <2>10. CpuBit(a, W - c) = ((a \div 2 ^ (W - c)) % 2 = 1)
    BY <2>9 DEF CpuBit
  <2> QED  BY <2>5, <2>7, <2>8, <2>9, <2>10, Zenon
<1> QED  BY <1>1, <1>7, <1>8

LEMMA RorTurns ==
  ASSUME NEW size \in CpuAllSizes, NEW a \in 0..CpuTop(size) - 1, NEW cf \in BOOLEAN,
         NEW count \in Nat, NEW at, ArchTurns(at, "ror", [a |-> a, cf |-> cf], count, size),
         NEW c, c = count % CpuWidth(size)
  PROVE  /\ at[count].a = Ring(CpuWidth(size), a, CpuWidth(size) - c)
         /\ count # 0 => at[count].cf = (at[count].a \div CpuSign(size) = 1)
         /\ count = 1 => at[count].a = (a \div 2) + (a % 2) * CpuSign(size)
<1>1. PICK W \in Nat \ {0, 1} : W = CpuWidth(size)
  BY CpuPowersOf
<1>2. PICK S \in Nat \ {0} : S = CpuSign(size) /\ S = 2 ^ (W - 1) /\ CpuTop(size) = 2 * S
                             /\ CpuTop(size) = 2 ^ W
  BY <1>1, CpuPowersOf
<1>3. a \in 0..2 ^ W - 1
  BY <1>2
<1> DEFINE f == [k \in 0..count |-> at[k].a]
<1>4. f[0] = a
  BY DEF ArchTurns
<1>5. ASSUME NEW k \in Nat, k + 1 <= count
      PROVE  /\ f[k + 1] = (f[k] \div 2) + (f[k] % 2) * S
             /\ at[k + 1].cf = (f[k] % 2 = 1)
  <2>1. f[k] = at[k].a /\ f[k + 1] = at[k + 1].a
    BY <1>5
  <2>2. /\ at[k + 1].a = ArchShift1Word("ror", at[k], size)
        /\ at[k + 1].cf = (at[k].a % 2 = 1)
    BY <1>5, ArchTurnsStep DEF CpuTurnOps, CpuRotateOps, ArchLeftOps
  <2>3. ArchShift1Word("ror", at[k], size) = (at[k].a \div 2) + (at[k].a % 2) * S
    BY <1>2 DEF ArchShift1Word
  <2> QED  BY <1>2, <2>1, <2>2, <2>3, Zenon
<1>6. \A k \in Nat : k <= count => f[k] = Ring(W, a, W - (k % W))
  <2> HIDE DEF f
  <2>1. \A k \in Nat : k + 1 <= count => f[k + 1] = (f[k] \div 2) + (f[k] % 2) * S
    BY <1>5
  <2>2. S = 2 ^ (W - 1) /\ W \in Nat \ {0}
    BY <1>2
  <2>3. RingGoesRight(f, W, a, S, count)
    BY <1>4, <2>1, <2>2, Zenon DEF RingGoesRight
  <2> QED  BY <1>3, <2>2, <2>3, RingRight
<1>7. at[count].a = Ring(W, a, W - c)
  BY <1>1, <1>6
<1>8. ASSUME count # 0
      PROVE  at[count].cf = (at[count].a \div S = 1)
  <2>2. PICK k \in Nat : k + 1 = count
    <3>1. count - 1 \in Nat /\ (count - 1) + 1 = count
      BY <1>8
    <3> QED  BY <3>1
  <2>3. PICK d \in 0..W - 1 : d = k % W
    BY NextModulo
  <2>4. PICK e \in 0..W - 1 : e = W - d - 1
    OBVIOUS
  <2>5. f[k] = Ring(W, a, e + 1)
    <3>1. W - d = e + 1
      BY <2>4
    <3> QED  BY <1>6, <2>2, <2>3, <3>1
  <2>6. RingNext(Ring(W, a, e), Ring(W, a, e + 1), S, (a \div 2 ^ (W - e - 1)) % 2)
    <3>1. e \in Nat /\ e < W
      OBVIOUS
    <3> QED  BY <1>2, <1>3, <3>1, RingTurned
  <2>7. Ring(W, a, e) \div S = Ring(W, a, e + 1) % 2
    BY <2>6, Zenon DEF RingNext
  <2>8. f[k + 1] = Ring(W, a, e)
    <3>1. Ring(W, a, e) = (Ring(W, a, e + 1) \div 2) + (Ring(W, a, e + 1) % 2) * S
      BY <2>6, Zenon DEF RingNext
    <3>2. f[k + 1] = (f[k] \div 2) + (f[k] % 2) * S
      <4> HIDE DEF f
      <4>1. k + 1 <= count
        BY <2>2
      <4> QED  BY <1>5, <4>1
    <3> QED  BY <2>5, <3>1, <3>2
  <2>9. at[count].cf = (f[k] % 2 = 1)
    <3> HIDE DEF f
    <3>1. k + 1 <= count
      BY <2>2
    <3>2. at[k + 1].cf = (f[k] % 2 = 1)
      BY <1>5, <3>1
    <3> QED  BY <2>2, <3>2
  <2>10. at[count].a = f[k + 1]
    BY <2>2
  <2>11. at[count].a \div S = f[k] % 2
    BY <2>5, <2>7, <2>8, <2>10, Zenon
  <2> HIDE DEF f
  <2> QED  BY <2>9, <2>11, Zenon
<1>9. ASSUME count = 1
      PROVE  at[count].a = (a \div 2) + (a % 2) * S
  <2>1. 0 + 1 <= count /\ 0 + 1 = 1
    BY <1>9
  <2>2. f[1] = (f[0] \div 2) + (f[0] % 2) * S
    BY <1>5, <2>1
  <2>3. f[1] = at[count].a
    BY <1>9
  <2> QED  BY <1>4, <2>2, <2>3
<1> QED  BY <1>1, <1>2, <1>7, <1>8, <1>9

\* A product that is cut off is the product of what is cut off.
LEMMA ShiftedUp ==
  ASSUME NEW P \in Nat \ {0}, NEW Q \in Nat \ {0}, NEW a \in Int
  PROVE  (a * P) % (P * Q) = (a % Q) * P
<1>1. PICK h \in Int : h = a \div Q
  OBVIOUS
<1>2. PICK l \in Int : l = a % Q /\ 0 <= l /\ l < Q /\ a = Q * h + l
  BY <1>1, Divided
<1>3. PICK N \in Nat \ {0} : N = P * Q
  <2>1. P * Q \in Nat \ {0}
    OBVIOUS
  <2> QED  BY <2>1
<1>4. PICK z \in Int : z = l * P
  OBVIOUS
<1>5. 0 <= z /\ z < N
  <2>1. PICK j \in Nat : Q = l + 1 + j
    <3>1. Q - l - 1 \in Nat /\ Q = l + 1 + (Q - l - 1)
      BY <1>2
    <3> QED  BY <3>1
  <2>2. P * Q = l * P + P + P * j /\ P * j \in Nat
    BY <2>1
  <2>3. l \in Nat
    BY <1>2
  <2>4. l * P \in Nat
    BY <2>3
  <2> QED  BY <1>3, <1>4, <2>2, <2>4
<1>6. a * P = N * h + z
  <2>1. (Q * h + l) * P = (P * Q) * h + l * P
    OBVIOUS
  <2> QED  BY <1>2, <1>3, <1>4, <2>1
<1>7. (N * h + z) % N = z
  BY <1>5, DividedOnce
<1> QED  BY <1>2, <1>3, <1>4, <1>6, <1>7

LEMMA CpuRotatedIs ==
  ASSUME NEW size \in CpuAllSizes, NEW a \in Int, NEW c \in 0..CpuWidth(size)
  PROVE  /\ CpuRotated("rol", a, c, size) = Ring(CpuWidth(size), a, c)
         /\ CpuRotated("ror", a, c, size) = Ring(CpuWidth(size), a, CpuWidth(size) - c)
<1>1. PICK W \in Nat : W = CpuWidth(size)
  BY CpuPowersOf
<1>2. PICK d \in Nat : d = W - c
  BY <1>1
<1>3. PICK P \in Nat \ {0} : P = 2 ^ c
  BY CpuPowers
<1>4. PICK Q \in Nat \ {0} : Q = 2 ^ d
  BY CpuPowers
<1>5. CpuTop(size) = P * Q
  <2>1. W = c + d
    BY <1>1, <1>2
  <2>2. 2 ^ (c + d) = P * Q
    BY <1>3, <1>4, PowerAdds
  <2> QED  BY <1>1, <2>1, <2>2, CpuPowersOf
<1>6. CpuUns(a * P, size) = (a % Q) * P
  BY <1>5, ShiftedUp DEF CpuUns
<1>7. CpuUns(a * Q, size) = (a % P) * Q
  <2>1. P * Q = Q * P
    OBVIOUS
  <2> QED  BY <1>5, <2>1, ShiftedUp DEF CpuUns
<1>8. W - d = c
  BY <1>2
<1>9. a \div P \in Int /\ a \div Q \in Int /\ (a % P) * Q \in Int
  OBVIOUS
<1>10. Ring(W, a, c) = (a % Q) * P + a \div Q
  BY <1>2, <1>3, <1>4, Zenon DEF Ring
<1>11. Ring(W, a, d) = (a % P) * Q + a \div P
  BY <1>3, <1>4, <1>8, Zenon DEF Ring
<1>12. CpuRotated("rol", a, c, size) = (a % Q) * P + a \div Q
  <2>1. CpuRotated("rol", a, c, size) = CpuUns(a * P, size) + a \div Q
    BY <1>1, <1>2, <1>3, <1>4, Zenon DEF CpuRotated
  <2> QED  BY <1>6, <2>1
<1>13. CpuRotated("ror", a, c, size) = a \div P + (a % P) * Q
  <2>1. CpuRotated("ror", a, c, size) = a \div P + CpuUns(a * Q, size)
    BY <1>1, <1>2, <1>3, <1>4 DEF CpuRotated
  <2> QED  BY <1>7, <2>1
<1>14. a \div P + (a % P) * Q = (a % P) * Q + a \div P
  BY <1>9
<1> QED  BY <1>1, <1>2, <1>10, <1>11, <1>12, <1>13, <1>14

-----------------------------------------------------------------------------
\* The parts of a shift.
LEMMA CpuShiftParts ==
  ASSUME NEW s \in CpuState, NEW i \in CpuInsns, i.op \in CpuTurnOps
  PROVE  /\ i.size \in CpuAllSizes /\ CpuNamed(i.d, i.size, i.rex)
         /\ CpuRead(s, i.d, i.size, i.rex) \in 0..CpuTop(i.size) - 1
         /\ CpuCount(s, i) \in Nat
         /\ CpuDo(s, i) = CpuDoShift(s, i) /\ Arch(s, i) = ArchShift(s, i)
<1>1. CpuNamed(i.d, i.size, i.rex) /\ i.size \in CpuAllSizes
  BY CpuInsnParts
<1>2. i.form \in {"one", "imm8", "cl"}
  BY CpuShiftForm DEF CpuTurnOps
<1>3. CpuRead(s, i.d, i.size, i.rex) \in 0..CpuTop(i.size) - 1
  BY <1>1, CpuReadIs
<1>4. CpuCount(s, i) \in Nat
  BY <1>2, CpuCountIs
<1>5. CpuDo(s, i) = CpuDoShift(s, i) /\ Arch(s, i) = ArchShift(s, i)
  BY CpuDoBy, ArchBy DEF CpuTurnOps
<1> QED  BY <1>1, <1>3, <1>4, <1>5

\* The second bit from the top of a word turned right once.
LEMMA CpuSecondBit ==
  ASSUME NEW size \in CpuAllSizes, NEW a \in 0..CpuTop(size) - 1,
         NEW r \in Int, r = (a \div 2) + (a % 2) * CpuSign(size)
  PROVE  CpuBit(r, CpuWidth(size) - 2) = CpuBit(a, CpuWidth(size) - 1)
<1>1. PICK W \in Nat \ {0, 1} : W = CpuWidth(size)
  BY CpuPowersOf
<1>2. PICK S \in Nat \ {0} : S = CpuSign(size) /\ S = 2 ^ (W - 1) /\ CpuTop(size) = 2 * S
  BY <1>1, CpuPowersOf
<1>3. PICK n \in Nat : n = W - 2
  BY <1>1
<1>4. PICK R \in Nat \ {0} : R = 2 ^ n
  BY CpuPowers
<1>5. S = 2 * R
  <2>1. W - 1 = n + 1
    BY <1>3
  <2> QED  BY <1>2, <1>4, <2>1, PowerStep
<1>6. PICK h \in Int : h = a \div 2
  BY <1>2
<1>7. PICK b \in {0, 1} : b = a % 2
  BY <1>2
<1>8. r = h + R * (2 * b)
  <2>1. b * (2 * R) = R * (2 * b)
    OBVIOUS
  <2> QED  BY <1>2, <1>5, <1>6, <1>7, <2>1
<1>9. r \div R = h \div R + 2 * b
  <2>1. PICK k \in Int : k = 2 * b
    OBVIOUS
  <2>2. (h + R * k) \div R = (h \div R) + k
    BY Modulo
  <2> QED  BY <1>8, <2>1, <2>2
<1>10. PICK q \in Int : q = h \div R
  BY Divided
<1>11. (q + 2 * b) % 2 = q % 2
  OBVIOUS
<1>12. q = a \div S
  <2> DEFINE two == 2
  <2>1. two \in Nat \ {0} /\ a \in Int
    BY <1>2
  <2>2. (a \div two) \div R = a \div (two * R)
    <3> HIDE DEF two
    <3> QED  BY <2>1, NestedQuotient
  <2> QED  BY <1>5, <1>6, <1>10, <2>2 DEF two
<1>13. CpuBit(r, n) = ((r \div R) % 2 = 1)
  BY <1>4 DEF CpuBit
<1>14. CpuBit(a, W - 1) = ((a \div S) % 2 = 1)
  <2>1. W - 1 >= 0
    OBVIOUS
  <2> QED  BY <1>2, <2>1 DEF CpuBit
<1> QED  BY <1>1, <1>3, <1>9, <1>10, <1>11, <1>12, <1>13, <1>14

LEMMA CpuRolAgreed ==
  ASSUME NEW s \in CpuState, NEW i \in CpuInsns, i.op = "rol"
  PROVE  CpuAgreed(s, i)
<1>0. i.op \in CpuTurnOps /\ i.op \notin CpuShiftOps
  BY DEF CpuTurnOps, CpuRotateOps, CpuShiftOps
<1>1. i.size \in CpuAllSizes /\ CpuDo(s, i) = CpuDoShift(s, i) /\ Arch(s, i) = ArchShift(s, i)
  BY <1>0, CpuShiftParts
<1>2. PICK a \in 0..CpuTop(i.size) - 1 : a = CpuRead(s, i.d, i.size, i.rex)
  BY <1>0, CpuShiftParts
<1>3. PICK count \in Nat : count = CpuCount(s, i)
  BY <1>0, CpuShiftParts
<1>4. PICK W \in Nat \ {0, 1} : W = CpuWidth(i.size)
  BY <1>1, CpuPowersOf
<1>5. PICK c \in 0..W - 1 : c = count % W
  BY NextModulo
<1>6. PICK flag \in BOOLEAN : flag = s.cf
  BY CpuStateParts
<1>7. PICK at : /\ ArchTurns(at, "rol", [a |-> a, cf |-> s.cf], count, i.size)
                /\ ArchShift(s, i) = ArchShiftDone(s, i, a, count, at[count])
  BY <1>0, <1>2, <1>3, ArchShiftIs
<1>8. PICK x \in ArchShifted(i.size) : x = at[count]
  BY <1>7 DEF ArchTurns
<1>9. /\ x.a = Ring(W, a, c)
      /\ c # 0 => x.cf = CpuBit(a, W - c)
  BY <1>1, <1>4, <1>5, <1>6, <1>7, <1>8, RolTurns
<1>10. a \in Int /\ Ring(W, a, 0) = a
  <2>1. CpuTop(i.size) = 2 ^ W /\ CpuTop(i.size) \in Nat
    BY <1>1, <1>4, CpuPowersOf, CpuTops
  <2>2. a \in 0..2 ^ W - 1
    BY <2>1
  <2> QED  BY <2>2, RingEnds
<1>11. PICK r \in Int : r = x.a
  <2>1. x.a \in 0..CpuTop(i.size) - 1 /\ CpuTop(i.size) \in Nat
    BY <1>1, <1>8, CpuTops DEF ArchShifted
  <2> QED  BY <2>1
<1>12. r = CpuShiftWord(s, "rol", a, count, i.size)
  <2>1. CpuShiftWord(s, "rol", a, count, i.size) = IF c = 0 THEN a ELSE CpuRotated("rol", a, c, i.size)
    BY <1>4, <1>5 DEF CpuShiftWord
  <2>2. CpuRotated("rol", a, c, i.size) = Ring(W, a, c)
    <3>1. c \in 0..W
      OBVIOUS
    <3> QED  BY <1>1, <1>4, <1>10, <3>1, CpuRotatedIs
  <2> QED  BY <1>9, <1>10, <1>11, <2>1, <2>2
<1>13. PICK cf \in BOOLEAN : cf = (IF c = 0 THEN s.cf ELSE CpuBit(a, W - c))
  BY <1>6 DEF CpuBit
<1>14. cf = CpuShiftCarry(s, "rol", a, count, r, i.size)
  BY <1>4, <1>5, <1>13 DEF CpuShiftCarry
<1>15. PICK d \in BOOLEAN : d = (IF count = 0 THEN s.cf ELSE x.cf)
  BY <1>6 DEF ArchShifted
<1>16. count = 0 => c = 0
  <2>1. (W * 0 + 0) % W = 0 /\ W * 0 + 0 = 0
    BY DividedOnce
  <2> QED  BY <1>5, <2>1
<1>17. count = 0 \/ c # 0 => cf = d
  BY <1>9, <1>13, <1>15, <1>16
<1>18. PICK o \in BOOLEAN : o = CpuShiftOverflow(s, "rol", count, r, cf, i.size)
  <2>1. s.of \in BOOLEAN
    BY CpuStateParts
  <2>2. CpuShiftOverflow(s, "rol", count, r, cf, i.size)
          = IF count = 1 THEN CpuBit(r, W - 1) # cf ELSE s.of
    BY <1>4 DEF CpuShiftOverflow
  <2> QED  BY <2>1, <2>2
<1>19. PICK n \in BOOLEAN : n = (IF count = 0 THEN s.of
                                 ELSE ArchShiftOverflow(s, "rol", a, count, x, i.size))
  <2>1. s.of \in BOOLEAN
    BY CpuStateParts
  <2>2. ArchShiftOverflow(s, "rol", a, count, x, i.size)
          = IF count # 1 THEN s.of ELSE CpuTopBit(x.a, i.size) # x.cf
    BY DEF ArchShiftOverflow
  <2> QED  BY <2>1, <2>2
<1>20. count \in {0, 1} => o = n
  <2>1. CASE count = 0
    BY <1>18, <1>19, <2>1 DEF CpuShiftOverflow
  <2>2. CASE count = 1
    <3>1. c = 1
      <4>1. (W * 0 + 1) % W = 1 /\ W * 0 + 1 = 1
        BY DividedOnce
      <4> QED  BY <1>5, <2>2, <4>1
    <3>2. x.cf = cf
      BY <1>15, <1>17, <2>2, <3>1
    <3>3. o = (CpuBit(r, W - 1) # cf)
      BY <1>4, <1>18, <2>2 DEF CpuShiftOverflow
    <3>4. n = (CpuBit(r, W - 1) # x.cf)
      BY <1>4, <1>11, <1>19, <2>2 DEF ArchShiftOverflow, CpuTopBit
    <3> QED  BY <3>2, <3>3, <3>4
  <2> QED  BY <2>1, <2>2
<1>21. CpuDo(s, i) = CpuShiftLeft(s, i, cf, o, r)
  <2>1. CpuDoShift(s, i) = CpuShiftLeft(CpuShiftFlagged(s, i.op, r, i.size), i, cf, o, r)
    BY <1>2, <1>3, <1>12, <1>14, <1>18, CpuDoShiftIs
  <2>2. CpuShiftFlagged(s, i.op, r, i.size) = s
    BY DEF CpuShiftFlagged
  <2> QED  BY <1>1, <2>1, <2>2
<1>22. Arch(s, i) = CpuShiftLeft(s, i, d, n, r)
  <2>1. count = 0 => x.a = a
    BY <1>9, <1>10, <1>16
  <2>2. s = (IF count # 0 /\ i.op \in CpuShiftOps THEN CpuResultFlags(s, x.a, i.size) ELSE s)
    BY <1>0
  <2>3. ArchShiftDone(s, i, a, count, x) = CpuShiftLeft(s, i, d, n, x.a)
    BY <1>15, <1>19, <2>1, <2>2, ArchShiftForm
  <2> QED  BY <1>1, <1>7, <1>8, <1>11, <2>3
<1>23. PICK parts : parts = CpuKept(s, i)
  OBVIOUS
<1>24. ("cf" \in parts => cf = d) /\ ("of" \in parts => o = n)
  <2>1. /\ "of" \in parts => count \in {0, 1}
        /\ "cf" \in parts => count = 0 \/ c # 0
    BY <1>0, <1>3, <1>4, <1>5, <1>23, CpuTurnsKept
  <2> QED  BY <1>17, <1>20, <2>1
<1> QED  BY <1>21, <1>22, <1>23, <1>24, CpuShiftAgreedBy

-----------------------------------------------------------------------------
LEMMA CpuTopBitIs ==
  ASSUME NEW size \in CpuAllSizes, NEW r \in 0..CpuTop(size) - 1
  PROVE  CpuBit(r, CpuWidth(size) - 1) = (r \div CpuSign(size) = 1)
<1>1. PICK S \in Nat \ {0} : S = CpuSign(size) /\ CpuTop(size) = 2 * S
  BY CpuPowersOf
<1>2. r \in Int /\ r \in 0..2 * S - 1
  BY <1>1
<1>3. CpuUns(r, size) = r
  BY <1>2, CpuUnsIs
<1>4. CpuBit(r, CpuWidth(size) - 1) <=> r >= S
  BY <1>1, <1>2, <1>3, CpuBitsOf
<1>5. r \div S = 1 <=> r >= S
  BY <1>2, ArchBits
<1>6. CpuBit(r, CpuWidth(size) - 1) \in BOOLEAN
  BY DEF CpuBit
<1> QED  BY <1>1, <1>4, <1>5, <1>6

LEMMA CpuRorAgreed ==
  ASSUME NEW s \in CpuState, NEW i \in CpuInsns, i.op = "ror"
  PROVE  CpuAgreed(s, i)
<1>0. i.op \in CpuTurnOps /\ i.op \notin CpuShiftOps
  BY DEF CpuTurnOps, CpuRotateOps, CpuShiftOps
<1>1. i.size \in CpuAllSizes /\ CpuDo(s, i) = CpuDoShift(s, i) /\ Arch(s, i) = ArchShift(s, i)
  BY <1>0, CpuShiftParts
<1>2. PICK a \in 0..CpuTop(i.size) - 1 : a = CpuRead(s, i.d, i.size, i.rex)
  BY <1>0, CpuShiftParts
<1>3. PICK count \in Nat : count = CpuCount(s, i)
  BY <1>0, CpuShiftParts
<1>4. PICK W \in Nat \ {0, 1} : W = CpuWidth(i.size)
  BY <1>1, CpuPowersOf
<1>5. PICK c \in 0..W - 1 : c = count % W
  BY NextModulo
<1>6. PICK flag \in BOOLEAN : flag = s.cf
  BY CpuStateParts
<1>7. PICK at : /\ ArchTurns(at, "ror", [a |-> a, cf |-> s.cf], count, i.size)
                /\ ArchShift(s, i) = ArchShiftDone(s, i, a, count, at[count])
  BY <1>0, <1>2, <1>3, ArchShiftIs
<1>8. PICK x \in ArchShifted(i.size) : x = at[count]
  BY <1>7 DEF ArchTurns
<1>9. /\ x.a = Ring(W, a, W - c)
      /\ count # 0 => x.cf = (x.a \div CpuSign(i.size) = 1)
      /\ count = 1 => x.a = (a \div 2) + (a % 2) * CpuSign(i.size)
  BY <1>1, <1>4, <1>5, <1>6, <1>7, <1>8, RorTurns
<1>10. a \in Int /\ Ring(W, a, W) = a
  <2>1. CpuTop(i.size) = 2 ^ W /\ CpuTop(i.size) \in Nat
    BY <1>1, <1>4, CpuPowersOf, CpuTops
  <2>2. a \in 0..2 ^ W - 1
    BY <2>1
  <2> QED  BY <2>2, RingEnds
<1>11. PICK r \in Int : r = x.a /\ r \in 0..CpuTop(i.size) - 1
  <2>1. x.a \in 0..CpuTop(i.size) - 1 /\ CpuTop(i.size) \in Nat
    BY <1>1, <1>8, CpuTops DEF ArchShifted
  <2> QED  BY <2>1
<1>12. r = CpuShiftWord(s, "ror", a, count, i.size)
  <2>1. CpuShiftWord(s, "ror", a, count, i.size) = IF c = 0 THEN a ELSE CpuRotated("ror", a, c, i.size)
    BY <1>4, <1>5 DEF CpuShiftWord
  <2>2. CpuRotated("ror", a, c, i.size) = Ring(W, a, W - c)
    <3>1. c \in 0..W
      OBVIOUS
    <3> QED  BY <1>1, <1>4, <1>10, <3>1, CpuRotatedIs
  <2>3. c = 0 => W - c = W
    OBVIOUS
  <2> QED  BY <1>9, <1>10, <1>11, <2>1, <2>2, <2>3
<1>13. PICK cf \in BOOLEAN : cf = (IF c = 0 THEN s.cf ELSE CpuBit(r, W - 1))
  BY <1>6 DEF CpuBit
<1>14. cf = CpuShiftCarry(s, "ror", a, count, r, i.size)
  BY <1>4, <1>5, <1>13 DEF CpuShiftCarry
<1>15. PICK d \in BOOLEAN : d = (IF count = 0 THEN s.cf ELSE x.cf)
  BY <1>6 DEF ArchShifted
<1>16. count = 0 => c = 0
  <2>1. (W * 0 + 0) % W = 0 /\ W * 0 + 0 = 0
    BY DividedOnce
  <2> QED  BY <1>5, <2>1
<1>17. count = 0 \/ c # 0 => cf = d
  <2>1. CpuBit(r, W - 1) = (r \div CpuSign(i.size) = 1)
    BY <1>1, <1>4, <1>11, CpuTopBitIs
  <2> QED  BY <1>9, <1>11, <1>13, <1>15, <1>16, <2>1
<1>18. PICK o \in BOOLEAN : o = CpuShiftOverflow(s, "ror", count, r, cf, i.size)
  <2>1. s.of \in BOOLEAN
    BY CpuStateParts
  <2>2. CpuShiftOverflow(s, "ror", count, r, cf, i.size)
          = IF count = 1 THEN CpuBit(r, W - 1) # CpuBit(r, W - 2) ELSE s.of
    BY <1>4 DEF CpuShiftOverflow
  <2> QED  BY <2>1, <2>2
<1>19. PICK n \in BOOLEAN : n = (IF count = 0 THEN s.of
                                 ELSE ArchShiftOverflow(s, "ror", a, count, x, i.size))
  <2>1. s.of \in BOOLEAN
    BY CpuStateParts
  <2>2. ArchShiftOverflow(s, "ror", a, count, x, i.size)
          = IF count # 1 THEN s.of ELSE CpuTopBit(x.a, i.size) # CpuTopBit(a, i.size)
    BY DEF ArchShiftOverflow
  <2> QED  BY <2>1, <2>2
<1>20. count \in {0, 1} => o = n
  <2>1. CASE count = 0
    BY <1>18, <1>19, <2>1 DEF CpuShiftOverflow
  <2>2. CASE count = 1
    <3>1. CpuBit(r, W - 2) = CpuBit(a, W - 1)
      BY <1>1, <1>4, <1>9, <1>11, <2>2, CpuSecondBit
    <3>2. o = (CpuBit(r, W - 1) # CpuBit(r, W - 2))
      BY <1>4, <1>18, <2>2 DEF CpuShiftOverflow
    <3>3. n = (CpuBit(r, W - 1) # CpuBit(a, W - 1))
      BY <1>4, <1>11, <1>19, <2>2 DEF ArchShiftOverflow, CpuTopBit
    <3> QED  BY <3>1, <3>2, <3>3
  <2> QED  BY <2>1, <2>2
<1>21. CpuDo(s, i) = CpuShiftLeft(s, i, cf, o, r)
  <2>1. CpuDoShift(s, i) = CpuShiftLeft(CpuShiftFlagged(s, i.op, r, i.size), i, cf, o, r)
    BY <1>2, <1>3, <1>12, <1>14, <1>18, CpuDoShiftIs
  <2>2. CpuShiftFlagged(s, i.op, r, i.size) = s
    BY DEF CpuShiftFlagged
  <2> QED  BY <1>1, <2>1, <2>2
<1>22. Arch(s, i) = CpuShiftLeft(s, i, d, n, r)
  <2>1. count = 0 => x.a = a
    <3>1. c = 0 => W - c = W
      OBVIOUS
    <3> QED  BY <1>9, <1>10, <1>16, <3>1
  <2>2. s = (IF count # 0 /\ i.op \in CpuShiftOps THEN CpuResultFlags(s, x.a, i.size) ELSE s)
    BY <1>0
  <2>3. ArchShiftDone(s, i, a, count, x) = CpuShiftLeft(s, i, d, n, x.a)
    BY <1>15, <1>19, <2>1, <2>2, ArchShiftForm
  <2> QED  BY <1>1, <1>7, <1>8, <1>11, <2>3
<1>23. PICK parts : parts = CpuKept(s, i)
  OBVIOUS
<1>24. ("cf" \in parts => cf = d) /\ ("of" \in parts => o = n)
  <2>1. /\ "of" \in parts => count \in {0, 1}
        /\ "cf" \in parts => count = 0 \/ c # 0
    BY <1>0, <1>3, <1>4, <1>5, <1>23, CpuTurnsKept
  <2> QED  BY <1>17, <1>20, <2>1
<1> QED  BY <1>21, <1>22, <1>23, <1>24, CpuShiftAgreedBy

-----------------------------------------------------------------------------
(* rcl and rcr: a word one bit longer, the carry above its top.             *)

ArchWhole(v, T) == v.a + (IF v.cf THEN T ELSE 0)

WholeTurned(S, T, a, b, V) ==
  /\ ((2 * V) % (2 * T)) + V \div T = 2 * a + b
  /\ V \div 2 = (a \div 2) + b * S /\ V % 2 = a % 2

LEMMA WholeTurns ==
  ASSUME NEW S \in Nat \ {0}, NEW T, T = 2 * S, NEW a \in 0..T - 1, NEW b \in {0, 1},
         NEW V, V = a + (IF b = 1 THEN T ELSE 0)
  PROVE  WholeTurned(S, T, a, b, V)
<1>1. V = T * b + a /\ T \in Nat \ {0} /\ a \in Int /\ 0 <= a /\ a < T
  <2>1. T * b = IF b = 1 THEN T ELSE 0
    OBVIOUS
  <2> QED  BY <2>1
<1>2. V \div T = b
  <2>1. (T * b + a) \div T = b
    BY <1>1, DividedOnce
  <2> QED  BY <1>1, <2>1
<1>3. (2 * V) % (2 * T) = 2 * a
  <2>1. PICK N \in Nat \ {0} : N = 2 * T
    BY <1>1
  <2>2. 2 * V = N * b + 2 * a /\ 0 <= 2 * a /\ 2 * a < N /\ 2 * a \in Int
    BY <1>1, <2>1
  <2>3. (N * b + 2 * a) % N = 2 * a
    BY <2>2, DividedOnce
  <2> QED  BY <2>1, <2>2, <2>3
<1>4. V = a + 2 * (b * S)
  <2>1. CASE b = 0
    BY <2>1
  <2>2. CASE b = 1
    BY <2>2
  <2> QED  BY <2>1, <2>2
<1>5. PICK m \in Int : m = b * S
  OBVIOUS
<1>6. (a + 2 * m) \div 2 = (a \div 2) + m /\ (a + 2 * m) % 2 = a % 2
  OBVIOUS
<1>7. ((2 * V) % (2 * T)) + V \div T = 2 * a + b
  BY <1>2, <1>3
<1>8. V \div 2 = (a \div 2) + b * S /\ V % 2 = a % 2
  BY <1>4, <1>5, <1>6
<1> QED  BY <1>7, <1>8, Zenon DEF WholeTurned

LEMMA RclWhole ==
  ASSUME NEW size \in CpuAllSizes, NEW v \in ArchShifted(size), NEW x \in ArchShifted(size),
         x.a = ArchShift1Word("rcl", v, size), x.cf = (v.a \div CpuSign(size) = 1),
         NEW T, T = CpuTop(size)
  PROVE  ArchWhole(x, T) = ((2 * ArchWhole(v, T)) % (2 * T)) + ArchWhole(v, T) \div T
<1>1. PICK S \in Nat \ {0} : S = CpuSign(size) /\ T = 2 * S
  BY CpuPowersOf
<1>2. PICK a \in 0..T - 1 : a = v.a
  BY DEF ArchShifted
<1>3. PICK b \in {0, 1} : b = (IF v.cf THEN 1 ELSE 0)
  OBVIOUS
<1>4. PICK V : V = ArchWhole(v, T)
  OBVIOUS
<1>5. V = a + (IF b = 1 THEN T ELSE 0)
  BY <1>2, <1>3, <1>4 DEF ArchWhole
<1>6. ((2 * V) % (2 * T)) + V \div T = 2 * a + b
  <2>1. WholeTurned(S, T, a, b, V)
    BY <1>1, <1>5, WholeTurns
  <2> QED  BY <2>1, Zenon DEF WholeTurned
<1>7. PICK h \in {0, 1} : h = a \div S
  BY <1>1, ArchBits
<1>8. (2 * a) % T = 2 * a - T * h
  <2>1. (2 * a) % (2 * S) = 2 * a - 2 * S * h
    BY <1>1, <1>7, ArchBits
  <2> QED  BY <1>1, <2>1
<1>9. x.a = 2 * a - T * h + b
  <2>1. ArchShift1Word("rcl", v, size) = ((2 * a) % T) + b
    BY <1>2, <1>3 DEF ArchShift1Word
  <2> QED  BY <1>8, <2>1
<1>10. x.cf = (h = 1)
  BY <1>1, <1>2, <1>7
<1>11. T * h = IF h = 1 THEN T ELSE 0
  BY <1>1
<1>12. ArchWhole(x, T) = 2 * a + b
  <2>1. ArchWhole(x, T) = (2 * a - T * h + b) + (IF h = 1 THEN T ELSE 0)
    BY <1>9, <1>10, Zenon DEF ArchWhole
  <2> QED  BY <1>1, <1>11, <2>1
<1> QED  BY <1>4, <1>6, <1>12

LEMMA RcrWhole ==
  ASSUME NEW size \in CpuAllSizes, NEW v \in ArchShifted(size), NEW x \in ArchShifted(size),
         x.a = ArchShift1Word("rcr", v, size), x.cf = (v.a % 2 = 1),
         NEW T, T = CpuTop(size)
  PROVE  ArchWhole(x, T) = (ArchWhole(v, T) \div 2) + (ArchWhole(v, T) % 2) * T
<1>1. PICK S \in Nat \ {0} : S = CpuSign(size) /\ T = 2 * S
  BY CpuPowersOf
<1>2. PICK a \in 0..T - 1 : a = v.a
  BY DEF ArchShifted
<1>3. PICK b \in {0, 1} : b = (IF v.cf THEN 1 ELSE 0)
  OBVIOUS
<1>4. PICK V : V = ArchWhole(v, T)
  OBVIOUS
<1>5. V = a + (IF b = 1 THEN T ELSE 0)
  BY <1>2, <1>3, <1>4 DEF ArchWhole
<1>6. V \div 2 = (a \div 2) + b * S /\ V % 2 = a % 2
  <2>1. WholeTurned(S, T, a, b, V)
    BY <1>1, <1>5, WholeTurns
  <2> QED  BY <2>1, Zenon DEF WholeTurned
<1>7. PICK l \in {0, 1} : l = a % 2
  BY <1>1
<1>8. x.a = (a \div 2) + b * S
  BY <1>1, <1>2, <1>3 DEF ArchShift1Word
<1>9. x.cf = (l = 1)
  BY <1>2, <1>7
<1>10. ArchWhole(x, T) = ((a \div 2) + b * S) + (IF l = 1 THEN T ELSE 0)
  BY <1>8, <1>9, Zenon DEF ArchWhole
<1>11. l * T = IF l = 1 THEN T ELSE 0
  BY <1>1
<1> QED  BY <1>4, <1>6, <1>7, <1>10, <1>11

LEMMA WholeIs ==
  ASSUME NEW size \in CpuAllSizes, NEW v \in ArchShifted(size), NEW T, T = CpuTop(size)
  PROVE  /\ ArchWhole(v, T) \in 0..2 * T - 1
         /\ v.a = ArchWhole(v, T) % T /\ v.cf = (ArchWhole(v, T) >= T)
<1>1. PICK N \in Nat \ {0} : N = T
  BY CpuPowersOf, CpuTops
<1>2. PICK a \in 0..N - 1 : a = v.a
  BY <1>1 DEF ArchShifted
<1>3. PICK c \in BOOLEAN : c = v.cf
  BY DEF ArchShifted
<1>4. PICK b \in {0, 1} : b = (IF c THEN 1 ELSE 0)
  OBVIOUS
<1>5. ArchWhole(v, T) = N * b + a
  <2>1. ArchWhole(v, T) = a + (IF c THEN N ELSE 0)
    BY <1>1, <1>2, <1>3, Zenon DEF ArchWhole
  <2>2. N * b = IF c THEN N ELSE 0
    BY <1>4
  <2> QED  BY <2>1, <2>2
<1>6. (N * b + a) % N = a
  BY DividedOnce
<1>7. N * b + a \in 0..2 * N - 1 /\ (N * b + a >= N <=> c)
  BY <1>4
<1> QED  BY <1>1, <1>2, <1>3, <1>5, <1>6, <1>7

\* Where rcl and rcr have come to.
LEMMA CarryTurns ==
  ASSUME NEW size \in CpuAllSizes, NEW op \in {"rcl", "rcr"}, NEW start \in ArchShifted(size),
         NEW count \in Nat, NEW at, ArchTurns(at, op, start, count, size),
         NEW n, n = CpuWidth(size) + 1, NEW T, T = CpuTop(size)
  PROVE  ArchWhole(at[count], T)
           = Ring(n, ArchWhole(start, T), IF op = "rcl" THEN count % n ELSE n - (count % n))
<1>1. PICK W \in Nat : W = CpuWidth(size) /\ T = 2 ^ W
  BY CpuPowersOf
<1>2. n \in Nat \ {0} /\ n = W + 1 /\ n - 1 = W
  BY <1>1
<1>3. 2 ^ n = 2 * T /\ T = 2 ^ (n - 1)
  BY <1>1, <1>2, PowerStep
<1>4. ArchWhole(start, T) \in 0..2 ^ n - 1
  BY <1>3, WholeIs
<1> DEFINE f == [k \in 0..count |-> ArchWhole(at[k], T)]
<1>5. f[0] = ArchWhole(start, T)
  BY DEF ArchTurns
<1>6. op \in CpuTurnOps
  BY DEF CpuTurnOps, CpuRotateOps
<1>7. CASE op = "rcl"
  <2>1. \A k \in Nat : k + 1 <= count => f[k + 1] = ((2 * f[k]) % (2 * T)) + f[k] \div T
    <3> SUFFICES ASSUME NEW k \in Nat, k + 1 <= count
                 PROVE  f[k + 1] = ((2 * f[k]) % (2 * T)) + f[k] \div T
      OBVIOUS
    <3>1. f[k] = ArchWhole(at[k], T) /\ f[k + 1] = ArchWhole(at[k + 1], T)
      OBVIOUS
    <3>2. /\ at[k] \in ArchShifted(size) /\ at[k + 1] \in ArchShifted(size)
          /\ at[k + 1].a = ArchShift1Word("rcl", at[k], size)
          /\ at[k + 1].cf = (at[k].a \div CpuSign(size) = 1)
      <4> HIDE DEF f
      <4>1. op \in ArchLeftOps /\ ArchTurns(at, op, start, count, size)
        BY <1>7 DEF ArchLeftOps
      <4>2. /\ at[k] \in ArchShifted(size) /\ at[k + 1] \in ArchShifted(size)
            /\ at[k + 1].a = ArchShift1Word(op, at[k], size)
            /\ at[k + 1].cf = (at[k].a \div CpuSign(size) = 1)
        BY <1>6, <4>1, ArchTurnsStep
      <4> QED  BY <1>7, <4>2
    <3> HIDE DEF f
    <3>3. ArchWhole(at[k + 1], T) = ((2 * ArchWhole(at[k], T)) % (2 * T)) + ArchWhole(at[k], T) \div T
      BY <3>2, RclWhole
    <3> QED  BY <3>1, <3>3
  <2> HIDE DEF f
  <2>2. RingGoesLeft(f, n, ArchWhole(start, T), T, count)
    BY <1>3, <1>5, <2>1, Zenon DEF RingGoesLeft
  <2>3. f[count] = Ring(n, ArchWhole(start, T), count % n)
    BY <1>2, <1>4, <2>2, RingLeft
  <2>4. f[count] = ArchWhole(at[count], T)
    BY DEF f
  <2> QED  BY <1>7, <2>3, <2>4
<1>8. CASE op = "rcr"
  <2>1. \A k \in Nat : k + 1 <= count => f[k + 1] = (f[k] \div 2) + (f[k] % 2) * T
    <3> SUFFICES ASSUME NEW k \in Nat, k + 1 <= count
                 PROVE  f[k + 1] = (f[k] \div 2) + (f[k] % 2) * T
      OBVIOUS
    <3>1. f[k] = ArchWhole(at[k], T) /\ f[k + 1] = ArchWhole(at[k + 1], T)
      OBVIOUS
    <3>2. /\ at[k] \in ArchShifted(size) /\ at[k + 1] \in ArchShifted(size)
          /\ at[k + 1].a = ArchShift1Word("rcr", at[k], size)
          /\ at[k + 1].cf = (at[k].a % 2 = 1)
      <4> HIDE DEF f
      <4>1. op \notin ArchLeftOps /\ ArchTurns(at, op, start, count, size)
        BY <1>8 DEF ArchLeftOps
      <4>2. /\ at[k] \in ArchShifted(size) /\ at[k + 1] \in ArchShifted(size)
            /\ at[k + 1].a = ArchShift1Word(op, at[k], size)
            /\ at[k + 1].cf = (at[k].a % 2 = 1)
        BY <1>6, <4>1, ArchTurnsStep
      <4> QED  BY <1>8, <4>2
    <3> HIDE DEF f
    <3>3. ArchWhole(at[k + 1], T) = (ArchWhole(at[k], T) \div 2) + (ArchWhole(at[k], T) % 2) * T
      BY <3>2, RcrWhole
    <3> QED  BY <3>1, <3>3
  <2> HIDE DEF f
  <2>2. RingGoesRight(f, n, ArchWhole(start, T), T, count)
    BY <1>3, <1>5, <2>1, Zenon DEF RingGoesRight
  <2>3. f[count] = Ring(n, ArchWhole(start, T), n - (count % n))
    BY <1>2, <1>4, <2>2, RingRight
  <2>4. f[count] = ArchWhole(at[count], T)
    BY DEF f
  <2> QED  BY <1>8, <2>3, <2>4
<1> QED  BY <1>7, <1>8

LEMMA CpuThroughIs ==
  ASSUME NEW s \in CpuState, NEW op \in {"rcl", "rcr"}, NEW size \in CpuAllSizes,
         NEW a \in 0..CpuTop(size) - 1, NEW count \in Nat, NEW T, T = CpuTop(size),
         NEW n, n = CpuWidth(size) + 1, NEW ring, ring = ArchWhole([a |-> a, cf |-> s.cf], T),
         NEW w, w = Ring(n, ring, IF op = "rcl" THEN count % n ELSE n - (count % n))
  PROVE  CpuThroughCarry(s, op, a, count, size) = [r |-> w % T, cf |-> w >= T]
<1>1. PICK W \in Nat : W = CpuWidth(size) /\ T = 2 ^ W
  BY CpuPowersOf
<1>2. n \in Nat \ {0} /\ n = W + 1
  BY <1>1
<1>3. [a |-> a, cf |-> s.cf] \in ArchShifted(size)
  BY CpuStateParts DEF ArchShifted
<1>4. ring \in 0..2 ^ n - 1
  <2>1. 2 ^ n = 2 * T
    BY <1>1, <1>2, PowerStep
  <2> QED  BY <1>3, <2>1, WholeIs
<1>5. ring = a + (IF s.cf THEN T ELSE 0)
  BY Zenon DEF ArchWhole
<1>6. PICK c \in 0..n - 1 : c = count % n
  BY <1>2, NextModulo
<1>7. PICK k : k = IF op = "rcl" THEN c ELSE (n - c) % n
  OBVIOUS
<1>8. Ring(n, ring, k) = w
  <2>1. CASE op = "rcl"
    BY <1>6, <1>7, <2>1
  <2>2. CASE op # "rcl" /\ c = 0
    <3>1. (n - c) % n = 0
      <4>1. (n * 1 + 0) % n = 0
        BY <1>2, DividedOnce
      <4>2. n * 1 + 0 = n - c
        BY <1>2, <2>2
      <4> QED  BY <4>1, <4>2
    <3>2. k = 0 /\ n - c = n
      BY <1>2, <1>7, <2>2, <3>1
    <3>3. Ring(n, ring, 0) = ring /\ Ring(n, ring, n) = ring
      BY <1>2, <1>4, RingEnds
    <3> QED  BY <1>6, <2>2, <3>2, <3>3
  <2>3. CASE op # "rcl" /\ c # 0
    <3>1. (n - c) % n = n - c
      <4>1. 0 <= n - c /\ n - c < n /\ n - c \in Int
        BY <1>2, <2>3
      <4>2. (n * 0 + (n - c)) % n = n - c
        BY <1>2, <4>1, DividedOnce
      <4>3. n * 0 + (n - c) = n - c
        BY <1>2
      <4> QED  BY <4>2, <4>3
    <3> QED  BY <1>6, <1>7, <2>3, <3>1
  <2> QED  BY <2>1, <2>2, <2>3
<1>9. CpuThroughCarry(s, op, a, count, size)
        = [r |-> Ring(n, ring, k) % T, cf |-> Ring(n, ring, k) >= T]
  BY <1>5, <1>6, <1>7, Zenon DEF CpuThroughCarry, Ring
<1> QED  BY <1>8, <1>9

-----------------------------------------------------------------------------
\* A shift of which the overflow is not kept agrees when the word and the carry do.
LEMMA CpuShiftAgreedWhen ==
  ASSUME NEW s \in CpuState, NEW i \in CpuInsns, i.op \in {"rcl", "rcr"} \cup CpuShiftOps,
         NEW a, a = CpuRead(s, i.d, i.size, i.rex), NEW count \in Nat, count = CpuCount(s, i),
         NEW x \in ArchShifted(i.size), ArchShift(s, i) = ArchShiftDone(s, i, a, count, x),
         count = 0 => x.a = a, x.a = CpuShiftWord(s, i.op, a, count, i.size),
         NEW cf \in BOOLEAN, cf = CpuShiftCarry(s, i.op, a, count, x.a, i.size),
         "cf" \in CpuKept(s, i) => cf = (IF count = 0 THEN s.cf ELSE x.cf)
  PROVE  CpuAgreed(s, i)
<1>0. i.op \in CpuTurnOps
  BY DEF CpuTurnOps, CpuRotateOps
<1>1. i.size \in CpuAllSizes /\ CpuDo(s, i) = CpuDoShift(s, i) /\ Arch(s, i) = ArchShift(s, i)
  BY <1>0, CpuShiftParts
<1>2. PICK r \in Int : r = x.a
  <2>1. x.a \in 0..CpuTop(i.size) - 1 /\ CpuTop(i.size) \in Nat
    BY <1>1, CpuTops DEF ArchShifted
  <2> QED  BY <2>1
<1>3. PICK d \in BOOLEAN : d = (IF count = 0 THEN s.cf ELSE x.cf)
  BY CpuStateParts DEF ArchShifted
<1>4. PICK o \in BOOLEAN : o = CpuShiftOverflow(s, i.op, count, r, cf, i.size)
  <2>1. s.of \in BOOLEAN
    BY CpuStateParts
  <2>2. CpuShiftOverflow(s, i.op, count, r, cf, i.size) = s.of
    BY DEF CpuShiftOverflow, CpuShiftOps
  <2> QED  BY <2>1, <2>2
<1>5. PICK n \in BOOLEAN : n = (IF count = 0 THEN s.of
                                ELSE ArchShiftOverflow(s, i.op, a, count, x, i.size))
  <2>1. s.of \in BOOLEAN /\ x.cf \in BOOLEAN
    BY CpuStateParts DEF ArchShifted
  <2>2. ArchShiftOverflow(s, i.op, a, count, x, i.size) \in BOOLEAN
    BY <2>1, Zenon DEF ArchShiftOverflow, CpuTopBit, CpuBit
  <2> QED  BY <2>1, <2>2
<1>6. PICK p \in CpuState : p = CpuShiftFlagged(s, i.op, r, i.size) /\ p.reg = s.reg
  <2>1. CpuShiftFlagged(s, i.op, r, i.size) = CpuResultFlags(s, r, i.size)
    BY DEF CpuShiftFlagged, CpuShiftOps
  <2> QED  BY <2>1, CpuResultFlagsIs
<1>7. PICK q \in CpuState :
        /\ q = (IF count # 0 /\ i.op \in CpuShiftOps THEN CpuResultFlags(s, x.a, i.size) ELSE s)
        /\ q.reg = s.reg
  BY CpuResultFlagsIs
<1>8. CpuDo(s, i) = CpuShiftLeft(p, i, cf, o, r)
  BY <1>1, <1>2, <1>4, <1>6, CpuDoShiftIs
<1>9. Arch(s, i) = CpuShiftLeft(q, i, d, n, r)
  BY <1>1, <1>2, <1>3, <1>5, <1>7, ArchShiftForm
<1>10. PICK parts : parts = CpuKept(s, i)
  OBVIOUS
<1>11. "of" \notin parts /\ ("cf" \in parts => cf = d)
  BY <1>0, <1>3, <1>10, CpuTurnsKept
<1>12. p = q \/ parts \subseteq {"regs", "cf"}
  <2>1. CASE i.op \in {"rcl", "rcr"}
    BY <1>0, <1>10, <2>1, CpuTurnsKept
  <2>2. CASE i.op \in CpuShiftOps /\ count = 0
    BY <1>0, <1>10, <2>2, CpuTurnsKept
  <2>3. CASE i.op \in CpuShiftOps /\ count # 0
    BY <1>2, <1>6, <1>7, <2>3 DEF CpuShiftFlagged, CpuShiftOps
  <2> QED  BY <2>1, <2>2, <2>3
<1>13. /\ "zf" \in parts => p.zf = q.zf
       /\ "sf" \in parts => p.sf = q.sf
       /\ "pf" \in parts => p.pf = q.pf
  BY <1>12
<1>14. p.reg = q.reg
  BY <1>6, <1>7
<1> QED  BY <1>8, <1>9, <1>10, <1>11, <1>13, <1>14, CpuShiftAgreedBy

LEMMA CpuCarryTurnsAgreed ==
  ASSUME NEW s \in CpuState, NEW i \in CpuInsns, i.op \in {"rcl", "rcr"}
  PROVE  CpuAgreed(s, i)
<1>0. i.op \in CpuTurnOps
  BY DEF CpuTurnOps, CpuRotateOps
<1>1. i.size \in CpuAllSizes /\ CpuDo(s, i) = CpuDoShift(s, i) /\ Arch(s, i) = ArchShift(s, i)
  BY <1>0, CpuShiftParts
<1>2. PICK a \in 0..CpuTop(i.size) - 1 : a = CpuRead(s, i.d, i.size, i.rex)
  BY <1>0, CpuShiftParts
<1>3. PICK count \in Nat : count = CpuCount(s, i)
  BY <1>0, CpuShiftParts
<1>4. PICK start \in ArchShifted(i.size) : start = [a |-> a, cf |-> s.cf]
  BY CpuStateParts DEF ArchShifted
<1>5. PICK at : /\ ArchTurns(at, i.op, start, count, i.size)
                /\ ArchShift(s, i) = ArchShiftDone(s, i, a, count, at[count])
  BY <1>0, <1>2, <1>3, <1>4, ArchShiftIs
<1>6. PICK x \in ArchShifted(i.size) : x = at[count]
  BY <1>5 DEF ArchTurns
<1>7. PICK T : T = CpuTop(i.size)
  OBVIOUS
<1>8. PICK m : m = CpuWidth(i.size) + 1
  OBVIOUS
<1>9. PICK w : w = ArchWhole(x, T)
  OBVIOUS
<1>10. w = Ring(m, ArchWhole(start, T), IF i.op = "rcl" THEN count % m ELSE m - (count % m))
  BY <1>1, <1>5, <1>6, <1>7, <1>8, <1>9, CarryTurns
<1>11. CpuThroughCarry(s, i.op, a, count, i.size) = [r |-> w % T, cf |-> w >= T]
  BY <1>1, <1>4, <1>7, <1>8, <1>10, CpuThroughIs
<1>12. x.a = w % T /\ x.cf = (w >= T)
  BY <1>1, <1>7, <1>9, WholeIs
<1>13. x.a = CpuShiftWord(s, i.op, a, count, i.size)
  BY <1>11, <1>12 DEF CpuShiftWord
<1>14. x.cf = CpuShiftCarry(s, i.op, a, count, x.a, i.size) /\ x.cf \in BOOLEAN
  BY <1>11, <1>12 DEF CpuShiftCarry, ArchShifted
<1>15. count = 0 => x.a = a /\ x.cf = s.cf
  BY <1>4, <1>5, <1>6 DEF ArchTurns
<1> QED  BY <1>2, <1>3, <1>5, <1>6, <1>13, <1>14, <1>15, CpuShiftAgreedWhen

-----------------------------------------------------------------------------
(* shl, shr and sar.                                                        *)

\* Bits of a multiple of a power of two.
LEMMA CpuBitUp ==
  ASSUME NEW a \in Int, NEW k \in Nat, NEW j \in Nat
  PROVE  CpuBit(a * 2 ^ k, k + j) = CpuBit(a, j)
<1>1. PICK p \in Nat \ {0} : p = 2 ^ k
  BY CpuPowers
<1>2. PICK q \in Nat \ {0} : q = 2 ^ j
  BY CpuPowers
<1>3. 2 ^ (k + j) = p * q
  BY <1>1, <1>2, PowerAdds
<1>4. PICK x \in Int : x = a * p
  OBVIOUS
<1>5. x \div p = a
  <2>1. (p * a + 0) \div p = a
    BY DividedOnce
  <2>2. p * a + 0 = a * p
    OBVIOUS
  <2> QED  BY <1>4, <2>1, <2>2
<1>6. x \div (p * q) = a \div q
  BY <1>5, NestedQuotient
<1>7. k + j >= 0 /\ j >= 0
  OBVIOUS
<1> QED  BY <1>1, <1>2, <1>3, <1>4, <1>6, <1>7, Zenon DEF CpuBit

LEMMA ShlTurns ==
  ASSUME NEW size \in CpuAllSizes, NEW a \in 0..CpuTop(size) - 1, NEW cf,
         NEW count \in Nat, NEW at, ArchTurns(at, "shl", [a |-> a, cf |-> cf], count, size)
  PROVE  /\ at[count].a = CpuUns(a * 2 ^ count, size)
         /\ count # 0 /\ count <= CpuWidth(size)
              => at[count].cf = CpuBit(a, CpuWidth(size) - count)
<1>1. PICK W \in Nat \ {0, 1} : W = CpuWidth(size)
  BY CpuPowersOf
<1>2. PICK T \in Nat \ {0} : T = CpuTop(size) /\ T = 2 ^ W
  BY <1>1, CpuPowersOf, CpuTops
<1>3. a \in Int /\ a \in 0..T - 1
  BY <1>2
<1> DEFINE N == {k \in Nat : k <= count => at[k].a = CpuUns(a * 2 ^ k, size)}
<1>4. 0 \in N
  <2>1. 2 ^ 0 = 1
    OBVIOUS
  <2>2. a * 1 = a
    BY <1>3
  <2>3. CpuUns(a, size) = a
    BY <1>2, <1>3, CpuUnsIs
  <2>4. at[0].a = a
    BY DEF ArchTurns
  <2> QED  BY <2>1, <2>2, <2>3, <2>4
<1>5. ASSUME NEW k \in Nat, k + 1 <= count
      PROVE  /\ at[k] \in ArchShifted(size) /\ at[k + 1].a = CpuUns(2 * at[k].a, size)
             /\ at[k + 1].cf = (at[k].a \div CpuSign(size) = 1)
  <2>1. "shl" \in CpuTurnOps /\ "shl" \in ArchLeftOps
    BY DEF CpuTurnOps, CpuShiftOps, ArchLeftOps
  <2>2. /\ at[k] \in ArchShifted(size) /\ at[k + 1].a = ArchShift1Word("shl", at[k], size)
        /\ at[k + 1].cf = (at[k].a \div CpuSign(size) = 1)
    BY <1>5, <2>1, ArchTurnsStep, SMTT(30)
  <2> QED  BY <2>2 DEF ArchShift1Word, CpuUns
<1>6. \A k \in Nat : k \in N => k + 1 \in N
  <2> SUFFICES ASSUME NEW k \in Nat, k \in N, k + 1 <= count
               PROVE  at[k + 1].a = CpuUns(a * 2 ^ (k + 1), size)
    OBVIOUS
  <2>1. PICK v \in Int : v = a * 2 ^ k
    BY <1>3, CpuQuotients
  <2>2. PICK u \in 0..T - 1 : u = at[k].a
    BY <1>2, <1>5 DEF ArchShifted
  <2>3. u \in Int /\ u = CpuUns(v, size)
    BY <1>2, <2>1, <2>2
  <2>4. CpuUns(2 * u, size) = CpuUns(2 * v, size)
    <3>1. CpuUns(u, size) = CpuUns(v, size)
      BY <2>1, <2>3, CpuUnsIs
    <3>2. CpuUns(2, size) = CpuUns(2, size) /\ 2 \in Int
      OBVIOUS
    <3> QED  BY <2>1, <2>3, <3>1, <3>2, CpuUnsProduct
  <2>5. 2 * v = a * 2 ^ (k + 1)
    <3>1. PICK p \in Nat \ {0} : p = 2 ^ k
      BY CpuPowers
    <3>2. 2 ^ (k + 1) = 2 * p
      BY <3>1, PowerStep
    <3>3. 2 * (a * p) = a * (2 * p)
      BY <1>3
    <3> QED  BY <2>1, <3>1, <3>2, <3>3
  <2> QED  BY <1>5, <2>2, <2>4, <2>5
<1>7. Nat \subseteq N
  <2> HIDE DEF N
  <2> QED  BY <1>4, <1>6, SetInduction
<1>8. ASSUME count # 0, count <= W
      PROVE  at[count].cf = CpuBit(a, W - count)
  <2>1. PICK k \in Nat : k + 1 = count
    <3>1. count - 1 \in Nat /\ (count - 1) + 1 = count
      BY <1>8
    <3> QED  BY <3>1
  <2>2. PICK u \in 0..T - 1 : u = at[k].a
    BY <1>2, <1>5, <2>1 DEF ArchShifted
  <2>3. at[count].cf = (u \div CpuSign(size) = 1)
    BY <1>5, <2>1, <2>2
  <2>4. CpuBit(u, W - 1) = (u \div CpuSign(size) = 1)
    BY <1>1, <1>2, CpuTopBitIs
  <2>5. PICK v \in Int : v = a * 2 ^ k
    BY <1>3, CpuQuotients
  <2>6. u = CpuUns(v, size)
    BY <1>7, <2>1, <2>2, <2>5
  <2>7. CpuBit(u, W - 1) = CpuBit(v, W - 1)
    <3>1. W - 1 \in Nat /\ W - 1 < W
      OBVIOUS
    <3> QED  BY <1>1, <2>6, <3>1, CpuBitsOf
  <2>8. PICK j \in Nat : j = W - count
    BY <1>8
  <2>9. W - 1 = k + j
    BY <2>1, <2>8
  <2>10. CpuBit(v, k + j) = CpuBit(a, j)
    BY <1>3, <2>5, CpuBitUp
  <2> QED  BY <2>3, <2>4, <2>7, <2>8, <2>9, <2>10
<1> QED  BY <1>1, <1>7, <1>8

LEMMA ShrTurns ==
  ASSUME NEW size \in CpuAllSizes, NEW a \in 0..CpuTop(size) - 1, NEW cf,
         NEW count \in Nat, NEW at, ArchTurns(at, "shr", [a |-> a, cf |-> cf], count, size)
  PROVE  /\ at[count].a = a \div 2 ^ count
         /\ count # 0 => at[count].cf = CpuBit(a, count - 1)
<1>1. a \in Int
  BY CpuTops
<1> DEFINE N == {k \in Nat : k <= count => at[k].a = a \div 2 ^ k}
<1>2. 0 \in N
  <2>1. 2 ^ 0 = 1 /\ a \div 1 = a
    BY <1>1
  <2>2. at[0].a = a
    BY DEF ArchTurns
  <2> QED  BY <2>1, <2>2
<1>3. ASSUME NEW k \in Nat, k + 1 <= count
      PROVE  at[k + 1].a = at[k].a \div 2 /\ at[k + 1].cf = (at[k].a % 2 = 1)
  <2>1. "shr" \in CpuTurnOps /\ "shr" \notin ArchLeftOps
    BY DEF CpuTurnOps, CpuShiftOps, ArchLeftOps
  <2>2. /\ at[k + 1].a = ArchShift1Word("shr", at[k], size)
        /\ "shr" \notin ArchLeftOps => at[k + 1].cf = (at[k].a % 2 = 1)
    <3> HIDE DEF N
    <3> QED  BY <1>3, <2>1, ArchTurnsStep
  <2> QED  BY <2>1, <2>2 DEF ArchShift1Word
<1>4. \A k \in Nat : k \in N => k + 1 \in N
  <2> SUFFICES ASSUME NEW k \in Nat, k \in N, k + 1 <= count
               PROVE  at[k + 1].a = a \div 2 ^ (k + 1)
    OBVIOUS
  <2>1. PICK p \in Nat \ {0} : p = 2 ^ k
    BY CpuPowers
  <2>2. 2 ^ (k + 1) = p * 2
    BY <2>1, PowerStep
  <2>3. (a \div p) \div 2 = a \div (p * 2)
    <3> DEFINE two == 2
    <3>1. two \in Nat \ {0}
      OBVIOUS
    <3>2. (a \div p) \div two = a \div (p * two)
      <4> HIDE DEF two
      <4> QED  BY <1>1, <3>1, NestedQuotient
    <3> QED  BY <3>2 DEF two
  <2>4. at[k].a = a \div p
    BY <2>1
  <2> QED  BY <1>3, <2>2, <2>3, <2>4
<1>5. Nat \subseteq N
  <2> HIDE DEF N
  <2> QED  BY <1>2, <1>4, SetInduction
<1>6. ASSUME count # 0
      PROVE  at[count].cf = CpuBit(a, count - 1)
  <2>1. PICK k \in Nat : k + 1 = count
    <3>1. count - 1 \in Nat /\ (count - 1) + 1 = count
      BY <1>6
    <3> QED  BY <3>1
  <2>2. at[k].a = a \div 2 ^ k
    BY <1>5, <2>1
  <2>3. at[count].cf = (at[k].a % 2 = 1)
    BY <1>3, <2>1
  <2>4. count - 1 = k /\ k >= 0
    BY <2>1
  <2> QED  BY <2>2, <2>3, <2>4 DEF CpuBit
<1> QED  BY <1>5, <1>6

-----------------------------------------------------------------------------
\* One arithmetic shift to the right, of a word and of the number it stands for.
SignedWord(S, y) == IF y < 0 THEN y + 2 * S ELSE y

LEMMA SarStep ==
  ASSUME NEW S \in Nat \ {0}, NEW y \in -S..S - 1, NEW x, x = SignedWord(S, y)
  PROVE  /\ y \div 2 \in -S..S - 1 /\ x % 2 = y % 2
         /\ (x \div 2) + (x \div S) * S = SignedWord(S, y \div 2)
<1> USE DEF SignedWord
<1>1. y \div 2 \in -S..S - 1 /\ (y < 0 <=> y \div 2 < 0)
  OBVIOUS
<1>2. x \in 0..2 * S - 1 /\ (y < 0 => x = y + 2 * S) /\ (~(y < 0) => x = y)
  OBVIOUS
<1>3. x \div S = (IF y < 0 THEN 1 ELSE 0)
  <2>1. x \div S \in {0, 1} /\ (x \div S = 1 <=> x >= S)
    BY <1>2, ArchBits
  <2>2. x >= S <=> y < 0
    BY <1>2
  <2> QED  BY <2>1, <2>2
<1>4. CASE y < 0
  <2>1. (y + 2 * S) \div 2 = (y \div 2) + S /\ (y + 2 * S) % 2 = y % 2
    OBVIOUS
  <2>2. (x \div S) * S = S
    BY <1>3, <1>4
  <2> QED  BY <1>1, <1>2, <1>4, <2>1, <2>2
<1>5. CASE ~(y < 0)
  <2>1. (x \div S) * S = 0
    BY <1>3, <1>5
  <2> QED  BY <1>1, <1>2, <1>5, <2>1
<1> QED  BY <1>4, <1>5

LEMMA CpuUnsSigned ==
  ASSUME NEW size \in CpuAllSizes, NEW y \in -CpuSign(size)..CpuSign(size) - 1
  PROVE  CpuUns(y, size) = SignedWord(CpuSign(size), y)
<1>1. PICK S \in Nat \ {0} : S = CpuSign(size) /\ CpuTop(size) = 2 * S
  BY CpuTops
<1>2. y \in Int /\ -S <= y /\ y < S
  BY <1>1
<1>3. CASE y < 0
  <2>1. CpuUns(y + CpuTop(size) * 1, size) = CpuUns(y, size)
    BY <1>2, CpuUnsIs
  <2>2. y + CpuTop(size) * 1 = y + 2 * S
    BY <1>1, <1>2
  <2>3. y + 2 * S \in 0..CpuTop(size) - 1 /\ y + 2 * S \in Int
    BY <1>1, <1>2, <1>3
  <2>4. CpuUns(y + 2 * S, size) = y + 2 * S
    BY <2>3, CpuUnsIs
  <2> QED  BY <1>1, <1>3, <2>1, <2>2, <2>4 DEF SignedWord
<1>4. CASE ~(y < 0)
  <2>1. y \in 0..CpuTop(size) - 1
    BY <1>1, <1>2, <1>4
  <2> QED  BY <1>2, <1>4, <2>1, CpuUnsIs DEF SignedWord
<1> QED  BY <1>3, <1>4

LEMMA SarTurns ==
  ASSUME NEW size \in CpuAllSizes, NEW a \in 0..CpuTop(size) - 1, NEW cf,
         NEW count \in Nat, NEW at, ArchTurns(at, "sar", [a |-> a, cf |-> cf], count, size)
  PROVE  /\ at[count].a = CpuUns(CpuSgn(a, size) \div 2 ^ count, size)
         /\ count # 0 /\ count <= CpuWidth(size) => at[count].cf = CpuBit(a, count - 1)
<1>1. PICK W \in Nat \ {0, 1} : W = CpuWidth(size)
  BY CpuPowersOf
<1>2. PICK S \in Nat \ {0} : S = CpuSign(size) /\ CpuTop(size) = 2 * S
  BY CpuTops
<1>3. a \in Int /\ a \in 0..CpuTop(size) - 1
  BY <1>2
<1>4. PICK y \in -S..S - 1 : y = CpuSgn(a, size) /\ CpuUns(y, size) = a
  <2>1. CpuUns(a, size) = a
    BY <1>3, CpuUnsIs
  <2>2. CpuSgn(a, size) \in Int /\ -S <= CpuSgn(a, size) /\ CpuSgn(a, size) < S
    BY <1>2, <1>3, CpuSgnIs
  <2>3. CpuUns(CpuSgn(a, size), size) = CpuUns(a, size)
    BY <1>3, CpuSgnIs
  <2> QED  BY <2>1, <2>2, <2>3
<1>5. y \in Int
  OBVIOUS
<1> DEFINE N == {k \in Nat : k <= count => /\ y \div 2 ^ k \in -S..S - 1
                                           /\ at[k].a = SignedWord(S, y \div 2 ^ k)}
<1>6. 0 \in N
  <2>1. 2 ^ 0 = 1 /\ y \div 1 = y
    BY <1>5
  <2>2. at[0].a = a
    BY DEF ArchTurns
  <2>3. CpuUns(y, size) = SignedWord(S, y)
    BY <1>2, CpuUnsSigned
  <2> QED  BY <1>4, <2>1, <2>2, <2>3
<1>7. ASSUME NEW k \in Nat, k + 1 <= count
      PROVE  /\ at[k + 1].a = (at[k].a \div 2) + (at[k].a \div S) * S
             /\ at[k + 1].cf = (at[k].a % 2 = 1)
  <2> HIDE DEF N
  <2>1. "sar" \in CpuTurnOps /\ "sar" \notin ArchLeftOps
    BY DEF CpuTurnOps, CpuShiftOps, ArchLeftOps
  <2>2. /\ at[k + 1].a = ArchShift1Word("sar", at[k], size)
        /\ "sar" \notin ArchLeftOps => at[k + 1].cf = (at[k].a % 2 = 1)
    BY <1>7, <2>1, ArchTurnsStep
  <2> QED  BY <1>2, <2>1, <2>2 DEF ArchShift1Word
<1>8. \A k \in Nat : k \in N => k + 1 \in N
  <2> SUFFICES ASSUME NEW k \in Nat, k \in N, k + 1 <= count
               PROVE  /\ y \div 2 ^ (k + 1) \in -S..S - 1
                      /\ at[k + 1].a = SignedWord(S, y \div 2 ^ (k + 1))
    OBVIOUS
  <2>1. PICK p \in Nat \ {0} : p = 2 ^ k
    BY CpuPowers
  <2>2. 2 ^ (k + 1) = p * 2
    BY <2>1, PowerStep
  <2>3. (y \div p) \div 2 = y \div (p * 2)
    <3> DEFINE two == 2
    <3>1. two \in Nat \ {0}
      OBVIOUS
    <3>2. (y \div p) \div two = y \div (p * two)
      <4> HIDE DEF two
      <4> QED  BY <1>5, <3>1, NestedQuotient
    <3> QED  BY <3>2 DEF two
  <2>4. PICK z \in -S..S - 1 : z = y \div p /\ at[k].a = SignedWord(S, z)
    BY <2>1
  <2>5. PICK x : x = at[k].a
    OBVIOUS
  <2>6. z \div 2 \in -S..S - 1 /\ (x \div 2) + (x \div S) * S = SignedWord(S, z \div 2)
    BY <2>4, <2>5, SarStep
  <2> QED  BY <1>7, <2>2, <2>3, <2>4, <2>5, <2>6
<1>9. Nat \subseteq N
  <2> HIDE DEF N
  <2> QED  BY <1>6, <1>8, SetInduction
<1>10. at[count].a = CpuUns(y \div 2 ^ count, size)
  <2>1. PICK z \in -S..S - 1 : z = y \div 2 ^ count /\ at[count].a = SignedWord(S, z)
    BY <1>9
  <2>2. CpuUns(z, size) = SignedWord(S, z)
    BY <1>2, CpuUnsSigned
  <2> QED  BY <2>1, <2>2
<1>11. ASSUME count # 0, count <= W
       PROVE  at[count].cf = CpuBit(a, count - 1)
  <2>1. PICK k \in Nat : k + 1 = count
    <3>1. count - 1 \in Nat /\ (count - 1) + 1 = count
      BY <1>11
    <3> QED  BY <3>1
  <2>2. k <= count
    BY <2>1
  <2>3. PICK z \in -S..S - 1 : z = y \div 2 ^ k /\ at[k].a = SignedWord(S, z)
    BY <1>9, <2>2
  <2>4. at[k].a % 2 = z % 2
    <3>1. PICK x : x = SignedWord(S, z)
      OBVIOUS
    <3>2. x % 2 = z % 2
      BY <3>1, SarStep
    <3> QED  BY <2>3, <3>1, <3>2
  <2>5. at[count].cf = (z % 2 = 1)
    BY <1>7, <2>1, <2>4
  <2>6. CpuBit(y, k) = (z % 2 = 1)
    <3>1. k >= 0
      OBVIOUS
    <3> QED  BY <2>3, <3>1 DEF CpuBit
  <2>7. CpuBit(CpuUns(y, size), k) = CpuBit(y, k)
    <3>1. k < W
      BY <1>11, <2>1
    <3> QED  BY <1>1, <1>5, <3>1, CpuBitsOf
  <2>8. count - 1 = k
    BY <2>1
  <2> QED  BY <1>4, <2>5, <2>6, <2>7, <2>8
<1> QED  BY <1>1, <1>4, <1>10, <1>11

LEMMA CpuShiftsAgreed ==
  ASSUME NEW s \in CpuState, NEW i \in CpuInsns, i.op \in CpuShiftOps
  PROVE  CpuAgreed(s, i)
<1>0. i.op \in CpuTurnOps
  BY DEF CpuTurnOps
<1>1. i.size \in CpuAllSizes /\ CpuDo(s, i) = CpuDoShift(s, i) /\ Arch(s, i) = ArchShift(s, i)
  BY <1>0, CpuShiftParts
<1>2. PICK a \in 0..CpuTop(i.size) - 1 : a = CpuRead(s, i.d, i.size, i.rex)
  BY <1>0, CpuShiftParts
<1>3. PICK count \in Nat : count = CpuCount(s, i)
  BY <1>0, CpuShiftParts
<1>4. PICK at : /\ ArchTurns(at, i.op, [a |-> a, cf |-> s.cf], count, i.size)
                /\ ArchShift(s, i) = ArchShiftDone(s, i, a, count, at[count])
  BY <1>0, <1>2, <1>3, ArchShiftIs
<1>5. PICK x \in ArchShifted(i.size) : x = at[count]
  BY <1>4 DEF ArchTurns
<1>6. PICK W \in Nat : W = CpuWidth(i.size)
  BY <1>1, CpuTops
<1>7. /\ x.a = CpuShiftWord(s, i.op, a, count, i.size)
      /\ count # 0 /\ count <= W => x.cf = CpuShiftCarry(s, i.op, a, count, x.a, i.size)
  <2>1. count > 0 <=> count # 0
    OBVIOUS
  <2>2. CASE i.op = "shl"
    <3>1. /\ x.a = CpuUns(a * 2 ^ count, i.size)
          /\ count # 0 /\ count <= W => x.cf = CpuBit(a, W - count)
      BY <1>1, <1>4, <1>5, <1>6, <2>2, ShlTurns
    <3>2. CpuShiftWord(s, "shl", a, count, i.size) = CpuUns(a * 2 ^ count, i.size)
      BY DEF CpuShiftWord
    <3>3. CpuShiftCarry(s, "shl", a, count, x.a, i.size) = (count > 0 /\ CpuBit(a, W - count))
      BY <1>6 DEF CpuShiftCarry
    <3>4. PICK bit \in BOOLEAN : bit = CpuBit(a, W - count)
      BY DEF CpuBit
    <3> QED  BY <2>1, <2>2, <3>1, <3>2, <3>3, <3>4
  <2>3. CASE i.op = "shr"
    <3>1. /\ x.a = a \div 2 ^ count
          /\ count # 0 => x.cf = CpuBit(a, count - 1)
      BY <1>1, <1>4, <1>5, <2>3, ShrTurns
    <3>2. CpuShiftWord(s, "shr", a, count, i.size) = a \div 2 ^ count
      BY DEF CpuShiftWord
    <3>3. CpuShiftCarry(s, "shr", a, count, x.a, i.size) = (count > 0 /\ CpuBit(a, count - 1))
      BY DEF CpuShiftCarry
    <3>4. PICK bit \in BOOLEAN : bit = CpuBit(a, count - 1)
      BY DEF CpuBit
    <3> QED  BY <2>1, <2>3, <3>1, <3>2, <3>3, <3>4
  <2>4. CASE i.op = "sar"
    <3>1. /\ x.a = CpuUns(CpuSgn(a, i.size) \div 2 ^ count, i.size)
          /\ count # 0 /\ count <= W => x.cf = CpuBit(a, count - 1)
      BY <1>1, <1>4, <1>5, <1>6, <2>4, SarTurns
    <3>2. CpuShiftWord(s, "sar", a, count, i.size) = CpuUns(CpuSgn(a, i.size) \div 2 ^ count, i.size)
      BY DEF CpuShiftWord
    <3>3. CpuShiftCarry(s, "sar", a, count, x.a, i.size) = (count > 0 /\ CpuBit(a, count - 1))
      BY DEF CpuShiftCarry
    <3>4. PICK bit \in BOOLEAN : bit = CpuBit(a, count - 1)
      BY DEF CpuBit
    <3> QED  BY <2>1, <2>4, <3>1, <3>2, <3>3, <3>4
  <2> QED  BY <2>2, <2>3, <2>4 DEF CpuShiftOps
<1>8. count = 0 => x.a = a
  BY <1>4, <1>5 DEF ArchTurns
<1>9. PICK cf \in BOOLEAN : cf = CpuShiftCarry(s, i.op, a, count, x.a, i.size)
  BY DEF CpuShiftCarry, CpuShiftOps, CpuBit
<1>10. "cf" \in CpuKept(s, i) => cf = (IF count = 0 THEN s.cf ELSE x.cf)
  <2>1. "cf" \in CpuKept(s, i) => count <= W /\ count # 0
    <3>1. "cf" \in CpuKept(s, i) => count <= W
      BY <1>0, <1>3, <1>6, CpuTurnsKept
    <3>2. count = 0 => CpuKept(s, i) \subseteq {"regs"}
      BY <1>0, <1>3, CpuTurnsKept
    <3> QED  BY <3>1, <3>2
  <2> QED  BY <1>7, <1>9, <2>1
<1> QED  BY <1>2, <1>3, <1>4, <1>5, <1>7, <1>8, <1>9, <1>10, CpuShiftAgreedWhen

-----------------------------------------------------------------------------
(* shld and shrd: the or of words without a common bit.                     *)

\* Bits of a multiple of a power of two below that power.
LEMMA CpuBitBelow ==
  ASSUME NEW z \in Int, NEW m \in Nat, NEW k \in Nat, k < m
  PROVE  ~CpuBit(z * 2 ^ m, k)
<1>1. PICK j \in Nat : j + 1 = m - k
  <2>1. m - k - 1 \in Nat /\ (m - k - 1) + 1 = m - k
    OBVIOUS
  <2> QED  BY <2>1
<1>2. PICK p \in Nat \ {0} : p = 2 ^ k
  BY CpuPowers
<1>3. PICK q \in Nat \ {0} : q = 2 ^ j
  BY CpuPowers
<1>4. 2 ^ m = p * (2 * q)
  <2>1. 2 ^ (j + 1) = 2 * q
    BY <1>3, PowerStep
  <2>2. m = k + (j + 1) /\ j + 1 \in Nat
    BY <1>1
  <2>3. 2 ^ (k + (j + 1)) = 2 ^ k * 2 ^ (j + 1)
    BY <2>2, PowerAdds
  <2> QED  BY <1>2, <2>1, <2>2, <2>3
<1>5. PICK x \in Int : x = z * q
  OBVIOUS
<1>6. z * 2 ^ m = p * (2 * x) + 0
  <2>1. z * (p * (2 * q)) = p * (2 * (z * q))
    OBVIOUS
  <2>2. p * (2 * (z * q)) + 0 = p * (2 * (z * q))
    OBVIOUS
  <2> QED  BY <1>4, <1>5, <2>1, <2>2
<1>7. (p * (2 * x) + 0) \div p = 2 * x
  <2>1. 2 * x \in Int
    OBVIOUS
  <2> QED  BY <2>1, DividedOnce
<1>8. (2 * x) % 2 = 0
  OBVIOUS
<1>9. ((z * 2 ^ m) \div 2 ^ k) % 2 = 0
  BY <1>2, <1>6, <1>7, <1>8
<1> QED  BY <1>9 DEF CpuBit

CpuApart(x, y, n) == \A k \in Nat : k < n => ~(CpuBit(x, k) /\ CpuBit(y, k))

LEMMA CpuApartIs ==
  ASSUME NEW m \in Nat, NEW x \in 0..2 ^ m - 1, NEW z \in Int, NEW n
  PROVE  CpuApart(x, z * 2 ^ m, n) /\ CpuApart(z * 2 ^ m, x, n)
<1>1. ASSUME NEW k \in Nat
      PROVE  ~(CpuBit(x, k) /\ CpuBit(z * 2 ^ m, k))
  <2>1. CASE k < m
    BY <2>1, CpuBitBelow
  <2>2. CASE ~(k < m)
    <3>1. k >= m
      BY <2>2
    <3> QED  BY <3>1, CpuBitAbove
  <2> QED  BY <2>1, <2>2
<1> QED  BY <1>1 DEF CpuApart

LEMMA CpuApartBelow ==
  ASSUME NEW m \in Nat, NEW x, NEW z \in Int, NEW n \in Nat, n <= m
  PROVE  CpuApart(x, z * 2 ^ m, n) /\ CpuApart(z * 2 ^ m, x, n)
<1>1. ASSUME NEW k \in Nat, k < n
      PROVE  ~CpuBit(z * 2 ^ m, k)
  <2>1. k < m
    BY <1>1
  <2> QED  BY <2>1, CpuBitBelow
<1> QED  BY <1>1 DEF CpuApart

LEMMA CpuGathersSum ==
  ASSUME NEW x \in Int, NEW y \in Int, NEW low, CpuGathers(low, "or", x, y),
         NEW n \in Nat, n <= CpuWidth(8), CpuApart(x, y, n)
  PROVE  low[n] = (x % 2 ^ n) + (y % 2 ^ n)
<1> DEFINE W == CpuWidth(8)
           N == {k \in Nat : k <= n => low[k] = (x % 2 ^ k) + (y % 2 ^ k)}
<1>1. W \in Nat /\ n <= W
  BY CpuTops DEF CpuAllSizes
<1>2. /\ low[0] = 0
      /\ \A k \in 1..W : low[k] = low[k - 1] + (IF CpuKeeps("or", CpuBit(x, k - 1), CpuBit(y, k - 1))
                                                THEN 2 ^ (k - 1) ELSE 0)
  BY DEF CpuGathers
<1> HIDE DEF W
<1>3. 0 \in N
  <2>1. 2 ^ 0 = 1 /\ x % 1 = 0 /\ y % 1 = 0
    OBVIOUS
  <2> QED  BY <1>2, <2>1
<1>4. \A k \in Nat : k \in N => k + 1 \in N
  <2> SUFFICES ASSUME NEW k \in Nat, k \in N, k + 1 <= n
               PROVE  low[k + 1] = (x % 2 ^ (k + 1)) + (y % 2 ^ (k + 1))
    OBVIOUS
  <2>1. k + 1 \in 1..W /\ (k + 1) - 1 = k /\ k < n
    BY <1>1
  <2>2. PICK p \in Nat \ {0} : p = 2 ^ k
    BY CpuPowers
  <2>3. PICK u \in Int : u = x % 2 ^ k
    BY CpuQuotients
  <2>4. PICK v \in Int : v = y % 2 ^ k
    BY CpuQuotients
  <2>5. low[k] = u + v
    BY <2>1, <2>3, <2>4
  <2>6. PICK g \in BOOLEAN : g = CpuBit(x, k)
    BY DEF CpuBit
  <2>7. PICK h \in BOOLEAN : h = CpuBit(y, k)
    BY DEF CpuBit
  <2>8. ~(g /\ h)
    BY <2>1, <2>6, <2>7 DEF CpuApart
  <2>9. x % 2 ^ (k + 1) = u + (IF g THEN p ELSE 0)
    BY <2>2, <2>3, <2>6, CpuBitStep
  <2>10. y % 2 ^ (k + 1) = v + (IF h THEN p ELSE 0)
    BY <2>2, <2>4, <2>7, CpuBitStep
  <2>11. low[k + 1] = low[k] + (IF g \/ h THEN p ELSE 0)
    <3>1. low[k + 1] = low[k] + (IF CpuKeeps("or", CpuBit(x, k), CpuBit(y, k)) THEN 2 ^ k ELSE 0)
      BY <1>2, <2>1
    <3>2. CpuKeeps("or", g, h) = (g \/ h)
      BY DEF CpuKeeps
    <3> QED  BY <2>2, <2>6, <2>7, <3>1, <3>2
  <2> HIDE DEF N
  <2> QED  BY <2>5, <2>8, <2>9, <2>10, <2>11
<1>5. Nat \subseteq N
  <2> HIDE DEF N
  <2> QED  BY <1>3, <1>4, SetInduction
<1> QED  BY <1>5

\* What the or of such words leaves of the width of the operand is their sum.
LEMMA CpuOrSums ==
  ASSUME NEW size \in CpuAllSizes, NEW x \in Int, NEW y \in Int, CpuApart(x, y, CpuWidth(size))
  PROVE  CpuUns(CpuBitwise("or", x, y), size) = CpuUns(x + y, size)
<1>1. PICK n \in Nat : n = CpuWidth(size) /\ n <= CpuWidth(8) /\ CpuWidth(8) \in Nat
  BY CpuWidths
<1>2. PICK T \in Nat \ {0} : T = CpuTop(size) /\ T = 2 ^ n
  BY <1>1, CpuPowersOf, CpuTops
<1>3. PICK low : CpuGathers(low, "or", x, y) /\ CpuBitwise("or", x, y) = low[CpuWidth(8)]
  BY CpuBitwiseIs
<1>4. low[CpuWidth(8)] % 2 ^ n = low[n]
  BY <1>1, <1>3, CpuGathersAbove
<1>5. low[n] = (x % T) + (y % T)
  BY <1>1, <1>2, <1>3, CpuGathersSum
<1>6. low[n] \in 0..T - 1
  <2>1. n \in 0..CpuWidth(8)
    BY <1>1
  <2> QED  BY <1>2, <1>3, <2>1, CpuGathered
<1>7. CpuUns(CpuBitwise("or", x, y), size) = low[n]
  BY <1>2, <1>3, <1>4 DEF CpuUns
<1>8. PICK g \in Int : g = CpuUns(x, size)
  BY CpuUnsTyped
<1>9. PICK h \in Int : h = CpuUns(y, size)
  BY CpuUnsTyped
<1>10. low[n] = g + h
  BY <1>2, <1>5, <1>8, <1>9 DEF CpuUns
<1>11. CpuUns(g + h, size) = CpuUns(x + y, size)
  <2>1. CpuUns(g, size) = CpuUns(x, size) /\ CpuUns(h, size) = CpuUns(y, size)
    BY <1>8, <1>9, CpuUnsIs
  <2> QED  BY <2>1, CpuUnsSums
<1>12. CpuUns(g + h, size) = g + h
  <2>1. g + h \in 0..CpuTop(size) - 1 /\ g + h \in Int
    BY <1>2, <1>6, <1>10
  <2> QED  BY <2>1, CpuUnsIs
<1> QED  BY <1>7, <1>10, <1>11, <1>12

-----------------------------------------------------------------------------
CpuMoved(op, a, count) == IF op = "shld" THEN a * 2 ^ count ELSE a \div 2 ^ count
CpuSpilled(op, b, count, size) ==
  IF count <= CpuWidth(size)
  THEN IF op = "shld" THEN b \div 2 ^ (CpuWidth(size) - count) ELSE b * 2 ^ (CpuWidth(size) - count)
  ELSE IF op = "shld" THEN b * 2 ^ (count - CpuWidth(size)) ELSE b \div 2 ^ (count - CpuWidth(size))
ArchDoubled(op, a, b, count, size) ==
  IF op = "shld" THEN ((a * CpuTop(size) + b) * 2 ^ count) \div CpuTop(size)
  ELSE (b * CpuTop(size) + a) \div 2 ^ count

LEMMA SmallQuotient ==
  ASSUME NEW p \in Nat \ {0}, NEW q \in Nat \ {0}, NEW T, T = p * q, NEW b \in 0..T - 1
  PROVE  b \div q \in 0..p - 1
<1>0. T \in Nat \ {0} /\ b \in Int
  OBVIOUS
<1>1. PICK d \in Int : d = b \div q
  BY <1>0, Divided
<1>2. PICK r \in Int : r = b % q
  BY <1>0, Divided
<1>3. b = q * d + r /\ 0 <= r /\ r < q
  BY <1>0, <1>1, <1>2, Divided
<1>4. q * d + r < p * q /\ 0 <= q * d + r
  BY <1>3
<1>5. d >= 0
  <2> SUFFICES ASSUME d + 1 <= 0 PROVE FALSE
    OBVIOUS
  <2>1. q * (d + 1) <= 0
    OBVIOUS
  <2> QED  BY <1>3, <1>4, <2>1
<1>6. d < p
  <2> SUFFICES ASSUME p <= d PROVE FALSE
    OBVIOUS
  <2>1. q * p <= q * d
    OBVIOUS
  <2> QED  BY <1>3, <1>4, <2>1
<1> QED  BY <1>1, <1>5, <1>6

\* A power of two is the product of two others.
CpuParted(T, p, q) == p \in Nat \ {0} /\ q \in Nat \ {0} /\ T = p * q

LeftDoubled(T, p, q, a, b) == ((a * T + b) * p) \div T = a * p + b \div q
RightDoubled(T, p, q, a, b) == (b * T + a) \div p = a \div p + b * q

\* The word is moved, and what the other register spills into it has no bit of it.
LEMMA DoubledLeft ==
  ASSUME NEW p, NEW q, NEW T, CpuParted(T, p, q), NEW a \in Int, NEW b \in 0..T - 1
  PROVE  LeftDoubled(T, p, q, a, b)
<1> USE DEF CpuParted, LeftDoubled
<1>1. T \in Nat \ {0} /\ b \in Int
  OBVIOUS
<1>2. PICK t \in Nat \ {0} : t = T
  BY <1>1
<1>3. PICK m \in Int : m = a * p
  OBVIOUS
<1>4. PICK n \in Int : n = b * p
  BY <1>1
<1>5. (a * t + b) * p = n + t * m
  <2>1. (a * t + b) * p = b * p + t * (a * p)
    BY <1>1
  <2> QED  BY <1>3, <1>4, <2>1
<1>6. (n + t * m) \div t = (n \div t) + m
  BY Modulo
<1>7. n \div p = b
  <2>1. (p * b + 0) \div p = b
    BY <1>1, DividedOnce
  <2>2. p * b + 0 = b * p
    BY <1>1
  <2> QED  BY <1>4, <2>1, <2>2
<1>8. n \div (p * q) = b \div q
  <2>1. (n \div p) \div q = n \div (p * q)
    BY NestedQuotient
  <2> QED  BY <1>7, <2>1
<1>9. n \div t = b \div q
  BY <1>2, <1>8
<1>10. PICK d \in Int : d = b \div q
  BY <1>1, Divided
<1>11. ((a * t + b) * p) \div t = d + m
  BY <1>5, <1>6, <1>9, <1>10
<1>12. d + m = m + d
  OBVIOUS
<1> QED  BY <1>2, <1>3, <1>10, <1>11, <1>12

LEMMA DoubledLeftBeyond ==
  ASSUME NEW T \in Nat \ {0}, NEW q \in Nat \ {0}, NEW p, p = T * q, NEW a \in Int, NEW b \in Int
  PROVE  ((a * T + b) * p) \div T = a * p + b * q
<1>1. (a * T + b) * p = T * (a * p + b * q) + 0
  <2>1. (a * T + b) * (T * q) = T * (a * (T * q) + b * q)
    OBVIOUS
  <2>2. T * (a * (T * q) + b * q) = T * (a * (T * q) + b * q) + 0
    OBVIOUS
  <2> QED  BY <2>1, <2>2
<1>2. a * p + b * q \in Int
  OBVIOUS
<1>3. (T * (a * p + b * q) + 0) \div T = a * p + b * q
  BY <1>2, DividedOnce
<1> QED  BY <1>1, <1>3

LEMMA DoubledRight ==
  ASSUME NEW p, NEW q, NEW T, CpuParted(T, p, q), NEW a \in 0..T - 1, NEW b \in Int
  PROVE  RightDoubled(T, p, q, a, b)
<1> USE DEF CpuParted, RightDoubled
<1>1. a \in Int
  OBVIOUS
<1>2. PICK k \in Int : k = b * q
  OBVIOUS
<1>3. b * T + a = a + p * k
  <2>1. b * (p * q) + a = a + p * (b * q)
    BY <1>1
  <2> QED  BY <1>2, <2>1
<1>4. (a + p * k) \div p = (a \div p) + k
  BY <1>1, Modulo
<1> QED  BY <1>2, <1>3, <1>4

LEMMA DoubledRightBeyond ==
  ASSUME NEW T \in Nat \ {0}, NEW q \in Nat \ {0}, NEW p, p = T * q, NEW a \in 0..T - 1, NEW b \in Int
  PROVE  (b * T + a) \div p = b \div q /\ a \div p = 0
<1>1. a \in Int /\ 0 <= a /\ a < T
  OBVIOUS
<1>2. PICK n \in Int : n = b * T + a
  BY <1>1
<1>3. n \div T = b
  <2>1. (T * b + a) \div T = b
    BY <1>1, DividedOnce
  <2>2. T * b + a = b * T + a
    BY <1>1
  <2> QED  BY <1>2, <2>1, <2>2
<1>4. (n \div T) \div q = n \div (T * q)
  BY NestedQuotient
<1>5. a \div p = 0
  <2>1. T <= T * q
    OBVIOUS
  <2>2. p \in Nat \ {0}
    OBVIOUS
  <2>3. a < p
    BY <1>1, <2>1
  <2>4. (p * 0 + a) \div p = 0
    BY <1>1, <2>2, <2>3, DividedOnce
  <2>5. p * 0 + a = a
    BY <1>1, <2>2
  <2> QED  BY <2>4, <2>5
<1> QED  BY <1>2, <1>3, <1>4, <1>5

-----------------------------------------------------------------------------
\* What the interpreter puts together is the word of the architecture.
LEMMA CpuDoubledExact ==
  ASSUME NEW size \in CpuAllSizes, NEW op \in CpuDoubleOps, NEW count \in Nat,
         NEW a \in 0..CpuTop(size) - 1, NEW b \in 0..CpuTop(size) - 1,
         NEW x, x = CpuMoved(op, a, count), NEW y, y = CpuSpilled(op, b, count, size),
         NEW r, r = ArchDoubled(op, a, b, count, size)
  PROVE  r \in Int /\ CpuUns(CpuBitwise("or", x, y), size) = CpuUns(r, size)
<1>1. PICK W \in Nat : W = CpuWidth(size)
  BY CpuPowersOf
<1>2. PICK T \in Nat \ {0} : T = CpuTop(size) /\ T = 2 ^ W
  BY <1>1, CpuPowersOf, CpuTops
<1>3. a \in Int /\ b \in Int /\ a \in 0..T - 1 /\ b \in 0..T - 1
  BY <1>2
<1>4. PICK p \in Nat \ {0} : p = 2 ^ count
  BY CpuPowers
<1>5. x \in Int /\ y \in Int /\ r = x + y /\ CpuApart(x, y, W)
  <2>1. CASE count <= W
    <3>1. PICK j \in Nat : j = W - count
      BY <2>1
    <3>2. PICK q \in Nat \ {0} : q = 2 ^ j
      BY CpuPowers
    <3>3. T = p * q
      <4>1. 2 ^ (count + j) = 2 ^ count * 2 ^ j
        BY PowerAdds
      <4>2. count + j = W
        BY <3>1
      <4> QED  BY <1>2, <1>4, <3>2, <4>1, <4>2
    <3>4. CpuParted(T, p, q)
      BY <3>3, Zenon DEF CpuParted
    <3>5. CASE op = "shld"
      <4>1. x = a * p
        BY <1>4, <3>5 DEF CpuMoved
      <4>2. y = b \div q
        BY <1>1, <2>1, <3>1, <3>2, <3>5 DEF CpuSpilled
      <4>3. r = ((a * T + b) * p) \div T
        BY <1>2, <1>4, <3>5 DEF ArchDoubled
      <4>4. ((a * T + b) * p) \div T = a * p + b \div q /\ b \div q \in 0..p - 1
        <5>1. ((a * T + b) * p) \div T = a * p + b \div q
          <6>1. LeftDoubled(T, p, q, a, b)
            BY <1>3, <3>4, DoubledLeft
          <6> QED  BY <6>1, Zenon DEF LeftDoubled
        <5>2. b \div q \in 0..p - 1
          BY <1>3, <3>3, SmallQuotient
        <5> QED  BY <5>1, <5>2
      <4>5. CpuApart(a * 2 ^ count, y, W)
        <5>1. y \in 0..2 ^ count - 1
          BY <1>4, <4>2, <4>4
        <5> QED  BY <1>3, <5>1, CpuApartIs
      <4>6. a * p \in Int /\ b \div q \in Int
        BY <1>3, <4>4
      <4> QED  BY <1>4, <4>1, <4>2, <4>3, <4>4, <4>5, <4>6
    <3>6. CASE op # "shld"
      <4>1. x = a \div p
        BY <1>4, <3>6 DEF CpuMoved
      <4>2. y = b * q
        BY <1>1, <2>1, <3>1, <3>2, <3>6 DEF CpuSpilled
      <4>3. r = (b * T + a) \div p
        BY <1>2, <1>4, <3>6 DEF ArchDoubled
      <4>4. (b * T + a) \div p = a \div p + b * q /\ a \div p \in 0..q - 1
        <5>1. (b * T + a) \div p = a \div p + b * q
          <6>1. RightDoubled(T, p, q, a, b)
            BY <1>3, <3>4, DoubledRight
          <6> QED  BY <6>1, Zenon DEF RightDoubled
        <5>2. a \div p \in 0..q - 1
          <6>1. T = q * p
            BY <3>3
          <6> QED  BY <1>3, <6>1, SmallQuotient
        <5> QED  BY <5>1, <5>2
      <4>5. CpuApart(x, b * 2 ^ j, W)
        <5>1. x \in 0..2 ^ j - 1
          BY <3>2, <4>1, <4>4
        <5> QED  BY <1>3, <5>1, CpuApartIs
      <4>6. b * q \in Int /\ a \div p \in Int
        BY <1>3, <4>4
      <4> QED  BY <3>2, <4>1, <4>2, <4>3, <4>4, <4>5, <4>6
    <3> QED  BY <3>5, <3>6
  <2>2. CASE ~(count <= W)
    <3>1. PICK j \in Nat : j = count - W
      BY <2>2
    <3>2. PICK q \in Nat \ {0} : q = 2 ^ j
      BY CpuPowers
    <3>3. p = T * q
      <4>1. 2 ^ (W + j) = 2 ^ W * 2 ^ j
        BY PowerAdds
      <4>2. W + j = count
        BY <3>1
      <4> QED  BY <1>2, <1>4, <3>2, <4>1, <4>2
    <3>4. CASE op = "shld"
      <4>1. x = a * p
        BY <1>4, <3>4 DEF CpuMoved
      <4>2. y = b * q
        BY <1>1, <2>2, <3>1, <3>2, <3>4 DEF CpuSpilled
      <4>3. r = ((a * T + b) * p) \div T
        BY <1>2, <1>4, <3>4 DEF ArchDoubled
      <4>4. ((a * T + b) * p) \div T = a * p + b * q
        BY <1>3, <3>3, DoubledLeftBeyond
      <4>5. CpuApart(a * 2 ^ count, y, W)
        <5>1. W <= count
          BY <2>2
        <5> QED  BY <1>3, <5>1, CpuApartBelow
      <4>6. a * p \in Int /\ b * q \in Int
        BY <1>3
      <4> QED  BY <1>4, <4>1, <4>2, <4>3, <4>4, <4>5, <4>6
    <3>5. CASE op # "shld"
      <4>1. x = a \div p
        BY <1>4, <3>5 DEF CpuMoved
      <4>2. y = b \div q
        BY <1>1, <2>2, <3>1, <3>2, <3>5 DEF CpuSpilled
      <4>3. r = (b * T + a) \div p
        BY <1>2, <1>4, <3>5 DEF ArchDoubled
      <4>4. (b * T + a) \div p = b \div q /\ a \div p = 0
        BY <1>3, <3>3, DoubledRightBeyond, SMTT(30)
      <4>5. PICK zero \in Int : zero = 0
        OBVIOUS
      <4>6. CpuApart(zero * 2 ^ W, y, W) /\ zero * 2 ^ W = 0
        <5>1. W <= W
          OBVIOUS
        <5>2. zero * T = 0
          BY <4>5
        <5> QED  BY <1>2, <5>1, <5>2, CpuApartBelow
      <4>7. b \div q \in Int
        BY <1>3, Divided
      <4> QED  BY <4>1, <4>2, <4>3, <4>4, <4>5, <4>6, <4>7
    <3> QED  BY <3>4, <3>5
  <2> QED  BY <2>1, <2>2
<1> QED  BY <1>1, <1>5, CpuOrSums

CpuDoubleLeft(s, i, cf, of, r) ==
  CpuWrite([s EXCEPT !.cf = cf, !.of = of, !.zf = r = 0, !.sf = CpuBit(r, CpuWidth(i.size) - 1)],
           i.d, i.size, i.rex, r)
CpuDoubleCarry(op, a, count, size) ==
  IF op = "shld" THEN CpuBit(a, CpuWidth(size) - count) ELSE CpuBit(a, count - 1)
CpuDoubleOverflow(s, op, a, count, r, cf, size) ==
  IF count # 1 THEN s.of
  ELSE IF op = "shld" THEN CpuBit(r, CpuWidth(size) - 1) # cf
       ELSE CpuBit(a, CpuWidth(size) - 1) # CpuBit(a, CpuWidth(size) - 2)

LEMMA CpuDoDoubleIs ==
  ASSUME NEW s, NEW i, NEW a, a = CpuRead(s, i.d, i.size, i.rex),
         NEW b, b = CpuRead(s, i.r, i.size, i.rex), NEW count, count = CpuCount(s, i),
         NEW r, r = CpuUns(CpuBitwise("or", CpuMoved(i.op, a, count),
                                      CpuSpilled(i.op, b, count, i.size)), i.size),
         NEW cf, cf = CpuDoubleCarry(i.op, a, count, i.size),
         NEW of, of = CpuDoubleOverflow(s, i.op, a, count, r, cf, i.size)
  PROVE  CpuDoDouble(s, i) = IF count = 0 THEN s ELSE CpuDoubleLeft(s, i, cf, of, r)
<1> DEFINE size == i.size
           bits == CpuWidth(size)
           n == CpuCount(s, i)
           to == CpuRead(s, i.d, size, i.rex)
           from == CpuRead(s, i.r, size, i.rex)
           left == i.op = "shld"
           spill == IF n <= bits
                    THEN IF left THEN from \div 2 ^ (bits - n) ELSE from * 2 ^ (bits - n)
                    ELSE IF left THEN from * 2 ^ (n - bits) ELSE from \div 2 ^ (n - bits)
           word == CpuUns(CpuBitwise("or", IF left THEN to * 2 ^ n ELSE to \div 2 ^ n, spill), size)
           carry == IF left THEN CpuBit(to, bits - n) ELSE CpuBit(to, n - 1)
           over == IF n # 1 THEN s.of
                   ELSE IF left THEN CpuBit(word, bits - 1) # carry
                        ELSE CpuBit(to, bits - 1) # CpuBit(to, bits - 2)
<1>1. CpuDoDouble(s, i) =
        IF n = 0 THEN s
        ELSE CpuWrite([s EXCEPT !.cf = carry, !.of = over, !.zf = word = 0,
                                !.sf = CpuBit(word, bits - 1)], i.d, size, i.rex, word)
  BY Zenon DEF CpuDoDouble
<1>2. to = a /\ from = b /\ n = count
  OBVIOUS
<1> HIDE DEF to, from, n
<1>3. word = r
  BY <1>2, Zenon DEF CpuMoved, CpuSpilled
<1> HIDE DEF word
<1>4. carry = cf
  BY <1>2, Zenon DEF CpuDoubleCarry
<1> HIDE DEF carry
<1>5. over = of
  BY <1>2, <1>3, <1>4, Zenon DEF CpuDoubleOverflow
<1> HIDE DEF over
<1> QED  BY <1>1, <1>2, <1>3, <1>4, <1>5, Zenon DEF CpuDoubleLeft

ArchDoubleLeft(s, i, cf, r, a) ==
  CpuWrite([CpuResultFlags(s, CpuUns(r, i.size), i.size) EXCEPT
              !.cf = cf, !.of = CpuBit(r, CpuWidth(i.size) - 1) # CpuBit(a, CpuWidth(i.size) - 1)],
           i.d, i.size, i.rex, r)

LEMMA ArchDoubleIs ==
  ASSUME NEW s, NEW i, NEW a, a = CpuRead(s, i.d, i.size, i.rex),
         NEW b, b = CpuRead(s, i.r, i.size, i.rex), NEW count, count = CpuCount(s, i),
         NEW r, r = ArchDoubled(i.op, a, b, count, i.size),
         NEW cf, cf = CpuDoubleCarry(i.op, a, count, i.size)
  PROVE  ArchDouble(s, i) = IF count = 0 THEN s ELSE ArchDoubleLeft(s, i, cf, r, a)
BY Zenon DEF ArchDouble, ArchDoubled, CpuDoubleCarry, ArchDoubleLeft

-----------------------------------------------------------------------------
LEMMA CpuDoubleKept ==
  ASSUME NEW s \in CpuState, NEW i \in CpuInsns, i.op \in CpuDoubleOps,
         NEW count \in Nat, count = CpuCount(s, i)
  PROVE  /\ "pf" \notin CpuKept(s, i)
         /\ "of" \in CpuKept(s, i) => i.op = "shld" /\ count \in {0, 1}
<1>1. CASE i.op = "shld"
  <2>1. CpuMisses(s, i) = {"pf"}
    BY <1>1 DEF CpuMisses
  <2>2. ArchDefines(s, i) = {"regs"} \cup ((CpuFlags \ {"of"})
                              \cup (IF CpuCount(s, i) \in {0, 1} THEN {"of"} ELSE {}))
    BY <1>1 DEF ArchDefines
  <2> QED  BY <1>1, <2>1, <2>2 DEF CpuKept
<1>2. CASE i.op = "shrd"
  <2>1. CpuMisses(s, i) = {"pf", "of"}
    BY <1>2 DEF CpuMisses
  <2> QED  BY <1>2, <2>1 DEF CpuKept
<1> QED  BY <1>1, <1>2 DEF CpuDoubleOps

LEMMA CpuDoubleAgreed ==
  ASSUME NEW s \in CpuState, NEW i \in CpuInsns, i.op \in CpuDoubleOps
  PROVE  CpuAgreed(s, i)
<1>1. /\ CpuNamed(i.d, i.size, i.rex) /\ i.size \in CpuAllSizes
      /\ i.form \in {"one", "imm8", "cl"} /\ CpuNamed(i.r, i.size, i.rex)
  BY CpuInsnParts, CpuInsnSource, CpuShiftForm
<1>2. PICK a \in 0..CpuTop(i.size) - 1 : a = CpuRead(s, i.d, i.size, i.rex)
  BY <1>1, CpuReadIs
<1>3. PICK b \in 0..CpuTop(i.size) - 1 : b = CpuRead(s, i.r, i.size, i.rex)
  BY <1>1, CpuReadIs
<1>4. PICK count \in Nat : count = CpuCount(s, i)
  BY <1>1, CpuCountIs
<1>5. CpuDo(s, i) = CpuDoDouble(s, i) /\ Arch(s, i) = ArchDouble(s, i)
  BY CpuDoBy, ArchBy
<1>6. PICK W \in Nat : W = CpuWidth(i.size) /\ W - 1 \in Nat
  BY <1>1, CpuTops
<1>7. PICK x : x = CpuMoved(i.op, a, count)
  OBVIOUS
<1>8. PICK y : y = CpuSpilled(i.op, b, count, i.size)
  OBVIOUS
<1>9. PICK g \in Int : /\ g = ArchDoubled(i.op, a, b, count, i.size)
                       /\ CpuUns(CpuBitwise("or", x, y), i.size) = CpuUns(g, i.size)
  BY <1>1, <1>2, <1>3, <1>4, <1>7, <1>8, CpuDoubledExact
<1>10. PICK r \in Int : /\ r = CpuUns(CpuBitwise("or", x, y), i.size) /\ r = CpuUns(g, i.size)
                        /\ CpuUns(r, i.size) = r
  BY <1>1, <1>9, CpuUnsIs
<1>11. PICK cf \in BOOLEAN : cf = CpuDoubleCarry(i.op, a, count, i.size)
  BY DEF CpuDoubleCarry, CpuBit
<1>12. PICK of \in BOOLEAN : of = CpuDoubleOverflow(s, i.op, a, count, r, cf, i.size)
  <2>1. s.of \in BOOLEAN
    BY CpuStateParts
  <2>2. CpuDoubleOverflow(s, i.op, a, count, r, cf, i.size) \in BOOLEAN
    BY <2>1, Zenon DEF CpuDoubleOverflow
  <2> QED  BY <2>2
<1>13. CpuDoDouble(s, i) = IF count = 0 THEN s ELSE CpuDoubleLeft(s, i, cf, of, r)
  BY <1>2, <1>3, <1>4, <1>7, <1>8, <1>10, <1>11, <1>12, CpuDoDoubleIs
<1>14. ArchDouble(s, i) = IF count = 0 THEN s ELSE ArchDoubleLeft(s, i, cf, g, a)
  BY <1>2, <1>3, <1>4, <1>9, <1>11, ArchDoubleIs
<1>15. PICK parts : parts = CpuKept(s, i)
  OBVIOUS
<1>16. "pf" \notin parts /\ ("of" \in parts => i.op = "shld" /\ count \in {0, 1})
  BY <1>4, <1>15, CpuDoubleKept
<1>17. CASE count = 0
  <2>1. CpuDo(s, i) = s /\ Arch(s, i) = s
    BY <1>5, <1>13, <1>14, <1>17
  <2> QED  BY <1>15, <2>1, CpuAgreedBy
<1>18. CASE count # 0
  <2>1. PICK bit \in BOOLEAN : bit = CpuBit(g, W - 1)
    BY DEF CpuBit
  <2>2. CpuBit(r, W - 1) = bit
    <3>1. W - 1 < W
      OBVIOUS
    <3> QED  BY <1>1, <1>6, <1>10, <2>1, <3>1, CpuBitsOf
  <2>3. PICK sign \in BOOLEAN : sign = CpuBit(a, W - 1)
    BY DEF CpuBit
  <2>4. PICK p \in CpuState : /\ p = [s EXCEPT !.cf = cf, !.of = of, !.zf = r = 0, !.sf = bit]
                              /\ p.reg = s.reg /\ p.cf = cf /\ p.of = of /\ p.sf = bit
                              /\ p.zf = (r = 0)
    <3>1. (r = 0) \in BOOLEAN
      OBVIOUS
    <3>2. PICK p \in CpuState : p = [s EXCEPT !.cf = cf, !.of = of, !.zf = r = 0, !.sf = bit]
      BY <3>1, CpuFlagsSet
    <3>3. /\ p.reg = s.reg /\ p.cf = cf /\ p.of = of /\ p.sf = bit /\ p.zf = (r = 0)
      BY <3>2 DEF CpuState
    <3> QED  BY <3>2, <3>3
  <2>5. PICK q \in CpuState : /\ q = CpuResultFlags(s, r, i.size)
                              /\ q.reg = s.reg /\ q.zf = (r = 0) /\ q.sf = bit
    BY <1>6, <2>2, CpuResultFlagsIs
  <2>6. PICK over \in BOOLEAN : over = (bit # sign)
    OBVIOUS
  <2>7. PICK u \in CpuState : /\ u = [q EXCEPT !.cf = cf, !.of = over]
                              /\ u.reg = s.reg /\ u.cf = cf /\ u.of = over /\ u.sf = bit
                              /\ u.zf = (r = 0)
    <3>1. PICK u \in CpuState : u = [q EXCEPT !.cf = cf, !.of = over]
      BY CpuFlagsSet
    <3>2. /\ u.reg = q.reg /\ u.cf = cf /\ u.of = over /\ u.sf = q.sf /\ u.zf = q.zf
      BY <3>1 DEF CpuState
    <3> QED  BY <2>5, <3>1, <3>2
  <2>8. CpuDo(s, i) = CpuWrite(p, i.d, i.size, i.rex, r)
    BY <1>5, <1>6, <1>13, <1>18, <2>2, <2>4, Zenon DEF CpuDoubleLeft
  <2>9. Arch(s, i) = CpuWrite(u, i.d, i.size, i.rex, g)
    BY <1>5, <1>6, <1>10, <1>14, <1>18, <2>1, <2>3, <2>5, <2>6, <2>7, Zenon DEF ArchDoubleLeft
  <2>10. PICK v \in CpuState : /\ v = CpuWrite(p, i.d, i.size, i.rex, r)
                               /\ v.cf = p.cf /\ v.zf = p.zf /\ v.sf = p.sf /\ v.of = p.of
    <3>1. PICK n : n = i.d
      OBVIOUS
    <3>2. PICK size : size = i.size
      OBVIOUS
    <3>3. PICK rex : rex = i.rex
      OBVIOUS
    <3>4. CpuNamed(n, size, rex)
      BY <1>1, <3>1, <3>2, <3>3
    <3>5. LET t == CpuWrite(p, n, size, rex, r)
          IN  /\ t \in CpuState /\ t.cf = p.cf /\ t.zf = p.zf /\ t.sf = p.sf /\ t.of = p.of
              /\ t.pf = p.pf
      BY <3>4, CpuWriteFlags
    <3> QED  BY <3>1, <3>2, <3>3, <3>5
  <2>11. PICK w \in CpuState : /\ w = CpuWrite(u, i.d, i.size, i.rex, g)
                               /\ w.cf = u.cf /\ w.zf = u.zf /\ w.sf = u.sf /\ w.of = u.of
    <3>1. PICK n : n = i.d
      OBVIOUS
    <3>2. PICK size : size = i.size
      OBVIOUS
    <3>3. PICK rex : rex = i.rex
      OBVIOUS
    <3>4. CpuNamed(n, size, rex)
      BY <1>1, <3>1, <3>2, <3>3
    <3>5. LET t == CpuWrite(u, n, size, rex, g)
          IN  /\ t \in CpuState /\ t.cf = u.cf /\ t.zf = u.zf /\ t.sf = u.sf /\ t.of = u.of
              /\ t.pf = u.pf
      BY <3>4, CpuWriteFlags
    <3> QED  BY <3>1, <3>2, <3>3, <3>5
  <2>12. v.reg = w.reg
    <3>1. CpuUns(r, i.size) = CpuUns(g, i.size) /\ p.reg = u.reg
      BY <1>10, <2>4, <2>7
    <3>2. CpuWrite(p, i.d, i.size, i.rex, r).reg = CpuWrite(u, i.d, i.size, i.rex, g).reg
      BY <1>1, <3>1, CpuWriteSame
    <3> QED  BY <2>10, <2>11, <3>2
  <2>13. "of" \in parts => of = over
    <3> SUFFICES ASSUME "of" \in parts PROVE of = over
      OBVIOUS
    <3>1. i.op = "shld" /\ count = 1
      BY <1>16, <1>18
    <3>2. cf = sign
      BY <1>6, <1>11, <2>3, <3>1 DEF CpuDoubleCarry
    <3>3. of = (bit # cf)
      BY <1>6, <1>12, <2>2, <3>1 DEF CpuDoubleOverflow
    <3> QED  BY <2>6, <3>2, <3>3
  <2>14. /\ v.cf = w.cf /\ v.zf = w.zf /\ v.sf = w.sf /\ ("of" \in parts => v.of = w.of)
    BY <2>4, <2>7, <2>10, <2>11, <2>13
  <2> QED  BY <1>15, <1>16, <2>8, <2>9, <2>10, <2>11, <2>12, <2>14, CpuAgreedBy
<1> QED  BY <1>17, <1>18

-----------------------------------------------------------------------------
\* Every instruction the architecture is compared for.
LEMMA CpuDoAgreed ==
  ASSUME NEW s \in CpuState, NEW i \in CpuInsns, i.op \in ArchOps
  PROVE  CpuAgreed(s, i)
<1>1. CASE i.op \in CpuAluOps
  BY <1>1, CpuAluAgreed
<1>2. CASE i.op \in {"inc", "dec", "neg"}
  BY <1>2, CpuUnaryAgreed
<1>3. CASE i.op = "xadd"
  BY <1>3, CpuXaddAgreed
<1>4. CASE i.op = "rol"
  BY <1>4, CpuRolAgreed
<1>5. CASE i.op = "ror"
  BY <1>5, CpuRorAgreed
<1>6. CASE i.op \in {"rcl", "rcr"}
  BY <1>6, CpuCarryTurnsAgreed
<1>7. CASE i.op \in {"shl", "shr", "sar"}
  BY <1>7, CpuShiftsAgreed DEF CpuShiftOps
<1>8. CASE i.op \in {"shld", "shrd"}
  BY <1>8, CpuDoubleAgreed DEF CpuDoubleOps
<1>9. CASE i.op \in {"mul", "imul"}
  BY <1>9, CpuMulAgreed DEF CpuMulOps
<1>10. CASE i.op \in {"div", "idiv"}
  BY <1>10, CpuDivAgreed DEF CpuDivOps
<1>11. CASE i.op = "imul2"
  BY <1>11, CpuImulAgreed
<1>12. CASE i.op = "cmpxchg"
  BY <1>12, CpuCmpxchgAgreed
<1>13. CASE i.op \in {"cdqe", "cdq"}
  BY <1>13, CpuWidenAgreed DEF CpuWidenOps
<1>14. CASE i.op = "cmov"
  BY <1>14, CpuCmovAgreed
<1>15. \/ i.op \in CpuAluOps \/ i.op \in {"inc", "dec", "neg"} \/ i.op = "xadd" \/ i.op = "rol"
       \/ i.op = "ror" \/ i.op \in {"rcl", "rcr"} \/ i.op \in {"shl", "shr", "sar"}
       \/ i.op \in {"shld", "shrd"} \/ i.op \in {"mul", "imul"} \/ i.op \in {"div", "idiv"}
       \/ i.op = "imul2" \/ i.op = "cmpxchg" \/ i.op \in {"cdqe", "cdq"} \/ i.op = "cmov"
  BY Zenon DEF ArchOps
<1> QED  BY <1>1, <1>2, <1>3, <1>4, <1>5, <1>6, <1>7, <1>8, <1>9, <1>10, <1>11, <1>12, <1>13,
         <1>14, <1>15

LEMMA CpuInvExact == CpuInv => CpuExact
<1> SUFFICES ASSUME CpuInv PROVE CpuExact
  OBVIOUS
<1>1. cpuBefore \in CpuState
  BY DEF CpuInv
<1>2. CASE cpuInstr = CpuNone
  BY <1>2 DEF CpuExact, CpuRan, CpuRelationsOf
<1>3. CASE cpuInstr \in CpuInsns /\ cpu = CpuDo(cpuBefore, cpuInstr)
  <2>1. CpuRan => CpuAgreesOn(ArchDefines(cpuBefore, cpuInstr) \ CpuMisses(cpuBefore, cpuInstr),
                              cpu, Arch(cpuBefore, cpuInstr))
    <3>1. CpuRan => CpuAgreed(cpuBefore, cpuInstr)
      BY <1>1, <1>3, CpuDoAgreed DEF CpuRan
    <3> QED  BY <1>3, <3>1, Zenon DEF CpuAgreed, CpuKept
  <2>2. CpuRelationsOf({2, 3, 4, 5, 6, 7, 14, 15})
    <3>1. ASSUME CpuCompared, NEW cc \in {2, 3, 4, 5, 6, 7, 14, 15}
          PROVE  CpuCond(cpu, cc) =
                   ArchRelation(CpuRead(cpuBefore, cpuInstr.d, cpuInstr.size, cpuInstr.rex),
                                CpuRead(cpuBefore, cpuInstr.r, cpuInstr.size, cpuInstr.rex), cc,
                                cpuInstr.size)
      BY <1>1, <1>3, <3>1, CpuComparedExact DEF CpuCompared
    <3> QED  BY <3>1, Zenon DEF CpuRelationsOf
  <2> QED  BY <2>1, <2>2 DEF CpuExact
<1> QED  BY <1>2, <1>3 DEF CpuInv

\* Whatever the width of a byte, the program and the state it starts from: the registers, flags and
\* divide errors an instruction of the interpreter (cpu.mjs) leaves are the architecture's, but for
\* those CpuMisses names, and after a comparison the conditions are the relations of the numbers.
THEOREM CpuComputesExactly == CpuSpec => []CpuExact
<1>1. CpuSpec => []CpuInv
  BY CpuInvInit, CpuInvNext, PTL DEF CpuSpec
<1> QED  BY <1>1, CpuInvExact, PTL

-----------------------------------------------------------------------------
(***************************************************************************)
(* Decoding (CpuDecode).                                                   *)
(***************************************************************************)
LEMMA DecRexIs ==
  ASSUME NEW x \in DecForms, NEW bit, NEW n \in 0..7
  PROVE  /\ DecRex(x, bit, n) = (IF bit \in x.rex THEN n + 8 ELSE n)
         /\ DecRex(x, bit, n) \in 0..15 /\ DecRegisters[DecRex(x, bit, n)] \in Int
<1>1. DecRex(x, bit, n) = (IF bit \in x.rex THEN n + 8 ELSE n) /\ DecRex(x, bit, n) \in 0..15
  BY DEF DecRex
<1>2. DecRegisters \in [0..15 -> 0..CpuTop(8) - 1] /\ CpuTop(8) \in Nat
  BY DecAssumption, CpuTops DEF CpuAllSizes
<1>3. \A k \in 0..15 : DecRegisters[k] \in Int
  BY <1>2
<1> QED  BY <1>1, <1>3

LEMMA DecDispIs ==
  ASSUME NEW x \in DecForms
  PROVE  /\ DecDisp(x, 1) = CpuSgn(x.disp, 1) /\ DecDisp(x, 4) = CpuSgn(x.disp, 4)
         /\ CpuSgn(x.disp, 1) \in Int /\ CpuSgn(x.disp, 4) \in Int
         /\ CpuSgn(x.disp, 4) >= 0 => CpuUns(x.disp, 4) = CpuSgn(x.disp, 4)
<1>1. x.disp \in Int
  BY DEF DecForms
<1>2. CpuSgn(x.disp, 1) \in Int
  BY <1>1, CpuSgnIs DEF CpuAllSizes
<1>3. PICK S \in Nat \ {0} : S = CpuSign(4) /\ CpuTop(4) = 2 * S
  BY CpuTops DEF CpuAllSizes
<1>4. PICK u \in Int : u = CpuUns(x.disp, 4) /\ 0 <= u /\ u < 2 * S
  <2>1. CpuUns(x.disp, 4) \in 0..CpuTop(4) - 1
    BY <1>1, CpuUnsIs DEF CpuAllSizes
  <2> QED  BY <1>3, <2>1
<1>5. CpuSgn(x.disp, 4) = IF u >= S THEN u - 2 * S ELSE u
  BY <1>3, <1>4 DEF CpuSgn
<1>6. CpuSgn(x.disp, 4) \in Int /\ (CpuSgn(x.disp, 4) >= 0 => u = CpuSgn(x.disp, 4))
  BY <1>3, <1>4, <1>5
<1> QED  BY <1>2, <1>4, <1>6 DEF DecDisp

\* The operand is found where the encoding puts it, but for the forms of DecSibMisses, if the
\* address it may be relative to is the right one.
LEMMA DecModrmExact ==
  ASSUME NEW x \in DecForms, NEW next \in Int, ~DecSibMisses(x)
  PROVE  DecModrm(x, next) = DecMeant(x, next)
<1> DEFINE b(n) == DecRegisters[DecRex(x, "b", n)]
<1>1. x.mod \in 0..3 /\ x.rm \in 0..7 /\ x.base \in 0..7 /\ x.index \in 0..7 /\ x.scale \in 0..3
  BY DEF DecForms
<1>2. PICK d1 \in Int : d1 = CpuSgn(x.disp, 1) /\ DecDisp(x, 1) = d1
  BY DecDispIs
<1>3. PICK d4 \in Int : /\ d4 = CpuSgn(x.disp, 4) /\ DecDisp(x, 4) = d4
                        /\ d4 >= 0 => CpuUns(x.disp, 4) = d4
  BY DecDispIs
<1>4. CASE x.mod = 3
  BY <1>4 DEF DecModrm, DecMeant
<1>5. CASE x.mod # 3 /\ x.rm # 4
  <2>1. PICK r \in Int : r = DecRegisters[DecRex(x, "b", x.rm)]
    BY <1>1, DecRexIs
  <2>2. CASE x.rm = 5 /\ x.mod = 0
    <3>1. DecModrm(x, next) = [kind |-> "mem", at |-> CpuUns((next + d4) + 0, 8), len |-> 1 + 4 + 0]
      BY <1>3, <1>5, <2>2 DEF DecModrm
    <3>2. DecMeant(x, next) = [kind |-> "mem", at |-> CpuUns(next + 0 + d4, 8), len |-> 1 + 0 + 4]
      BY <1>3, <1>5, <2>2 DEF DecMeant
    <3>3. (next + d4) + 0 = next + 0 + d4
      OBVIOUS
    <3> QED  BY <3>1, <3>2, <3>3
  <2>3. CASE ~(x.rm = 5 /\ x.mod = 0)
    <3> DEFINE disp == CASE x.mod = 1 -> d1 [] x.mod = 2 -> d4 [] x.mod = 0 -> 0
               size == CASE x.mod = 1 -> 1 [] x.mod = 2 -> 4 [] x.mod = 0 -> 0
    <3>1. x.mod \in {0, 1, 2}
      BY <1>1, <1>5
    <3>2. disp \in Int /\ size \in Nat
      BY <3>1
    <3>3. DecModrm(x, next) = [kind |-> "mem", at |-> CpuUns(r + disp, 8), len |-> 1 + 0 + size]
      BY <1>2, <1>3, <1>5, <2>1, <2>3, <3>1 DEF DecModrm
    <3>4. DecMeant(x, next) = [kind |-> "mem", at |-> CpuUns(r + 0 + disp, 8), len |-> 1 + 0 + size]
      BY <1>2, <1>3, <1>5, <2>1, <2>3, <3>1 DEF DecMeant
    <3> HIDE DEF disp, size
    <3>5. r + 0 + disp = r + disp
      BY <3>2
    <3> QED  BY <3>3, <3>4, <3>5
  <2> QED  BY <2>2, <2>3
<1>6. CASE x.mod # 3 /\ x.rm = 4
  <2>1. x.mod \in {0, 1, 2} /\ ~(x.index = 4 /\ "x" \in x.rex)
        /\ ~(x.mod = 0 /\ x.base = 5 /\ ("b" \in x.rex \/ d4 < 0))
    BY <1>1, <1>3, <1>6 DEF DecSibMisses
  <2>2. PICK index \in Int :
          index = IF x.index = 4 THEN 0 ELSE DecRegisters[DecRex(x, "x", x.index)] * 2 ^ x.scale
    <3>1. PICK r \in Int : r = DecRegisters[DecRex(x, "x", x.index)]
      BY <1>1, DecRexIs
    <3>2. PICK p \in Nat : p = 2 ^ x.scale
      <4>1. x.scale \in Nat
        BY <1>1
      <4> QED  BY <4>1, PowerCounts
    <3>3. r * p \in Int
      OBVIOUS
    <3> QED  BY <3>1, <3>2, <3>3
  <2>3. PICK r \in Int : r = DecRegisters[DecRex(x, "b", x.base)]
    BY <1>1, DecRexIs
  <2>4. (DecRex(x, "b", x.base) = 5) <=> (x.base = 5 /\ "b" \notin x.rex)
    BY <1>1, DecRexIs
  <2>5. CASE x.base = 5 /\ x.mod = 0
    <3>1. "b" \notin x.rex /\ d4 >= 0 /\ DecRex(x, "b", x.base) = 5
      BY <2>1, <2>4, <2>5
    <3>2. DecSib(x) = [addr |-> index + d4, len |-> 1 + 4]
      BY <1>3, <2>2, <2>5, <3>1 DEF DecSib
    <3>3. DecModrm(x, next) = [kind |-> "mem", at |-> CpuUns((index + d4) + 0, 8),
                               len |-> 1 + (1 + 4) + 0]
      BY <1>6, <2>5, <3>2 DEF DecModrm
    <3>4. DecMeant(x, next) = [kind |-> "mem", at |-> CpuUns(0 + index + d4, 8), len |-> 1 + 1 + 4]
      BY <1>3, <1>6, <2>1, <2>2, <2>5 DEF DecMeant
    <3>5. (index + d4) + 0 = 0 + index + d4
      OBVIOUS
    <3> QED  BY <3>3, <3>4, <3>5
  <2>6. CASE ~(x.base = 5 /\ x.mod = 0)
    <3> DEFINE disp == CASE x.mod = 1 -> d1 [] x.mod = 2 -> d4 [] x.mod = 0 -> 0
               size == CASE x.mod = 1 -> 1 [] x.mod = 2 -> 4 [] x.mod = 0 -> 0
    <3>1. disp \in Int /\ size \in Nat
      BY <2>1
    <3>2. DecSib(x) = [addr |-> index + r, len |-> 1 + 0]
      BY <2>2, <2>3, <2>4, <2>6 DEF DecSib
    <3>3. DecModrm(x, next) = [kind |-> "mem", at |-> CpuUns((index + r) + disp, 8),
                               len |-> 1 + (1 + 0) + size]
      BY <1>2, <1>3, <1>6, <2>1, <3>2 DEF DecModrm
    <3>4. DecMeant(x, next) = [kind |-> "mem", at |-> CpuUns(r + index + disp, 8),
                               len |-> 1 + 1 + size]
      BY <1>2, <1>3, <1>6, <2>1, <2>2, <2>3, <2>6 DEF DecMeant
    <3> HIDE DEF disp, size
    <3>5. (index + r) + disp = r + index + disp /\ 1 + (1 + 0) + size = 1 + 1 + size
      BY <3>1
    <3> QED  BY <3>3, <3>4, <3>5
  <2> QED  BY <2>5, <2>6
<1> QED  BY <1>4, <1>5, <1>6

-----------------------------------------------------------------------------
\* What the prefixes read so far have made.
DecStates == [opsize : {2, 4, 8}, addr16 : BOOLEAN, rep : {"none", "f2", "f3"},
              rex : {"none", "rex", "rex.w"}]

LEMMA DecPrefixIs ==
  ASSUME NEW state \in DecStates, NEW p \in DecBytes
  PROVE  /\ DecPrefix(state, p) \in DecStates
         /\ DecPrefix(state, p).opsize = (IF p = "66" THEN 2 ELSE IF p = "rex.w" THEN 8
                                          ELSE state.opsize)
<1>1. /\ state \in [opsize : {2, 4, 8}, addr16 : BOOLEAN, rep : {"none", "f2", "f3"},
                   rex : {"none", "rex", "rex.w"}]
      /\ state.opsize \in {2, 4, 8}
  BY DEF DecStates
<1>2. CASE p = "66"
  BY <1>1, <1>2 DEF DecPrefix, DecStates
<1>3. CASE p = "67"
  BY <1>1, <1>3 DEF DecPrefix, DecStates
<1>4. CASE p \in {"f2", "f3"}
  BY <1>1, <1>4 DEF DecPrefix, DecStates
<1>5. CASE p \in {"rex.w", "rex"}
  BY <1>1, <1>5 DEF DecPrefix, DecStates
<1>6. CASE p \in {"lock", "seg", "base"}
  BY <1>1, <1>6 DEF DecPrefix, DecStates
<1> QED  BY <1>2, <1>3, <1>4, <1>5, <1>6 DEF DecBytes

\* The prefixes, one by one.
LEMMA DecPrefixedIs ==
  ASSUME NEW seq \in Seq(DecBytes)
  PROVE  \E after \in [0..Len(seq) -> DecStates] :
            /\ after[0].opsize = 4 /\ DecPrefixed(seq) = after[Len(seq)]
            /\ \A n \in 1..Len(seq) : after[n] = DecPrefix(after[n - 1], seq[n])
<1> DEFINE start == [opsize |-> 4, addr16 |-> FALSE, rep |-> "none", rex |-> "none"]
           m == Len(seq)
           Is(g) == g = [n \in 0..m |-> IF n = 0 THEN start ELSE DecPrefix(g[n - 1], seq[n])]
           step == [v \in DecStates \X (1..m) |-> DecPrefix(v[1], seq[v[2]])]
<1>1. m \in Nat /\ \A n \in 1..m : seq[n] \in DecBytes
  OBVIOUS
<1>2. start \in DecStates /\ start.opsize = 4
  BY DEF DecStates
<1>3. DecPrefixed(seq) = (CHOOSE g : Is(g))[m]
  BY DEF DecPrefixed
<1> HIDE DEF m, start
<1>4. ASSUME NEW v \in DecStates, NEW n \in 1..m
      PROVE  step[<<v, n>>] = DecPrefix(v, seq[n]) /\ step[<<v, n>>] \in DecStates
  <2>1. <<v, n>> \in DecStates \X (1..m)
    OBVIOUS
  <2>2. step[<<v, n>>] = DecPrefix(<<v, n>>[1], seq[<<v, n>>[2]])
    BY <2>1, Zenon
  <2>3. <<v, n>>[1] = v /\ <<v, n>>[2] = n
    OBVIOUS
  <2>4. step[<<v, n>>] = DecPrefix(v, seq[n])
    BY <2>2, <2>3
  <2>5. seq[n] \in DecBytes
    BY <1>1
  <2>6. DecPrefix(v, seq[n]) \in DecStates
    BY <2>5, DecPrefixIs, Zenon
  <2> QED  BY <2>4, <2>6
<1>5. IsStep(step, DecStates, m)
  <2> HIDE DEF step
  <2> QED  BY <1>4 DEF IsStep
<1>6. PICK f : Iterates(f, DecStates, start, m, step)
  <2> HIDE DEF step
  <2> QED  BY <1>1, <1>2, <1>5, Recursion
<1>7. f \in [0..m -> DecStates] /\ f[0] = start
  BY <1>6 DEF Iterates
<1> HIDE DEF step
<1>8. Is(f)
  <2>1. ASSUME NEW n \in 0..m, n # 0
        PROVE  f[n] = DecPrefix(f[n - 1], seq[n])
    <3>1. n \in 1..m /\ n - 1 \in 0..m
      BY <1>1, <2>1
    <3>2. f[n - 1] \in DecStates
      BY <1>7, <3>1
    <3>3. f[n] = step[<<f[n - 1], n>>]
      BY <1>6, <3>1 DEF Iterates
    <3> QED  BY <1>4, <3>1, <3>2, <3>3
  <2>2. \A n \in 0..m : f[n] = IF n = 0 THEN start ELSE DecPrefix(f[n - 1], seq[n])
    BY <1>7, <2>1
  <2>3. f = [n \in 0..m |-> f[n]]
    BY <1>7
  <2> QED  BY <2>2, <2>3
<1>9. PICK g : g = CHOOSE h : Is(h)
  OBVIOUS
<1>10. Is(g)
  <2> HIDE DEF Is
  <2> QED  BY <1>8, <1>9
<1>11. g[0] = start /\ \A n \in 1..m : g[n] = DecPrefix(g[n - 1], seq[n])
  BY <1>1, <1>10
<1>12. g \in [0..m -> DecStates]
  <2> DEFINE N == {n \in Nat : n <= m => g[n] \in DecStates}
  <2>1. 0 \in N
    BY <1>2, <1>11
  <2>2. \A n \in Nat : n \in N => n + 1 \in N
    <3> SUFFICES ASSUME NEW n \in Nat, n \in N, n + 1 <= m
                 PROVE  g[n + 1] \in DecStates
      OBVIOUS
    <3>1. n + 1 \in 1..m /\ (n + 1) - 1 = n /\ g[n] \in DecStates
      BY <1>1
    <3>2. g[n + 1] = DecPrefix(g[n], seq[n + 1]) /\ seq[n + 1] \in DecBytes
      BY <1>1, <1>11, <3>1
    <3> QED  BY <3>1, <3>2, DecPrefixIs
  <2>3. Nat \subseteq N
    <3> HIDE DEF N
    <3> QED  BY <2>1, <2>2, SetInduction
  <2>4. \A n \in 0..m : g[n] \in DecStates
    BY <1>1, <2>3
  <2>5. g = [n \in 0..m |-> g[n]]
    BY <1>10
  <2> QED  BY <2>4, <2>5
<1> HIDE DEF Is
<1>13. DecPrefixed(seq) = g[m]
  BY <1>3, <1>9
<1> QED  BY <1>2, <1>11, <1>12, <1>13 DEF m

\* The operand size the prefixes select.
LEMMA DecSizeExact ==
  ASSUME NEW seq \in Seq(DecBytes), \A k \in 1..Len(seq) - 1 : seq[k] \notin {"rex", "rex.w"}
  PROVE  DecPrefixed(seq).opsize =
           (IF Len(seq) > 0 /\ seq[Len(seq)] = "rex.w" THEN 8
            ELSE IF \E k \in DOMAIN seq : seq[k] = "66" THEN 2 ELSE 4)
<1>1. PICK after \in [0..Len(seq) -> DecStates] :
            /\ after[0].opsize = 4 /\ DecPrefixed(seq) = after[Len(seq)]
            /\ \A n \in 1..Len(seq) : after[n] = DecPrefix(after[n - 1], seq[n])
  BY DecPrefixedIs
<1>2. PICK m \in Nat : m = Len(seq)
  OBVIOUS
<1>3. DOMAIN seq = 1..m /\ \A n \in 1..m : seq[n] \in DecBytes
  BY <1>2
<1> DEFINE Size(n) == IF \E k \in 1..n : seq[k] = "66" THEN 2 ELSE 4
<1>4. ASSUME NEW n \in 1..m
      PROVE  after[n].opsize = (IF seq[n] = "66" THEN 2 ELSE IF seq[n] = "rex.w" THEN 8
                                ELSE after[n - 1].opsize)
  <2>1. n - 1 \in 0..m
    BY <1>2
  <2>2. after[n - 1] \in DecStates /\ seq[n] \in DecBytes /\ after[n] = DecPrefix(after[n - 1], seq[n])
    BY <1>1, <1>2, <1>3, <2>1
  <2>3. DecPrefix(after[n - 1], seq[n]).opsize =
          (IF seq[n] = "66" THEN 2 ELSE IF seq[n] = "rex.w" THEN 8 ELSE after[n - 1].opsize)
    BY <2>2, DecPrefixIs, Zenon
  <2> QED  BY <2>2, <2>3, Zenon
<1>5. ASSUME NEW n \in 1..m, after[n - 1].opsize = Size(n - 1), seq[n] # "rex.w"
      PROVE  after[n].opsize = Size(n)
  <2>1. CASE seq[n] = "66"
    <3>1. Size(n) = 2
      BY <1>2, <2>1
    <3> QED  BY <1>4, <2>1, <3>1
  <2>2. CASE seq[n] # "66"
    <3>1. Size(n) = Size(n - 1)
      <4>1. \A k \in 1..n : seq[k] = "66" => k \in 1..n - 1
        BY <1>2, <2>2
      <4>2. \A k \in 1..n - 1 : k \in 1..n
        BY <1>2
      <4> QED  BY <4>1, <4>2
    <3> HIDE DEF Size
    <3> QED  BY <1>4, <1>5, <2>2, <3>1
  <2> QED  BY <2>1, <2>2
<1> DEFINE N == {n \in Nat : n <= m - 1 => after[n].opsize = Size(n)}
<1>6. 0 \in N
  BY <1>1
<1>7. \A n \in Nat : n \in N => n + 1 \in N
  <2> SUFFICES ASSUME NEW n \in Nat, n \in N, n + 1 <= m - 1
               PROVE  after[n + 1].opsize = Size(n + 1)
    OBVIOUS
  <2>1. n + 1 \in 1..m /\ (n + 1) - 1 = n /\ n + 1 \in 1..m - 1 /\ after[n].opsize = Size(n)
    BY <1>2
  <2>2. seq[n + 1] # "rex.w"
    BY <1>2, <2>1
  <2> HIDE DEF Size
  <2> QED  BY <1>5, <2>1, <2>2
<1>8. Nat \subseteq N
  <2> HIDE DEF N
  <2> QED  BY <1>6, <1>7, SetInduction
<1>9. CASE m = 0
  <2>1. Size(m) = 4
    BY <1>9
  <2> QED  BY <1>1, <1>2, <1>3, <1>9, <2>1
<1>10. CASE m # 0
  <2>1. m - 1 \in Nat /\ m - 1 <= m - 1 /\ m \in 1..m /\ m > 0
    BY <1>2, <1>10
  <2>2. after[m - 1].opsize = Size(m - 1)
    <3> HIDE DEF Size
    <3> QED  BY <1>8, <2>1
  <2>3. CASE seq[m] = "rex.w"
    <3>1. after[m].opsize = 8
      BY <1>4, <2>1, <2>3
    <3> QED  BY <1>1, <1>2, <2>1, <2>3, <3>1
  <2>4. CASE seq[m] # "rex.w"
    <3>1. after[m].opsize = Size(m)
      <4> HIDE DEF Size
      <4> QED  BY <1>5, <2>1, <2>2, <2>4
    <3> QED  BY <1>1, <1>2, <1>3, <2>4, <3>1
  <2> QED  BY <2>3, <2>4
<1> QED  BY <1>9, <1>10

\* Only an operand without base depends on that address.
LEMMA DecMeantNext ==
  ASSUME NEW x \in DecForms, NEW next, NEW other, ~(x.mod = 0 /\ x.rm = 5)
  PROVE  DecMeant(x, next) = DecMeant(x, other)
BY DEF DecMeant

\* How long immediates are.
LEMMA DecImmIs ==
  ASSUME NEW insn \in DecInsns, NEW opsize \in {2, 4, 8}
  PROVE  /\ DecImmRead(insn, opsize) \in Int /\ DecImmMeant(insn, opsize) \in Int
         /\ ~(insn = "test32" /\ opsize = 2) => DecImmRead(insn, opsize) = DecImmMeant(insn, opsize)
BY DEF DecInsns, DecImmRead, DecImmMeant

\* What has been found is what the instruction decodes to.
DecInv ==
  /\ decInput \in [operand : DecForms, prefixes : Seq(DecBytes), insn : DecInsns,
                   after : {0, 1000}]
  /\ decFound = CpuNone \/ decFound = DecResult(decInput)

LEMMA DecInvInit == DecInit => DecInv
BY DecAssumption DEF DecInit, DecInv

LEMMA DecInvNext == DecInv /\ [DecStep]_decVars => DecInv'
BY DEF DecInv, DecStep, decVars

LEMMA DecInvExact == DecInv => DecExact
<1> SUFFICES ASSUME DecInv, decFound # CpuNone PROVE DecExact
  BY DEF DecExact
<1>1. PICK x \in DecForms : x = decInput.operand
  BY DEF DecInv
<1>2. PICK seq \in Seq(DecBytes) : seq = decInput.prefixes
  BY DEF DecInv
<1>3. PICK insn \in DecInsns, after \in Int : insn = decInput.insn /\ after = decInput.after
  BY DEF DecInv
<1>4. PICK opsize \in {2, 4, 8} : opsize = DecPrefixed(seq).opsize
  <2>1. PICK g \in [0..Len(seq) -> DecStates] : DecPrefixed(seq) = g[Len(seq)]
    BY DecPrefixedIs
  <2>2. Len(seq) \in 0..Len(seq)
    OBVIOUS
  <2> QED  BY <2>1, <2>2 DEF DecStates
<1>5. PICK next \in Int : next = DecEnd(decInput, opsize)
  <2>1. DecImmRead(insn, opsize) \in Int
    BY DecImmIs
  <2>2. DecEnd(decInput, opsize) = after + (IF insn \in DecEarly THEN 0 ELSE DecImmRead(insn, opsize))
    BY <1>3 DEF DecEnd
  <2>3. DecEnd(decInput, opsize) \in Int
    BY <2>1, <2>2
  <2> QED  BY <2>3
<1>6. /\ decFound.operand = DecModrm(x, next) /\ decFound.prefixes = DecPrefixed(seq)
      /\ decFound.imm = DecImmRead(insn, opsize)
  BY <1>1, <1>2, <1>3, <1>4, <1>5 DEF DecInv, DecResult
<1>7. PICK meant \in Int : meant = after + DecImmMeant(insn, opsize)
  BY DecImmIs
<1>8. DecMisses(decInput) \/ decFound.operand = DecMeant(x, meant)
  <2>1. CASE DecSibMisses(x)
    BY <1>1, <2>1 DEF DecMisses
  <2>2. CASE ~DecSibMisses(x) /\ x.mod = 0 /\ x.rm = 5 /\ insn \in DecEarly
    BY <1>1, <1>3, <2>2 DEF DecMisses
  <2>3. CASE ~DecSibMisses(x) /\ insn \notin DecEarly
    <3>1. next = meant
      BY <1>3, <1>5, <1>7, <2>3, DecImmIs DEF DecEnd, DecEarly
    <3> QED  BY <1>6, <2>3, <3>1, DecModrmExact
  <2>4. CASE ~DecSibMisses(x) /\ ~(x.mod = 0 /\ x.rm = 5)
    BY <1>6, <2>4, DecModrmExact, DecMeantNext
  <2> QED  BY <2>1, <2>2, <2>3, <2>4
<1>9. (insn = "test32" /\ opsize = 2) \/ decFound.imm = DecImmMeant(insn, opsize)
  BY <1>6, DecImmIs
<1>10. (\A k \in 1..Len(seq) - 1 : seq[k] \notin {"rex", "rex.w"})
         => decFound.prefixes.opsize =
              (IF Len(seq) > 0 /\ seq[Len(seq)] = "rex.w" THEN 8
               ELSE IF \E k \in DOMAIN seq : seq[k] = "66" THEN 2 ELSE 4)
  BY <1>6, DecSizeExact
<1>11. decFound.prefixes.opsize = opsize
  BY <1>4, <1>6
<1> QED  BY <1>1, <1>2, <1>3, <1>7, <1>8, <1>9, <1>10, <1>11 DEF DecExact

\* Every operand is found where the encoding puts it, but for the forms of DecMisses; its
\* immediate is as long as it should be, but for f7 /0 with 66; and the prefixes select the size
\* they should (decodeModrm, resolveRm and step, cpu.mjs): for any operands, registers,
\* immediates and sequences of prefixes.
THEOREM DecodesExactly == DecSpec => []DecExact
<1>1. DecSpec => []DecInv
  BY DecInvInit, DecInvNext, PTL DEF DecSpec
<1> QED  BY <1>1, DecInvExact, PTL

================================================================================
