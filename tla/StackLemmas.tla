------------------------------ MODULE StackLemmas ------------------------------
(***************************************************************************)
(* Sequences used as stacks and logs: what the proofs need of the sequence   *)
(* under the last element, and of one with an element more; recursive        *)
(* functions on numbers: that there is one, and induction; what is kept of a *)
(* sequence, in which order; and the elements of a sequence as a set.        *)
(***************************************************************************)
EXTENDS Integers, SequencesExt, Kept, SequenceTheorems, WellFoundedInduction, TLAPS

\* The first elements of a sequence.
LEMMA PrefixProperties ==
  ASSUME NEW S, NEW s \in Seq(S), NEW n \in 0..Len(s)
  PROVE  /\ Len(SubSeq(s, 1, n)) = n
         /\ SubSeq(s, 1, n) \in Seq(S)
         /\ \A d \in 1..n : SubSeq(s, 1, n)[d] = s[d]
<1> DEFINE t == SubSeq(s, 1, n)
<1>1. n \in Nat /\ n <= Len(s)
  OBVIOUS
<1>2. /\ t \in Seq(S)
      /\ Len(t) = IF 1 <= n THEN n - 1 + 1 ELSE 0
      /\ \A d \in 1..n - 1 + 1 : t[d] = s[1 + d - 1]
  <2>1. \A d \in 1..n : s[d] \in S
    BY <1>1
  <2>2. 1 \in Int /\ n \in Int
    BY <1>1
  <2> QED  BY <2>1, <2>2, SubSeqProperties
<1> HIDE DEF t
<1>3. Len(t) = n
  BY <1>1, <1>2
<1>4. \A d \in 1..n : t[d] = s[d]
  BY <1>1, <1>2
<1> QED  BY <1>2, <1>3, <1>4 DEF t

\* A sequence without its last element.
LEMMA FrontProperties ==
  ASSUME NEW S, NEW s \in Seq(S), s # <<>>
  PROVE  /\ Len(s) \in Nat \ {0}
         /\ Len(SubSeq(s, 1, Len(s) - 1)) = Len(s) - 1
         /\ SubSeq(s, 1, Len(s) - 1) \in Seq(S)
         /\ \A d \in 1..Len(s) - 1 : SubSeq(s, 1, Len(s) - 1)[d] = s[d]
<1>1. Len(s) \in Nat \ {0} /\ Len(s) - 1 \in 0..Len(s)
  OBVIOUS
<1> QED  BY <1>1, PrefixProperties

\* A sequence and what was appended to it.
LEMMA Appended ==
  ASSUME NEW S, NEW s \in Seq(S), NEW e \in S
  PROVE  /\ Append(s, e) \in Seq(S)
         /\ Len(s) \in Nat /\ Len(Append(s, e)) = Len(s) + 1
         /\ DOMAIN s = 1..Len(s) /\ DOMAIN Append(s, e) = 1..(Len(s) + 1)
         /\ Append(s, e)[Len(s) + 1] = e
         /\ \A i \in DOMAIN s : Append(s, e)[i] = s[i]
BY AppendProperties, LenProperties

\* A sequence with one element taken out.
LEMMA TakenOut ==
  ASSUME NEW S, NEW s \in Seq(S), NEW k \in 1..Len(s)
  PROVE  /\ RemoveAt(s, k) \in Seq(S) /\ Len(RemoveAt(s, k)) = Len(s) - 1 /\ Len(s) \in Nat \ {0}
         /\ \A i \in 1..(k - 1) : RemoveAt(s, k)[i] = s[i]
         /\ \A i \in k..(Len(s) - 1) : RemoveAt(s, k)[i] = s[i + 1]
<1>1. Len(s) \in Nat \ {0} /\ \A i \in 1..Len(s) : s[i] \in S
  BY LenProperties, ElementOfSeq
<1>a. PICK a : a = SubSeq(s, 1, k - 1)
  OBVIOUS
<1>b. PICK b : b = SubSeq(s, k + 1, Len(s))
  OBVIOUS
<1>2. k \in Nat \ {0} /\ k <= Len(s) /\ k - 1 \in 0..Len(s)
  BY <1>1
<1>3. a \in Seq(S) /\ Len(a) = k - 1 /\ \A i \in 1..(k - 1) : a[i] = s[i]
  BY <1>2, <1>a, PrefixProperties
<1>4. b \in Seq(S) /\ Len(b) = Len(s) - k /\ \A i \in 1..(Len(s) - k) : b[i] = s[k + i]
  <2>1. \A i \in (k + 1)..Len(s) : s[i] \in S
    BY <1>1, <1>2
  <2>2. k + 1 \in Int /\ Len(s) \in Int
    BY <1>1, <1>2
  <2>3. /\ b \in Seq(S) /\ Len(b) = IF k + 1 <= Len(s) THEN Len(s) - (k + 1) + 1 ELSE 0
        /\ \A i \in 1..(Len(s) - (k + 1) + 1) : b[i] = s[(k + 1) + i - 1]
    BY <2>1, <2>2, <1>b, SubSeqProperties
  <2>4. Len(b) = Len(s) - k
    BY <1>1, <1>2, <2>3
  <2>5. \A i \in 1..(Len(s) - k) : b[i] = s[k + i]
    BY <1>1, <1>2, <2>3
  <2> QED  BY <2>3, <2>4, <2>5
<1>5. a \in Seq(S) /\ b \in Seq(S)
  BY <1>3, <1>4
<1>c. PICK c : c = a \o b
  OBVIOUS
<1>6. /\ c \in Seq(S) /\ Len(c) = Len(a) + Len(b)
      /\ \A i \in 1..(Len(a) + Len(b)) : c[i] = IF i <= Len(a) THEN a[i] ELSE b[i - Len(a)]
  BY <1>5, <1>c, ConcatProperties
<1>7. Len(a) = k - 1 /\ Len(b) = Len(s) - k
  BY <1>3, <1>4
<1>8. Len(a) + Len(b) = Len(s) - 1 /\ (k - 1) + (Len(s) - k) = Len(s) - 1
  BY <1>1, <1>2, <1>7
<1>9. \A i \in 1..(k - 1) : c[i] = s[i]
  <2> TAKE i \in 1..(k - 1)
  <2>1. i \in 1..(Len(a) + Len(b)) /\ i <= Len(a)
    BY <1>1, <1>2, <1>7, <1>8
  <2> QED  BY <1>3, <1>6, <2>1
<1>10. \A i \in k..(Len(s) - 1) : c[i] = s[i + 1]
  <2> TAKE i \in k..(Len(s) - 1)
  <2>1. i \in 1..(Len(a) + Len(b)) /\ ~(i <= Len(a)) /\ i - Len(a) \in 1..(Len(s) - k)
    BY <1>1, <1>2, <1>7, <1>8
  <2>2. k + (i - Len(a)) = i + 1
    BY <1>2, <1>7
  <2>3. c[i] = b[i - Len(a)]
    BY <1>6, <2>1
  <2>4. b[i - Len(a)] = s[k + (i - Len(a))]
    BY <1>4, <2>1
  <2> QED  BY <2>2, <2>3, <2>4
<1>11. RemoveAt(s, k) = c
  BY <1>a, <1>b, <1>c DEF RemoveAt
<1> QED  BY <1>1, <1>6, <1>8, <1>9, <1>10, <1>11

\* A set of numbers has a least one.
LEMMA LeastNumber ==
  ASSUME NEW I \in SUBSET Nat, I # {}
  PROVE  \E i \in I : \A k \in I : i <= k
<1> DEFINE R == {p \in Nat \X Nat : p[1] < p[2]}
<1>1. IsWellFoundedOn(R, Nat)
  BY NatLessThanWellFounded DEF OpToRel
<1>2. PICK i \in I : \A k \in I : ~(<<k, i>> \in R)
  <2> HIDE DEF R
  <2> QED  BY <1>1, WFMin
<1>3. \A k \in I : i \in Nat /\ k \in Nat /\ ~(k < i)
  BY <1>2
<1> QED  BY <1>3

\* A sequence with the first of the elements that are e taken out, if there is one.
LEMMA FirstTakenOut ==
  ASSUME NEW S, NEW s \in Seq(S), NEW e
  PROVE  /\ RemoveFirst(s, e) \in Seq(S) /\ Len(RemoveFirst(s, e)) \in Nat
         /\ Len(RemoveFirst(s, e)) <= Len(s)
<1>1. CASE \E i \in 1..Len(s) : s[i] = e
  <2> DEFINE I == {i \in 1..Len(s) : s[i] = e}
             first(i) == i \in I /\ \A k \in I : i <= k
  <2>1. \E i : first(i)
    <3>1. I \in SUBSET Nat /\ I # {}
      BY <1>1
    <3>2. \E i \in I : \A k \in I : i <= k
      <4> HIDE DEF I
      <4> QED  BY <3>1, LeastNumber
    <3> QED  BY <3>2
  <2>2. PICK i : i = CHOOSE j : first(j)
    OBVIOUS
  <2>3. i \in 1..Len(s)
    <3>1. first(i)
      <4> HIDE DEF first
      <4> QED  BY <2>1, <2>2
    <3> QED  BY <3>1
  <2>4. RemoveFirst(s, e) = RemoveAt(s, i)
    <3>1. Min(I) = CHOOSE x \in I : \A y \in I : x <= y
      BY DEF Min
    <3>2. SelectInSeq(s, LAMBDA v : v = e) = Min(I)
      BY <1>1 DEF SelectInSeq
    <3> QED  BY <1>1, <2>2, <3>1, <3>2 DEF RemoveFirst
  <2> QED  BY <2>3, <2>4, TakenOut
<1>2. CASE ~(\E i \in 1..Len(s) : s[i] = e)
  BY <1>2, LenProperties DEF RemoveFirst
<1> QED  BY <1>1, <1>2

-----------------------------------------------------------------------------
(* Recursive functions.  The provers cannot use an induction theorem that has an *)
(* operator as its parameter, so the rule is one about sets of numbers.          *)

\* A set with zero and with the successor of each of its numbers has them all.
LEMMA SetInduction ==
  ASSUME NEW S, 0 \in S, \A n \in Nat : n \in S => n + 1 \in S
  PROVE  Nat \subseteq S
<1> DEFINE T == Nat \ S
           R == {p \in Nat \X Nat : p[1] < p[2]}
<1>1. IsWellFoundedOn(R, Nat)
  BY NatLessThanWellFounded DEF OpToRel
<1>2. ASSUME T # {}
      PROVE  FALSE
  <2>1. T \subseteq Nat
    OBVIOUS
  <2>2. PICK x \in T : \A y \in T : ~(<<y, x>> \in R)
    <3> HIDE DEF T, R
    <3> QED  BY <1>1, <1>2, <2>1, WFMin
  <2>3. x \in Nat /\ x # 0 /\ x - 1 \in Nat /\ x - 1 < x
    OBVIOUS
  <2>4. x - 1 \notin T
    BY <2>2, <2>3
  <2> QED  BY <2>3, <2>4
<1> QED  BY <1>2

\* step goes on from a value of V, at each number to m; f is what it makes of base.
\* Predicates, so that the lemma is found by what it says of them.
IsStep(step, V, m) == \A v \in V, n \in 1..m : step[<<v, n>>] \in V
Iterates(f, V, base, m, step) ==
  /\ f \in [0..m -> V] /\ f[0] = base
  /\ \A n \in 1..m : f[n] = step[<<f[n - 1], n>>]

\* The recursion from base by step, up to m.
LEMMA Recursion ==
  ASSUME NEW V, NEW base, NEW m, NEW step, base \in V, m \in Nat, IsStep(step, V, m)
  PROVE  \E f : Iterates(f, V, base, m, step)
<1> DEFINE Steps(f, k) == \A n \in 1..k : f[n] = step[<<f[n - 1], n>>]
           Good(f, k) == f \in [0..k -> V] /\ f[0] = base /\ Steps(f, k)
           N == {k \in Nat : k <= m => \E f : Good(f, k)}
<1>1. 0 \in N
  <2>1. Good([i \in 0..0 |-> base], 0)
    OBVIOUS
  <2> HIDE DEF Good
  <2> QED  BY <2>1
<1>2. ASSUME NEW k \in Nat, k \in N, k + 1 <= m
      PROVE  \E g : Good(g, k + 1)
  <2>1. PICK f : Good(f, k)
    <3> HIDE DEF Good
    <3> QED  BY <1>2
  <2> DEFINE g == [n \in 0..(k + 1) |-> IF n = k + 1 THEN step[<<f[k], k + 1>>] ELSE f[n]]
  <2>2. f[k] \in V /\ k + 1 \in 1..m
    BY <1>2, <2>1
  <2>3. step[<<f[k], k + 1>>] \in V
    BY <2>2 DEF IsStep
  <2>4. \A n \in 0..k : g[n] = f[n] /\ f[n] \in V
    BY <2>1
  <2>5. g[k + 1] = step[<<f[k], k + 1>>]
    OBVIOUS
  <2>6. g \in [0..(k + 1) -> V]
    BY <2>1, <2>3
  <2> HIDE DEF g
  <2>7. ASSUME NEW n \in 1..(k + 1)
        PROVE  g[n] = step[<<g[n - 1], n>>]
    <3>1. CASE n = k + 1
      <4>1. g[n - 1] = f[k]
        BY <2>4, <3>1
      <4> QED  BY <2>5, <3>1, <4>1
    <3>2. CASE n # k + 1
      <4>1. n \in 0..k /\ n - 1 \in 0..k /\ n \in 1..k
        BY <3>2
      <4>2. g[n] = f[n] /\ g[n - 1] = f[n - 1] /\ f[n] = step[<<f[n - 1], n>>]
        BY <2>1, <2>4, <4>1
      <4> QED  BY <4>2
    <3> QED  BY <3>1, <3>2
  <2>8. Good(g, k + 1)
    BY <2>1, <2>4, <2>6, <2>7
  <2> HIDE DEF Good
  <2> QED  BY <2>8
<1>3. m \in N
  <2>1. \A k \in Nat : k \in N => k + 1 \in N
    <3> SUFFICES ASSUME NEW k \in Nat, k \in N
                 PROVE  k + 1 <= m => \E g : Good(g, k + 1)
      BY DEF N
    <3> HIDE DEF Good, N
    <3> QED  BY <1>2
  <2> HIDE DEF N
  <2> QED  BY <1>1, <2>1, SetInduction
<1>4. PICK f : Good(f, m)
  <2> HIDE DEF Good
  <2> QED  BY <1>3
<1> QED  BY <1>4 DEF Iterates

-----------------------------------------------------------------------------
(* Array.prototype.filter.                                                  *)

\* A sequence t is the elements of s at the indices of I, in order: e says where each is from.
KeptFrom(t, s, n, I, e) ==
  /\ e \in [1..Len(t) -> I \cap (1..n)]
  /\ \A i \in I \cap (1..n) : \E k \in 1..Len(t) : e[k] = i
  /\ \A a, b \in 1..Len(t) : a < b => e[a] < e[b]
  /\ \A k \in 1..Len(t) : t[k] = s[e[k]]

\* What is kept of a sequence: exactly the elements at the indices, in their order.
LEMMA KeptProperties ==
  ASSUME NEW S, NEW s \in Seq(S), NEW I
  PROVE  /\ Kept(s, I) \in Seq(S) /\ Len(Kept(s, I)) \in Nat /\ Len(Kept(s, I)) <= Len(s)
         /\ \E e : KeptFrom(Kept(s, I), s, Len(s), I, e)
<1>1. PICK m \in Nat : m = Len(s)
  BY LenProperties
<1>v. PICK W : W = Seq(S)
  OBVIOUS
<1> DEFINE next(t, n) == IF n \in I THEN Append(t, s[n]) ELSE t
           Is(f) == f = [n \in 0..m |-> IF n = 0 THEN <<>> ELSE next(f[n - 1], n)]
<1>2. \A n \in 1..m : s[n] \in S
  BY <1>1
<1>3. PICK step \in [W \X (1..m) -> W] :
        \A t \in W, n \in 1..m : step[<<t, n>>] = next(t, n)
  <2>1. \A t \in W, n \in 1..m : next(t, n) \in W
    BY <1>2, <1>v, AppendProperties
  <2> DEFINE h == [q \in W \X (1..m) |-> next(q[1], q[2])]
  <2> HIDE DEF next
  <2>2. h \in [W \X (1..m) -> W]
    BY <2>1
  <2>3. \A t \in W, n \in 1..m : h[<<t, n>>] = next(t, n)
    OBVIOUS
  <2> HIDE DEF h
  <2> QED  BY <2>2, <2>3
<1> HIDE DEF next
<1>4. PICK base \in W : base = <<>>
  BY <1>v, EmptySeq
<1>5. PICK f \in [0..m -> W] :
        /\ f[0] = base
        /\ \A n \in 1..m : f[n] = step[<<f[n - 1], n>>]
  <2>1. IsStep(step, W, m)
    BY <1>3 DEF IsStep
  <2>2. PICK f : Iterates(f, W, base, m, step)
    BY <1>1, <1>4, <2>1, Recursion
  <2> QED  BY <2>2 DEF Iterates
<1>6. \A n \in 1..m : f[n - 1] \in W /\ f[n] = next(f[n - 1], n)
  <2>1. \A n \in 1..m : f[n - 1] \in W
    BY <1>5
  <2> QED  BY <1>3, <1>5, <2>1
<1>7. Is(f)
  <2>1. \A n \in 0..m : f[n] = IF n = 0 THEN <<>> ELSE next(f[n - 1], n)
    BY <1>4, <1>5, <1>6
  <2> QED  BY <2>1
<1>8. PICK g : Is(g) /\ Kept(s, I) = g[m]
  <2>1. Kept(s, I) = (CHOOSE g : Is(g))[m]
    BY <1>1 DEF Kept, next
  <2> HIDE DEF Is
  <2> QED  BY <1>7, <2>1
<1>9. g[0] = <<>> /\ \A n \in 1..m : g[n] = next(g[n - 1], n)
  BY <1>8
<1> DEFINE Good(n) == g[n] \in Seq(S) /\ Len(g[n]) \in Nat /\ Len(g[n]) <= n
                      /\ \E e : KeptFrom(g[n], s, n, I, e)
           N == {n \in Nat : n <= m => Good(n)}
<1>10. 0 \in N
  <2>1. g[0] = <<>> /\ g[0] \in Seq(S) /\ Len(g[0]) = 0
    BY <1>9, EmptySeq
  <2>2. KeptFrom(g[0], s, 0, I, [k \in 1..0 |-> 0])
    BY <2>1 DEF KeptFrom
  <2>3. Good(0)
    BY <2>1, <2>2
  <2> HIDE DEF Good
  <2> QED  BY <2>3
<1>11. ASSUME NEW n \in Nat, Good(n), n + 1 <= m
       PROVE  Good(n + 1)
  <2>1. n + 1 \in 1..m /\ (n + 1) - 1 = n /\ g[n + 1] = next(g[n], n + 1)
    BY <1>9, <1>11
  <2>2. PICK e : KeptFrom(g[n], s, n, I, e)
    BY <1>11
  <2>3. PICK t \in Seq(S), c \in Nat : t = g[n] /\ c = Len(t) /\ c <= n
    BY <1>11
  <2>4. /\ e \in [1..c -> I \cap (1..n)]
        /\ \A i \in I \cap (1..n) : \E k \in 1..c : e[k] = i
        /\ \A a, b \in 1..c : a < b => e[a] < e[b]
        /\ \A k \in 1..c : t[k] = s[e[k]]
    BY <2>2, <2>3 DEF KeptFrom
  <2>5. CASE n + 1 \notin I
    <3>1. g[n + 1] = t
      BY <2>1, <2>3, <2>5 DEF next
    <3>2. I \cap (1..(n + 1)) = I \cap (1..n)
      BY <2>5
    <3>3. KeptFrom(t, s, n + 1, I, e)
      BY <2>3, <2>4, <3>2 DEF KeptFrom
    <3> QED  BY <2>3, <3>1, <3>3
  <2>6. CASE n + 1 \in I
    <3>1. s[n + 1] \in S
      BY <1>2, <2>1
    <3>2. PICK x \in S : x = s[n + 1]
      BY <3>1
    <3>3. PICK u : u = Append(t, x)
      OBVIOUS
    <3>a. /\ u \in Seq(S) /\ Len(u) = c + 1 /\ u[c + 1] = x
          /\ \A k \in 1..c : u[k] = t[k]
      BY <2>3, <3>3, Appended
    <3>b. u = g[n + 1]
      BY <2>1, <2>3, <2>6, <3>2, <3>3 DEF next
    <3>c. /\ 1..n \subseteq 1..(n + 1) /\ n + 1 \in 1..(n + 1)
          /\ 1..c \subseteq 1..(c + 1) /\ c + 1 \in 1..(c + 1)
          /\ \A i \in 1..n : i < n + 1
      OBVIOUS
    <3> DEFINE d == [k \in 1..(c + 1) |-> IF k = c + 1 THEN n + 1 ELSE e[k]]
    <3>4. \A k \in 1..(c + 1) : k = c + 1 \/ k \in 1..c
      OBVIOUS
    <3>5. d[c + 1] = n + 1 /\ \A k \in 1..c : d[k] = e[k] /\ e[k] \in I \cap (1..n)
      BY <2>4
    <3>6. d \in [1..(c + 1) -> I \cap (1..(n + 1))]
      <4>1. \A k \in 1..(c + 1) : d[k] \in I \cap (1..(n + 1))
        BY <2>6, <3>4, <3>5, <3>c
      <4> QED  BY <4>1
    <3> HIDE DEF d
    <3>7. ASSUME NEW i \in I \cap (1..(n + 1))
          PROVE  \E k \in 1..(c + 1) : d[k] = i
      <4>1. CASE i = n + 1
        BY <3>5, <3>c, <4>1
      <4>2. CASE i # n + 1
        <5>1. i \in I \cap (1..n)
          BY <4>2
        <5>2. PICK k \in 1..c : e[k] = i
          BY <2>4, <5>1
        <5> QED  BY <3>5, <3>c, <5>2
      <4> QED  BY <4>1, <4>2
    <3>8. ASSUME NEW a \in 1..(c + 1), NEW b \in 1..(c + 1), a < b
          PROVE  d[a] < d[b]
      <4>1. a \in 1..c
        BY <3>8
      <4>2. CASE b = c + 1
        BY <3>5, <3>c, <4>1, <4>2
      <4>3. CASE b # c + 1
        <5>1. b \in 1..c
          BY <4>3
        <5> QED  BY <2>4, <3>5, <3>8, <4>1, <5>1
      <4> QED  BY <4>2, <4>3
    <3>9. ASSUME NEW k \in 1..(c + 1)
          PROVE  u[k] = s[d[k]]
      BY <2>4, <3>2, <3>a, <3>4, <3>5
    <3>10. KeptFrom(u, s, n + 1, I, d)
      BY <3>a, <3>6, <3>7, <3>8, <3>9 DEF KeptFrom
    <3>11. Len(u) \in Nat /\ Len(u) <= n + 1
      BY <2>3, <3>a
    <3> QED  BY <3>a, <3>b, <3>10, <3>11
  <2> QED  BY <2>5, <2>6
<1>12. Good(m)
  <2> HIDE DEF Good
  <2>1. \A n \in Nat : n \in N => n + 1 \in N
    <3> SUFFICES ASSUME NEW n \in Nat, n \in N, n + 1 <= m
                 PROVE  Good(n + 1)
      OBVIOUS
    <3>1. Good(n)
      BY <1>1
    <3> QED  BY <1>11, <3>1
  <2>2. Nat \subseteq N
    <3> HIDE DEF N
    <3> QED  BY <1>10, <2>1, SetInduction
  <2> QED  BY <2>2
<1> QED  BY <1>1, <1>8, <1>12

-----------------------------------------------------------------------------
(* The elements of a sequence.                                             *)

\* They are those at the positions of the sequence, and in the set it is of.
LEMMA Elements ==
  ASSUME NEW S, NEW s \in Seq(S)
  PROVE  /\ Len(s) \in Nat /\ DOMAIN s = 1..Len(s) /\ ToSet(s) \subseteq S
         /\ ToSet(s) = {s[i] : i \in 1..Len(s)} /\ \A i \in 1..Len(s) : s[i] \in S
<1>1. DOMAIN s = 1..Len(s) /\ Len(s) \in Nat /\ \A i \in 1..Len(s) : s[i] \in S
  BY LenProperties, ElementOfSeq
<1> QED  BY <1>1 DEF ToSet

\* Of a sequence with an element more.
LEMMA ElementsAppended ==
  ASSUME NEW S, NEW s \in Seq(S), NEW e \in S
  PROVE  ToSet(Append(s, e)) = ToSet(s) \cup {e}
<1>1. PICK t : t = Append(s, e)
  OBVIOUS
<1>2. /\ t \in Seq(S) /\ Len(s) \in Nat /\ Len(t) = Len(s) + 1 /\ t[Len(s) + 1] = e
      /\ \A i \in DOMAIN s : t[i] = s[i]
  BY <1>1, Appended
<1>3. PICK n \in Nat : n = Len(s)
  BY <1>2
<1>4. ToSet(s) = {s[i] : i \in 1..n} /\ DOMAIN s = 1..n
  BY <1>3, Elements
<1>5. ToSet(t) = {t[i] : i \in 1..(n + 1)}
  BY <1>2, <1>3, Elements
<1>6. \A i : i \in 1..(n + 1) <=> (i \in 1..n \/ i = n + 1)
  OBVIOUS
<1>7. t[n + 1] = e /\ \A i \in 1..n : t[i] = s[i]
  BY <1>2, <1>3, <1>4
<1>8. ToSet(t) = ToSet(s) \cup {e}
  BY <1>4, <1>5, <1>6, <1>7
<1> QED  BY <1>1, <1>8

\* Of two sequences, one after the other.
LEMMA ElementsJoined ==
  ASSUME NEW S, NEW s \in Seq(S), NEW t \in Seq(S)
  PROVE  /\ s \o t \in Seq(S) /\ ToSet(s \o t) = ToSet(s) \cup ToSet(t)
         /\ Len(s) \in Nat /\ Len(t) \in Nat /\ Len(s \o t) = Len(s) + Len(t)
         /\ \A i \in 1..Len(s) : i \in 1..Len(s \o t) /\ (s \o t)[i] = s[i]
<1>1. PICK u : u = s \o t
  OBVIOUS
<1>2. /\ u \in Seq(S) /\ Len(u) = Len(s) + Len(t)
      /\ \A i \in 1..(Len(s) + Len(t)) : u[i] = IF i <= Len(s) THEN s[i] ELSE t[i - Len(s)]
  BY <1>1, ConcatProperties
<1>3. PICK m \in Nat : m = Len(s)
  BY LenProperties
<1>4. PICK n \in Nat : n = Len(t)
  BY LenProperties
<1>5. ToSet(s) = {s[i] : i \in 1..m}
  BY <1>3, Elements
<1>6. ToSet(t) = {t[i] : i \in 1..n}
  BY <1>4, Elements
<1>7. Len(u) = m + n /\ ToSet(u) = {u[i] : i \in 1..(m + n)}
  BY <1>2, <1>3, <1>4, Elements
<1>8. \A i \in 1..(m + n) : u[i] = IF i <= m THEN s[i] ELSE t[i - m]
  BY <1>2, <1>3, <1>4
<1> HIDE <1>2
<1>9. ASSUME NEW i \in 1..(m + n)
      PROVE  u[i] \in ToSet(s) \cup ToSet(t)
  <2>1. CASE i <= m
    BY <1>5, <1>8, <2>1
  <2>2. CASE ~(i <= m)
    <3>1. i - m \in 1..n
      BY <2>2
    <3> QED  BY <1>6, <1>8, <2>2, <3>1
  <2> QED  BY <2>1, <2>2
<1>10. \A i \in 1..m : i \in 1..(m + n) /\ u[i] = s[i]
  BY <1>8
<1>11. ASSUME NEW i \in 1..n
       PROVE  \E k \in 1..(m + n) : u[k] = t[i]
  <2>1. i + m \in 1..(m + n) /\ ~(i + m <= m) /\ (i + m) - m = i
    OBVIOUS
  <2>2. u[i + m] = t[(i + m) - m]
    BY <1>8, <2>1
  <2> QED  BY <2>1, <2>2
<1>12. ToSet(u) = ToSet(s) \cup ToSet(t)
  <2>1. ToSet(u) \subseteq ToSet(s) \cup ToSet(t)
    BY <1>7, <1>9
  <2>2. ToSet(s) \subseteq ToSet(u)
    BY <1>5, <1>7, <1>10
  <2>3. ToSet(t) \subseteq ToSet(u)
    BY <1>6, <1>7, <1>11
  <2> QED  BY <2>1, <2>2, <2>3
<1> QED  BY <1>1, <1>2, <1>3, <1>4, <1>7, <1>10, <1>12

\* Of what is kept of a sequence.
LEMMA ElementsKept ==
  ASSUME NEW S, NEW s \in Seq(S), NEW I
  PROVE  ToSet(Kept(s, I)) = {s[i] : i \in I \cap (1..Len(s))}
<1>1. PICK t : t = Kept(s, I)
  OBVIOUS
<1>a. PICK e : KeptFrom(t, s, Len(s), I, e)
  BY <1>1, KeptProperties
<1>2. \A k \in 1..Len(t) : e[k] \in I \cap (1..Len(s)) /\ t[k] = s[e[k]]
  BY <1>a DEF KeptFrom
<1>3. \A i \in I \cap (1..Len(s)) : \E k \in 1..Len(t) : t[k] = s[i]
  BY <1>a DEF KeptFrom
<1>4. t \in Seq(S)
  BY <1>1, KeptProperties
<1>5. ToSet(t) = {t[k] : k \in 1..Len(t)}
  BY <1>4, Elements
<1>6. ToSet(t) = {s[i] : i \in I \cap (1..Len(s))}
  BY <1>2, <1>3, <1>5
<1> QED  BY <1>1, <1>6

=============================================================================
