---------------------------- MODULE ChainLemmas ----------------------------
(***************************************************************************)
(* What the operations on a chain of blocks do to the set of its blocks,   *)
(* and how many blocks a number of bytes takes; least numbers, how many    *)
(* there are up to n, and what flattening makes of a sequence of           *)
(* sequences: the lemmas that the proofs share.                            *)
(***************************************************************************)
EXTENDS Integers, Sequences, FiniteSets, SequencesExt, FiniteSetTheorems, TLAPS

(* An injective function on 1..n is a chain of n different blocks. *)
LEMMA InjectionIsChain ==
  ASSUME NEW S, NEW n \in Nat, NEW f \in Injection(1..n, S)
  PROVE  /\ f \in Seq(S)
         /\ Len(f) = n
         /\ IsInjective(f)
         /\ Range(f) \subseteq S
<1>1. f \in [1..n -> S] /\ IsInjective(f)
  BY DEF Injection
<1>2. f \in Seq(S) /\ Len(f) = n
  BY <1>1
<1>3. Range(f) \subseteq S
  BY <1>1 DEF Range
<1> QED BY <1>1, <1>2, <1>3

(* The macro-block of an n-fold reservation holds n blocks. *)
LEMMA InjectionCardinality ==
  ASSUME NEW S, NEW n \in Nat, NEW f \in Injection(1..n, S)
  PROVE  IsFiniteSet(Range(f)) /\ Cardinality(Range(f)) = n
<1>1. f \in [1..n -> S] /\ IsInjective(f)
  BY DEF Injection
<1>2. f \in Bijection(1..n, Range(f))
  BY <1>1 DEF Bijection, Injection, Surjection, Range
<1>3. ExistsBijection(1..n, Range(f))
  BY <1>2 DEF ExistsBijection
<1> QED BY <1>3, FS_CountingElements, FS_NatBijection

(* Joining two chains. *)
LEMMA ConcatChain ==
  ASSUME NEW S, NEW a \in Seq(S), NEW b \in Seq(S)
  PROVE  /\ a \o b \in Seq(S)
         /\ Len(a \o b) = Len(a) + Len(b)
         /\ Range(a \o b) = Range(a) \union Range(b)
         /\ IsInjective(a) /\ IsInjective(b) /\ Range(a) \intersect Range(b) = {}
              => IsInjective(a \o b)
<1>1. a \o b \in Seq(S) /\ Len(a \o b) = Len(a) + Len(b)
  OBVIOUS
<1>2. \A i \in 1..Len(a) : (a \o b)[i] = a[i]
  OBVIOUS
<1>3. \A i \in 1..Len(b) : (a \o b)[Len(a) + i] = b[i]
  OBVIOUS
<1>4. \A i \in 1..Len(a \o b) : i \in 1..Len(a) \/ (i - Len(a)) \in 1..Len(b)
  BY <1>1
<1>5. Range(a \o b) = Range(a) \union Range(b)
  <2>1. Range(a \o b) \subseteq Range(a) \union Range(b)
    <3> SUFFICES ASSUME NEW i \in 1..Len(a \o b)
                 PROVE  (a \o b)[i] \in Range(a) \union Range(b)
      BY <1>1 DEF Range
    <3>1. CASE i \in 1..Len(a)
      BY <3>1, <1>2 DEF Range
    <3>2. CASE (i - Len(a)) \in 1..Len(b)
      <4>1. (a \o b)[Len(a) + (i - Len(a))] = b[i - Len(a)]
        BY <3>2, <1>3
      <4>2. Len(a) + (i - Len(a)) = i
        OBVIOUS
      <4> QED BY <4>1, <4>2, <3>2 DEF Range
    <3> QED BY <3>1, <3>2, <1>4
  <2>2. Range(a) \subseteq Range(a \o b)
    BY <1>1, <1>2 DEF Range
  <2>3. Range(b) \subseteq Range(a \o b)
    <3> SUFFICES ASSUME NEW i \in 1..Len(b)
                 PROVE  b[i] \in Range(a \o b)
      BY SMTT(30) DEF Range
    <3>1. Len(a) + i \in 1..Len(a \o b)
      BY <1>1
    <3> QED BY <3>1, <1>1, <1>3, SMTT(30) DEF Range
  <2> QED BY <2>1, <2>2, <2>3
<1>6. ASSUME IsInjective(a), IsInjective(b), Range(a) \intersect Range(b) = {}
      PROVE  IsInjective(a \o b)
  <2> SUFFICES ASSUME NEW i \in 1..Len(a \o b), NEW j \in 1..Len(a \o b),
                      (a \o b)[i] = (a \o b)[j]
               PROVE  i = j
    BY <1>1 DEF IsInjective
  <2>1. CASE i \in 1..Len(a) /\ j \in 1..Len(a)
    BY <2>1, <1>2, <1>6 DEF IsInjective
  <2>2. CASE i \in 1..Len(a) /\ (j - Len(a)) \in 1..Len(b)
    <3>1. (a \o b)[j] = b[j - Len(a)]
      BY <2>2, <1>3
    <3>2. a[i] = b[j - Len(a)]
      BY <2>2, <3>1, <1>2
    <3> QED BY <2>2, <3>2, <1>6 DEF Range
  <2>3. CASE (i - Len(a)) \in 1..Len(b) /\ j \in 1..Len(a)
    <3>1. (a \o b)[i] = b[i - Len(a)]
      BY <2>3, <1>3
    <3>2. a[j] = b[i - Len(a)]
      BY <2>3, <3>1, <1>2
    <3> QED BY <2>3, <3>2, <1>6 DEF Range
  <2>4. CASE (i - Len(a)) \in 1..Len(b) /\ (j - Len(a)) \in 1..Len(b)
    <3>1. b[i - Len(a)] = b[j - Len(a)]
      BY <2>4, <1>3
    <3>2. i - Len(a) = j - Len(a)
      BY <3>1, <2>4, <1>6 DEF IsInjective
    <3> QED BY <3>2
  <2> QED BY <2>1, <2>2, <2>3, <2>4, <1>4
<1> QED BY <1>1, <1>5, <1>6

(* Joining two sequences, element by element. *)
LEMMA ConcatElements ==
  ASSUME NEW S, NEW a \in Seq(S), NEW b \in Seq(S)
  PROVE  /\ a \o b = [i \in 1..Len(a) + Len(b) |-> IF i <= Len(a) THEN a[i] ELSE b[i - Len(a)]]
         /\ \A i \in 1..Len(a) : (a \o b)[i] = a[i]
         /\ \A i \in 1..Len(b) : (a \o b)[Len(a) + i] = b[i]
<1>1. \A i \in 1..Len(a) : (a \o b)[i] = a[i]
  OBVIOUS
<1>2. \A i \in 1..Len(b) : (a \o b)[Len(a) + i] = b[i]
  OBVIOUS
<1> DEFINE ab == a \o b
           n == Len(a)
           m == Len(b)
           h == [i \in 1..n + m |-> IF i <= n THEN a[i] ELSE b[i - n]]
<1>3. n \in Nat /\ m \in Nat
  OBVIOUS
<1>4. ab \in Seq(S) /\ Len(ab) = n + m
  OBVIOUS
<1>5. \A i \in 1..n + m : ab[i] = h[i]
  <2> TAKE i \in 1..n + m
  <2>1. CASE i <= n
    BY <2>1, <1>1, <1>3
  <2>2. CASE i > n
    <3>1. i - n \in 1..m /\ n + (i - n) = i
      BY <2>2, <1>3
    <3>2. ab[n + (i - n)] = b[i - n]
      BY <3>1, <1>2
    <3> QED BY <3>1, <3>2, <2>2, <1>3
  <2> QED BY <2>1, <2>2, <1>3
<1> HIDE DEF ab
<1>6. ab = [i \in 1..n + m |-> ab[i]]
  BY <1>3, <1>4
<1>7. ab = h
  <2> HIDE DEF n, m
  <2> QED BY <1>5, <1>6
<1> QED BY <1>1, <1>2, <1>7 DEF ab

(* A sequence with the elements of the one and then of the other is theirs. *)
LEMMA ConcatIs ==
  ASSUME NEW S, NEW a \in Seq(S), NEW b \in Seq(S), NEW h,
         h = [i \in 1..Len(a) + Len(b) |-> h[i]],
         \A i \in 1..Len(a) : h[i] = a[i],
         \A i \in 1..Len(b) : h[Len(a) + i] = b[i]
  PROVE  h = a \o b
<1> DEFINE ab == [i \in 1..Len(a) + Len(b) |-> IF i <= Len(a) THEN a[i] ELSE b[i - Len(a)]]
<1>1. a \o b = ab
  BY ConcatElements
<1>2. ASSUME NEW i \in 1..Len(a) + Len(b)
      PROVE  h[i] = IF i <= Len(a) THEN a[i] ELSE b[i - Len(a)]
  <2>1. Len(a) \in Nat /\ Len(b) \in Nat
    OBVIOUS
  <2>2. CASE i <= Len(a)
    <3>1. i \in 1..Len(a)
      BY <2>1, <2>2
    <3>2. h[i] = a[i]
      BY <3>1
    <3> QED BY <3>2, <2>2
  <2>3. CASE i > Len(a)
    <3>1. i - Len(a) \in 1..Len(b) /\ Len(a) + (i - Len(a)) = i
      BY <2>1, <2>3
    <3>2. h[Len(a) + (i - Len(a))] = b[i - Len(a)]
      BY <3>1
    <3> QED BY <3>1, <3>2, <2>3, <2>1
  <2>4. i <= Len(a) \/ i > Len(a)
    BY <2>1
  <2> QED BY <2>2, <2>3, <2>4
<1>3. h = ab
  BY <1>2
<1> QED BY <1>1, <1>3

(* Joining is associative. *)
LEMMA ConcatAssociative ==
  ASSUME NEW S, NEW a \in Seq(S), NEW b \in Seq(S), NEW c \in Seq(S)
  PROVE  (a \o b) \o c = a \o (b \o c)
<1> DEFINE h == (a \o b) \o c
           n == Len(a)
           m == Len(b)
           k == Len(c)
           ab == a \o b
           bc == b \o c
<1>1. n \in Nat /\ m \in Nat /\ k \in Nat
  OBVIOUS
<1>2. ab \in Seq(S) /\ Len(ab) = n + m /\ bc \in Seq(S) /\ Len(bc) = m + k
  OBVIOUS
<1>3. /\ \A i \in 1..n : ab[i] = a[i]
      /\ \A i \in 1..m : ab[n + i] = b[i]
      /\ \A i \in 1..m : bc[i] = b[i]
      /\ \A i \in 1..k : bc[m + i] = c[i]
  BY ConcatElements
<1> HIDE DEF ab, bc
<1>4. h = ab \o c /\ h \in Seq(S) /\ Len(h) = (n + m) + k
  BY <1>2 DEF ab
<1>5. /\ \A i \in 1..n + m : (ab \o c)[i] = ab[i]
      /\ \A i \in 1..k : (ab \o c)[(n + m) + i] = c[i]
  BY <1>2, ConcatElements
<1> HIDE DEF h, n, m, k
<1>6. \A i \in 1..n : h[i] = a[i]
  BY <1>1, <1>3, <1>4, <1>5
<1>7. ASSUME NEW i \in 1..m + k
      PROVE  h[n + i] = bc[i]
  <2>1. CASE i <= m
    <3>1. n + i \in 1..n + m /\ i \in 1..m
      BY <2>1, <1>1
    <3> QED BY <3>1, <1>3, <1>4, <1>5
  <2>2. CASE i > m
    <3>1. i - m \in 1..k /\ (n + m) + (i - m) = n + i /\ m + (i - m) = i
      BY <2>2, <1>1
    <3>2. h[(n + m) + (i - m)] = c[i - m] /\ bc[m + (i - m)] = c[i - m]
      BY <3>1, <1>3, <1>4, <1>5
    <3> QED BY <3>1, <3>2
  <2>3. i <= m \/ i > m
    BY <1>1
  <2> QED BY <2>1, <2>2, <2>3
<1>8. h = [i \in 1..Len(a) + Len(bc) |-> h[i]]
  <2>1. Len(h) = Len(a) + Len(bc)
    BY <1>1, <1>2, <1>4 DEF n
  <2> QED BY <2>1, <1>4
<1>9. /\ \A i \in 1..Len(a) : h[i] = a[i]
      /\ \A i \in 1..Len(bc) : h[Len(a) + i] = bc[i]
  BY <1>2, <1>6, <1>7 DEF n
<1>10. h = a \o bc
  BY <1>2, <1>8, <1>9, ConcatIs
<1> QED BY <1>10 DEF h, bc

(* The two parts of a sequence that is cut make it up. *)
LEMMA CutConcat ==
  ASSUME NEW S, NEW s \in Seq(S), NEW k \in 0..Len(s)
  PROVE  SubSeq(s, 1, k) \o SubSeq(s, k + 1, Len(s)) = s
<1> DEFINE p == SubSeq(s, 1, k)
           q == SubSeq(s, k + 1, Len(s))
<1>1. p \in Seq(S) /\ Len(p) = k /\ \A i \in 1..k : s[i] = p[i]
  OBVIOUS
<1>2. q \in Seq(S) /\ Len(q) = Len(s) - k
  OBVIOUS
<1>3. \A i \in 1..(Len(s) - k) : s[k + i] = q[i]
  OBVIOUS
<1> HIDE DEF p, q
<1>4. s = [i \in 1..Len(p) + Len(q) |-> s[i]]
  <2>1. Len(p) + Len(q) = Len(s)
    BY <1>1, <1>2
  <2> QED BY <2>1
<1>5. \A i \in 1..Len(q) : s[Len(p) + i] = q[i]
  BY <1>1, <1>2, <1>3
<1>6. s = p \o q
  BY <1>1, <1>2, <1>4, <1>5, ConcatIs
<1> QED BY <1>6 DEF p, q

(* Cutting a chain after its first k blocks. *)
LEMMA CutChain ==
  ASSUME NEW S, NEW s \in Seq(S), NEW k \in 0..Len(s)
  PROVE  /\ SubSeq(s, 1, k) \in Seq(S)
         /\ SubSeq(s, k + 1, Len(s)) \in Seq(S)
         /\ Len(SubSeq(s, 1, k)) = k
         /\ Len(SubSeq(s, k + 1, Len(s))) = Len(s) - k
         /\ Range(s) = Range(SubSeq(s, 1, k)) \union Range(SubSeq(s, k + 1, Len(s)))
         /\ IsInjective(s) =>
              /\ IsInjective(SubSeq(s, 1, k))
              /\ IsInjective(SubSeq(s, k + 1, Len(s)))
              /\ Range(SubSeq(s, 1, k)) \intersect Range(SubSeq(s, k + 1, Len(s))) = {}
<1> DEFINE p == SubSeq(s, 1, k)
           q == SubSeq(s, k + 1, Len(s))
<1>1. p \in Seq(S) /\ Len(p) = k /\ \A i \in 1..k : p[i] = s[i]
  OBVIOUS
<1>2. q \in Seq(S) /\ Len(q) = Len(s) - k
  OBVIOUS
<1>3. \A i \in 1..(Len(s) - k) : q[i] = s[k + i]
  OBVIOUS
<1> HIDE DEF p, q
<1>4. Range(s) = Range(p) \union Range(q)
  <2>1. Range(p) \subseteq Range(s)
    BY <1>1 DEF Range
  <2>2. Range(q) \subseteq Range(s)
    <3> SUFFICES ASSUME NEW i \in 1..(Len(s) - k)
                 PROVE  q[i] \in Range(s)
      BY <1>2 DEF Range
    <3>1. k + i \in 1..Len(s)
      OBVIOUS
    <3> QED BY <3>1, <1>3 DEF Range
  <2>3. Range(s) \subseteq Range(p) \union Range(q)
    <3> SUFFICES ASSUME NEW i \in 1..Len(s)
                 PROVE  s[i] \in Range(p) \union Range(q)
      BY DEF Range
    <3>1. CASE i <= k
      BY <3>1, <1>1 DEF Range
    <3>2. CASE i > k
      <4>1. i - k \in 1..(Len(s) - k) /\ k + (i - k) = i
        BY <3>2
      <4>2. q[i - k] = s[i]
        BY <4>1, <1>3
      <4> QED BY <4>1, <4>2, <1>2 DEF Range
    <3> QED BY <3>1, <3>2
  <2> QED BY <2>1, <2>2, <2>3
<1>5. ASSUME IsInjective(s)
      PROVE  IsInjective(p) /\ IsInjective(q) /\ Range(p) \intersect Range(q) = {}
  <2>1. IsInjective(p)
    BY <1>1, <1>5 DEF IsInjective
  <2>2. IsInjective(q)
    <3> SUFFICES ASSUME NEW i \in 1..(Len(s) - k), NEW j \in 1..(Len(s) - k), q[i] = q[j]
                 PROVE  i = j
      BY <1>2 DEF IsInjective
    <3>1. s[k + i] = s[k + j]
      BY <1>3
    <3>2. k + i = k + j
      BY <3>1, <1>5 DEF IsInjective
    <3> QED BY <3>2
  <2>3. ASSUME NEW i \in 1..k, NEW j \in 1..(Len(s) - k), p[i] = q[j]
        PROVE  FALSE
    <3>1. s[i] = s[k + j]
      BY <2>3, <1>1, <1>3
    <3>2. i = k + j
      BY <3>1, <1>5 DEF IsInjective
    <3> QED BY <3>2
  <2> QED BY <2>1, <2>2, <2>3, <1>1, <1>2 DEF Range
<1> QED BY <1>1, <1>2, <1>4, <1>5 DEF p, q

(* Turning a chain round. *)
LEMMA ReverseChain ==
  ASSUME NEW S, NEW s \in Seq(S)
  PROVE  /\ Reverse(s) \in Seq(S)
         /\ Len(Reverse(s)) = Len(s)
         /\ Range(Reverse(s)) = Range(s)
         /\ IsInjective(s) => IsInjective(Reverse(s))
<1>1. Reverse(s) = [i \in 1..Len(s) |-> s[Len(s) - i + 1]]
  BY DEF Reverse
<1>2. Reverse(s) \in Seq(S) /\ Len(Reverse(s)) = Len(s)
  BY <1>1
<1>3. Range(Reverse(s)) = Range(s)
  <2>1. Range(Reverse(s)) \subseteq Range(s)
    BY <1>1 DEF Range
  <2>2. ASSUME NEW i \in 1..Len(s)
        PROVE  s[i] \in Range(Reverse(s))
    <3>1. Len(s) - i + 1 \in 1..Len(s) /\ Len(s) - (Len(s) - i + 1) + 1 = i
      OBVIOUS
    <3>2. Reverse(s)[Len(s) - i + 1] = s[i]
      BY <1>1, <3>1
    <3> QED BY <3>1, <3>2, <1>1 DEF Range
  <2> QED BY <2>1, <2>2 DEF Range
<1>4. ASSUME IsInjective(s)
      PROVE  IsInjective(Reverse(s))
  <2> SUFFICES ASSUME NEW i \in 1..Len(s), NEW j \in 1..Len(s),
                      Reverse(s)[i] = Reverse(s)[j]
               PROVE  i = j
    BY <1>1 DEF IsInjective
  <2>1. s[Len(s) - i + 1] = s[Len(s) - j + 1]
    BY <1>1
  <2>2. Len(s) - i + 1 = Len(s) - j + 1
    BY <2>1, <1>4 DEF IsInjective
  <2> QED BY <2>2
<1> QED BY <1>2, <1>3, <1>4

-----------------------------------------------------------------------------
(* Rounding a number of bytes up to blocks of B bytes. *)

(* Quotient and remainder. *)
LEMMA DivMod ==
  ASSUME NEW B \in Nat \ {0}, NEW x \in Nat
  PROVE  /\ x \div B \in Nat
         /\ x % B \in 0..B - 1
         /\ x = B * (x \div B) + (x % B)
OBVIOUS

(* A multiple of the larger number is no smaller. *)
LEMMA TimesMonotone ==
  ASSUME NEW B \in Nat \ {0}, NEW k \in Int, NEW m \in Int, k * B < m * B
  PROVE  k < m
<1> SUFFICES ASSUME k >= m PROVE k * B >= m * B
  OBVIOUS
<1>1. k * B = m * B + (k - m) * B
  OBVIOUS
<1>2. (k - m) \in Nat /\ B \in Nat
  OBVIOUS
<1>3. (k - m) * B \in Nat
  BY <1>2
<1> QED BY <1>1, <1>3

(* The quotient is the only number whose multiple is near enough. *)
LEMMA DivUnique ==
  ASSUME NEW B \in Nat \ {0}, NEW x \in Nat, NEW k \in Int,
         k * B <= x, x < (k + 1) * B
  PROVE  x \div B = k
<1>1. /\ x \div B \in Nat /\ x % B \in 0..B - 1
      /\ x = B * (x \div B) + (x % B)
  BY DivMod
<1> DEFINE q == x \div B
<1>2. q \in Int /\ q * B <= x /\ x < (q + 1) * B
  <2>1. (q + 1) * B = B * q + B
    BY <1>1
  <2> QED BY <1>1, <2>1
<1> HIDE DEF q
<1>3. k < q + 1
  <2>1. k * B < (q + 1) * B
    BY <1>2
  <2> QED BY <1>2, <2>1, TimesMonotone
<1>4. q < k + 1
  <2>1. q * B < (k + 1) * B
    BY <1>2
  <2> QED BY <1>2, <2>1, TimesMonotone
<1> QED BY <1>2, <1>3, <1>4 DEF q

(* The number of blocks that cover x bytes: enough, and none to spare. *)
LEMMA CeilUnique ==
  ASSUME NEW B \in Nat \ {0}, NEW x \in Nat, NEW k \in Int,
         x <= k * B, k * B < x + B
  PROVE  (x + B - 1) \div B = k
<1>1. k * B <= x + B - 1 /\ x + B - 1 < (k + 1) * B
  OBVIOUS
<1>2. x + B - 1 \in Nat
  OBVIOUS
<1> QED BY <1>1, <1>2, DivUnique

(* Rounding up: the product is at least n, and less than n + B. *)
LEMMA CeilBounds ==
  ASSUME NEW B \in Nat \ {0}, NEW x \in Nat
  PROVE  LET k == (x + B - 1) \div B
         IN  k \in Nat /\ x <= k * B /\ k * B < x + B
<1> DEFINE y == x + B - 1
<1>1. y \in Nat
  OBVIOUS
<1>2. y \div B \in Nat /\ y % B \in 0..B - 1 /\ y = B * (y \div B) + (y % B)
  BY <1>1, DivMod
<1> QED BY <1>2

(* A chain of L blocks that holds e bytes exactly, read up to x < e: the   *)
(* blocks emptied are fewer than L, and the others hold the rest exactly.  *)
LEMMA CutArithmetic ==
  ASSUME NEW B \in Nat \ {0}, NEW e \in Nat, NEW x \in Nat, NEW L \in Nat,
         x < e, e <= L * B, L * B < e + B
  PROVE  LET q == x \div B
             left == (x % B) + (e - x)
         IN  /\ q \in Nat /\ q < L
             /\ left \in Nat
             /\ left <= (L - q) * B
             /\ (L - q) * B < left + B
<1> DEFINE q == x \div B
           m == x % B
           p == B * q
           P == L * B
<1>1. q \in Nat /\ m \in Nat /\ m < B /\ x = B * q + m
  <2>1. x \div B \in Nat /\ x % B \in 0..B - 1 /\ x = B * (x \div B) + (x % B)
    BY DivMod
  <2> QED BY <2>1
<1> HIDE DEF q, m
<1>2. p \in Nat /\ P \in Nat /\ p = q * B
  BY <1>1
<1>3. (L - q) * B = P - p
  BY <1>1
<1>4. x = p + m /\ e <= P /\ P < e + B
  BY <1>1
<1>5. q < L
  <2>1. q * B < L * B
    <3> HIDE DEF p, P
    <3>1. p < P
      BY <1>1, <1>2, <1>4
    <3> QED BY <3>1, <1>2 DEF P
  <2> QED BY <1>1, <2>1, TimesMonotone
<1> HIDE DEF p, P
<1>6. m + (e - x) = e - p /\ m + (e - x) \in Nat
  BY <1>1, <1>2, <1>4
<1>7. m + (e - x) <= P - p /\ P - p < m + (e - x) + B
  BY <1>1, <1>2, <1>4, <1>6
<1> QED BY <1>1, <1>3, <1>5, <1>6, <1>7 DEF q, m

-----------------------------------------------------------------------------
(* Places: byte p of a chain c is in block c[p \div B + 1], at p % B.       *)

(* Whole blocks before x move the block, and leave the place within it.    *)
LEMMA DivModShift ==
  ASSUME NEW B \in Nat \ {0}, NEW k \in Nat, NEW x \in Nat
  PROVE  /\ k * B + x \in Nat
         /\ (k * B + x) \div B = k + (x \div B)
         /\ (k * B + x) % B = x % B
<1> DEFINE q == x \div B
           m == x % B
           y == k * B + x
<1>1. q \in Nat /\ m \in 0..B - 1 /\ x = B * q + m
  BY DivMod
<1>2. k * B \in Nat
  OBVIOUS
<1>3. y \in Nat
  BY <1>2
<1> HIDE DEF q, m
<1>4. (k + q) * B = k * B + B * q
  BY <1>1
<1>5. (k + q) * B <= y /\ y < ((k + q) + 1) * B
  <2>1. ((k + q) + 1) * B = (k + q) * B + B
    BY <1>1
  <2> QED BY <1>1, <1>2, <1>4, <2>1
<1>6. y \div B = k + q
  BY <1>1, <1>3, <1>5, DivUnique
<1> DEFINE d == y \div B
           z == y % B
<1>7. z \in 0..B - 1 /\ y = B * d + z
  BY <1>3, DivMod
<1>8. B * (k + q) = k * B + B * q
  BY <1>1
<1>9. d = k + q
  BY <1>6
<1> HIDE DEF y, d, z
<1>10. z = m
  <2>1. y = B * (k + q) + z /\ z \in Int
    BY <1>7, <1>9
  <2>2. y = k * B + x
    BY DEF y
  <2>3. y = k * B + B * q + m /\ y = k * B + B * q + z
    BY <1>1, <1>2, <1>8, <2>1, <2>2
  <2> DEFINE u == k * B + B * q
  <2>4. u \in Nat
    BY <1>1
  <2> HIDE DEF u
  <2>5. y = u + m /\ y = u + z
    BY <1>1, <2>3 DEF u
  <2> QED BY <1>1, <2>1, <2>4, <2>5
<1> QED BY <1>3, <1>9, <1>10, <1>6 DEF q, m, y, d, z

(* In a chain without repetitions, the same block is at the same place. *)
LEMMA SameBlock ==
  ASSUME NEW S, NEW c \in Seq(S), IsInjective(c), NEW i \in 0..Len(c) - 1, NEW j \in 0..Len(c) - 1,
         c[i + 1] = c[j + 1]
  PROVE  i = j
<1>1. i + 1 \in DOMAIN c /\ j + 1 \in DOMAIN c
  OBVIOUS
<1>2. i + 1 = j + 1
  BY <1>1 DEF IsInjective
<1> QED BY <1>2

(* Different bytes of a chain of different blocks have different places.   *)
LEMMA PlacesDiffer ==
  ASSUME NEW S, NEW c \in Seq(S), IsInjective(c), NEW B \in Nat \ {0},
         NEW p \in Nat, NEW q \in Nat,
         p \div B \in 0..Len(c) - 1, q \div B \in 0..Len(c) - 1,
         <<c[p \div B + 1], p % B>> = <<c[q \div B + 1], q % B>>
  PROVE  p = q
<1> DEFINE i == p \div B
           j == q \div B
           m == p % B
           n == q % B
<1>1. i \in Nat /\ p = B * i + m /\ j \in Nat /\ q = B * j + n
  BY DivMod
<1>2. c[i + 1] = c[j + 1] /\ m = n
  OBVIOUS
<1>3. i \in 0..Len(c) - 1 /\ j \in 0..Len(c) - 1
  OBVIOUS
<1> HIDE DEF i, j, m, n
<1>4. i = j
  BY <1>2, <1>3, SameBlock
<1> QED BY <1>1, <1>2, <1>4

(* Byte p of a chain that holds e bytes is in one of its blocks.           *)
LEMMA PlaceInChain ==
  ASSUME NEW B \in Nat \ {0}, NEW L \in Nat, NEW p \in Nat, p < L * B
  PROVE  p \div B \in 0..L - 1 /\ p % B \in 0..B - 1
<1>1. p \div B \in Nat /\ p % B \in 0..B - 1 /\ p = B * (p \div B) + (p % B)
  BY DivMod
<1> DEFINE q == p \div B
<1>2. q \in Nat /\ q * B < L * B
  <2>1. q \in Nat /\ q * B = B * q /\ B * q <= p
    BY <1>1
  <2> HIDE DEF q
  <2>2. q * B \in Int /\ L * B \in Int
    BY <2>1
  <2> QED BY <2>1, <2>2
<1> HIDE DEF q
<1>3. q < L
  BY <1>2, TimesMonotone
<1> QED BY <1>1, <1>2, <1>3 DEF q

(* The community modules define Min by CHOOSE: a least number there is.     *)
LEMMA LeastNumber ==
  ASSUME NEW S, S \subseteq Nat, S # {}
  PROVE  Min(S) \in S /\ \A y \in S : Min(S) <= y
<1> PICK n \in S : TRUE
  OBVIOUS
<1> DEFINE T == S \intersect 0..n
           Below(x) == {y \in T : y < x}
           rank == [x \in T |-> Cardinality(Below(x))]
           c == Cardinality(T)
<1>1. IsFiniteSet(T) /\ c \in Nat /\ n \in T /\ T \subseteq Nat
  <2>1. IsFiniteSet(0..n)
    BY FS_Interval
  <2>2. IsFiniteSet(T)
    BY <2>1, FS_Subset
  <2>3. n \in T /\ T \subseteq Nat
    OBVIOUS
  <2> HIDE DEF T
  <2> QED BY <2>2, <2>3, FS_CardinalityType
<1> HIDE DEF T
<1>2. \A x \in T : IsFiniteSet(Below(x)) /\ rank[x] \in Nat /\ rank[x] < c
  <2> SUFFICES ASSUME NEW x \in T
               PROVE  IsFiniteSet(Below(x)) /\ Cardinality(Below(x)) \in Nat /\ Cardinality(Below(x)) < c
    OBVIOUS
  <2>1. Below(x) \subseteq T /\ Below(x) # T
    BY <1>1
  <2> HIDE DEF Below
  <2> QED BY <1>1, <2>1, FS_Subset, FS_CardinalityType
<1>3. \A x, y \in T : x < y => rank[x] < rank[y]
  <2> SUFFICES ASSUME NEW x \in T, NEW y \in T, x < y
               PROVE  Cardinality(Below(x)) < Cardinality(Below(y))
    OBVIOUS
  <2>1. \A z \in T : z < x => z < y
    BY <1>1
  <2>2. x \in Nat /\ y \in Nat /\ ~(x < x)
    BY <1>1
  <2>3. Below(x) \subseteq Below(y) /\ x \in Below(y) /\ x \notin Below(x)
    BY <2>1, <2>2
  <2>4. IsFiniteSet(Below(y))
    BY <1>2
  <2> HIDE DEF Below
  <2>5. Below(x) # Below(y)
    BY <2>3
  <2>6. /\ IsFiniteSet(Below(x)) /\ Cardinality(Below(x)) <= Cardinality(Below(y))
        /\ Cardinality(Below(x)) # Cardinality(Below(y))
    BY <2>3, <2>4, <2>5, FS_Subset
  <2>7. Cardinality(Below(x)) \in Nat /\ Cardinality(Below(y)) \in Nat
    BY <2>4, <2>6, FS_CardinalityType
  <2> QED BY <2>6, <2>7
<1> HIDE DEF Below
<1>4. rank \in Bijection(T, Range(rank))
  <2>1. \A x, y \in T : rank[x] = rank[y] => x = y
    BY <1>1, <1>2, <1>3
  <2> QED BY <2>1 DEF Bijection, Injection, Surjection, Range, IsInjective
<1>5. Cardinality(Range(rank)) = c
  <2> HIDE DEF rank, c
  <2>1. ExistsBijection(T, Range(rank))
    BY <1>4 DEF ExistsBijection
  <2>2. Cardinality(T) = Cardinality(Range(rank))
    BY <1>1, <2>1, FS_Bijection
  <2> QED BY <2>2 DEF c
<1>6. Range(rank) \subseteq 0..c - 1
  BY <1>1, <1>2 DEF Range
<1>7. IsFiniteSet(0..c - 1) /\ Cardinality(0..c - 1) = c
  <2> HIDE DEF c
  <2>1. 0 \in Int /\ c - 1 \in Int
    BY <1>1
  <2>2. /\ IsFiniteSet(0..c - 1)
        /\ Cardinality(0..c - 1) = IF 0 > c - 1 THEN 0 ELSE (c - 1) - 0 + 1
    BY <2>1, FS_Interval
  <2> QED BY <1>1, <2>2
<1>8. 0 \in 0..c - 1
  BY <1>1, <1>2
<1>9. Range(rank) = 0..c - 1
  <2> HIDE DEF rank, c
  <2> QED BY <1>5, <1>6, <1>7, FS_Subset
<1>10. PICK x \in T : Cardinality(Below(x)) = 0
  BY <1>8, <1>9 DEF Range
<1>11. Below(x) = {}
  BY <1>2, <1>10, FS_EmptySet
<1>12. \A y \in S : x <= y
  BY <1>1, <1>11 DEF Below, T
<1>13. x \in S
  BY DEF T
<1> QED BY <1>12, <1>13 DEF Min

(* 1..n has n elements. *)
LEMMA IntervalCount ==
  ASSUME NEW n \in Nat
  PROVE  IsFiniteSet(1..n) /\ Cardinality(1..n) = n
<1>1. 1 \in Int /\ n \in Int
  OBVIOUS
<1>2. IsFiniteSet(1..n) /\ Cardinality(1..n) = IF 1 > n THEN 0 ELSE n - 1 + 1
  BY <1>1, FS_Interval, Zenon
<1> QED BY <1>2

-----------------------------------------------------------------------------
(* Flattening: the lines of a file, in one row. *)

(* Where the lines of a file end in the row of its tokens. *)
LineEnds(lines, tokens, e) ==
  /\ e \in [0..Len(lines) -> Nat] /\ e[0] = 0
  /\ Len(tokens) = e[Len(lines)]
  /\ \A l \in 1..Len(lines) :
       /\ e[l] = e[l - 1] + Len(lines[l]) /\ e[l] <= e[Len(lines)]
       /\ \A i \in 1..Len(lines[l]) : tokens[e[l - 1] + i] = lines[l][i]

(* The flattening of a file is defined. *)
LEMMA FlatExists ==
  ASSUME NEW lines, NEW k \in Nat
  PROVE  \E f : f = [i \in 1..k |-> IF i = 1 THEN lines[i] ELSE f[i - 1] \o lines[i]]
<1> DEFINE Made(j) == \E f : f = [i \in 1..j |-> IF i = 1 THEN lines[i] ELSE f[i - 1] \o lines[i]]
           bad == {j \in Nat : ~Made(j)}
<1>1. SUFFICES ASSUME bad # {} PROVE FALSE
  OBVIOUS
<1>2. PICK j \in bad : \A y \in bad : j <= y
  <2>1. bad \subseteq Nat
    OBVIOUS
  <2> HIDE DEF bad
  <2> QED BY <2>1, <1>1, LeastNumber
<1>3. j \in Nat /\ ~Made(j)
  BY <1>2
<1>4. Made(0)
  <2> DEFINE f == [i \in 1..0 |-> lines[i]]
  <2>1. f = [i \in 1..0 |-> IF i = 1 THEN lines[i] ELSE f[i - 1] \o lines[i]]
    OBVIOUS
  <2> HIDE DEF f
  <2> QED BY <2>1
<1>5. j - 1 \in Nat
  <2> HIDE DEF Made
  <2>1. j # 0
    BY <1>3, <1>4
  <2> QED BY <1>3, <2>1
<1>6. Made(j - 1)
  <2> HIDE DEF Made
  <2>1. j - 1 \notin bad
    <3>1. ~(j <= j - 1)
      BY <1>3
    <3> HIDE DEF bad
    <3> QED BY <1>2, <3>1
  <2> QED BY <1>5, <2>1
<1>7. PICK f : f = [i \in 1..j - 1 |-> IF i = 1 THEN lines[i] ELSE f[i - 1] \o lines[i]]
  BY <1>6
<1> DEFINE last == IF j = 1 THEN lines[j] ELSE f[j - 1] \o lines[j]
           g == [i \in 1..j |-> IF i \in 1..j - 1 THEN f[i] ELSE last]
<1>8. g = [i \in 1..j |-> IF i = 1 THEN lines[i] ELSE g[i - 1] \o lines[i]]
  <2>1. ASSUME NEW i \in 1..j PROVE g[i] = IF i = 1 THEN lines[i] ELSE g[i - 1] \o lines[i]
    <3>1. CASE i \in 1..j - 1
      <4>1. f[i] = IF i = 1 THEN lines[i] ELSE f[i - 1] \o lines[i]
        BY <1>7, <3>1
      <4>2. g[i] = f[i] /\ (i # 1 => g[i - 1] = f[i - 1])
        BY <1>5, <3>1
      <4> QED BY <4>1, <4>2
    <3>2. CASE i = j
      <4>1. g[i] = last /\ (i # 1 => g[i - 1] = f[i - 1])
        BY <1>3, <1>5, <3>2
      <4> HIDE DEF g
      <4> QED BY <4>1, <3>2
    <3> QED BY <1>5, <3>1, <3>2
  <2>2. g = [i \in 1..j |-> g[i]]
    OBVIOUS
  <2> HIDE DEF g
  <2> QED BY <2>1, <2>2
<1> HIDE DEF g
<1>9. Made(j)
  BY <1>8
<1> QED
  BY <1>3, <1>9

(* The tokens of a file are those of its lines, one after the other. *)
LEMMA FlatPlaces ==
  ASSUME NEW S, NEW lines \in Seq(Seq(S))
  PROVE  /\ FlattenSeq(lines) \in Seq(S)
         /\ \E e : LineEnds(lines, FlattenSeq(lines), e)
<1> DEFINE k == Len(lines)
           f == CHOOSE f : f = [i \in 1..k |-> IF i = 1 THEN lines[i] ELSE f[i - 1] \o lines[i]]
           e == [l \in 0..k |-> IF l = 0 THEN 0 ELSE Len(f[l])]
<1>1. CASE k = 0
  <2>1. lines = <<>>
    BY <1>1
  <2>2. FlattenSeq(lines) = lines
    BY <1>1 DEF FlattenSeq
  <2>3. <<>> \in Seq(S)
    OBVIOUS
  <2>4. FlattenSeq(lines) = <<>>
    BY <2>1, <2>2, Zenon
  <2> DEFINE z == [l \in 0..0 |-> 0]
  <2>5. z \in [0..0 -> Nat] /\ z[0] = 0
    OBVIOUS
  <2> HIDE DEF z
  <2>6. LineEnds(lines, <<>>, z)
    BY <2>1, <2>5 DEF LineEnds
  <2>7. \E q : LineEnds(lines, FlattenSeq(lines), q)
    BY <2>4, <2>6, Zenon
  <2> QED BY <2>3, <2>4, <2>7, Zenon
<1>2. CASE k # 0
  <2>1. FlattenSeq(lines) = f[k]
    BY <1>2, Zenon DEF FlattenSeq
  <2>2. k \in Nat /\ k \in 1..k /\ \A i \in 1..k : lines[i] \in Seq(S)
    BY <1>2
  <2> HIDE DEF k
  <2>3. f = [i \in 1..k |-> IF i = 1 THEN lines[i] ELSE f[i - 1] \o lines[i]]
    <3>1. k \in Nat
      BY <2>2
    <3> QED BY <3>1, FlatExists, Zenon
  <2> HIDE DEF f
  <2>4. /\ f[1] = lines[1]
        /\ \A i \in 2..k : f[i] = f[i - 1] \o lines[i]
    <3>1. 1 \in 1..k /\ \A i \in 2..k : i \in 1..k /\ i # 1
      BY <2>2
    <3>2. \A i \in 1..k : f[i] = IF i = 1 THEN lines[i] ELSE f[i - 1] \o lines[i]
      BY <2>3
    <3> QED BY <3>1, <3>2
  <2> DEFINE Prefix(m) ==
               /\ f[m] \in Seq(S)
               /\ e[m] = e[m - 1] + Len(lines[m])
               /\ \A l \in 1..m : /\ e[l] <= e[m]
                                  /\ \A i \in 1..Len(lines[l]) : f[m][e[l - 1] + i] = lines[l][i]
             bad == {m \in 1..k : ~Prefix(m)}
  <2>5. Prefix(1)
    <3>1. f[1] \in Seq(S) /\ e[1] = Len(f[1]) /\ e[0] = 0 /\ 1..1 = {1}
      BY <2>2, <2>4
    <3> HIDE DEF e
    <3> QED BY <2>2, <2>4, <3>1
  <2>6. ASSUME NEW m \in 2..k, \A y \in 1..m - 1 : Prefix(y)
        PROVE  Prefix(m)
    <3> DEFINE a == f[m - 1]
               b == lines[m]
    <3>1. m - 1 \in 1..m - 1 /\ m - 1 \in 1..k /\ m \in 1..k /\ m \in Nat
      BY <2>2
    <3>2. Prefix(m - 1)
      BY <2>6, <3>1
    <3>3. f[m] = a \o b
      BY <2>4
    <3>4. a \in Seq(S) /\ b \in Seq(S)
      BY <2>2, <3>1, <3>2
    <3>5. e[m - 1] = Len(a) /\ e[m] = Len(f[m])
      BY <2>2, <3>1
    <3>g. e[0] = 0 /\ \A l \in 1..k : e[l] = Len(f[l])
      BY <2>2
    <3> HIDE DEF a, b, e
    <3>6. a \o b \in Seq(S) /\ Len(a \o b) = Len(a) + Len(b)
      BY <3>4
    <3>7. /\ \A i \in 1..Len(a) : (a \o b)[i] = a[i]
          /\ \A i \in 1..Len(b) : (a \o b)[Len(a) + i] = b[i]
      BY <3>4, ConcatElements
    <3>8. e[m] = e[m - 1] + Len(b) /\ e[m - 1] \in Nat /\ Len(b) \in Nat
      BY <3>3, <3>4, <3>5, <3>6
    <3>9. ASSUME NEW l \in 1..m - 1
          PROVE  e[l] <= e[m] /\ \A i \in 1..Len(lines[l]) : f[m][e[l - 1] + i] = lines[l][i]
      <4>1. /\ e[l] <= e[m - 1]
            /\ \A i \in 1..Len(lines[l]) : a[e[l - 1] + i] = lines[l][i]
        BY <3>1, <3>2 DEF a
      <4>2. l \in 1..k /\ Prefix(l)
        BY <2>2, <2>6
      <4>3. e[l] = e[l - 1] + Len(lines[l]) /\ e[l] \in Nat /\ Len(lines[l]) \in Nat
        <5>1. f[l] \in Seq(S) /\ e[l] = Len(f[l]) /\ lines[l] \in Seq(S)
          BY <2>2, <3>g, <4>2
        <5> QED BY <4>2, <5>1
      <4>4. e[l - 1] \in Nat
        <5>1. CASE l = 1
          BY <3>g, <5>1
        <5>2. CASE l # 1
          <6>1. l - 1 \in 1..m - 1 /\ l - 1 \in 1..k
            BY <2>2, <5>2
          <6>2. f[l - 1] \in Seq(S)
            BY <2>6, <6>1
          <6>3. e[l - 1] = Len(f[l - 1])
            BY <3>g, <6>1
          <6> QED BY <6>2, <6>3
        <5> QED BY <5>1, <5>2
      <4>5. ASSUME NEW i \in 1..Len(lines[l]) PROVE f[m][e[l - 1] + i] = lines[l][i]
        <5> DEFINE u == e[l - 1]
                   v == e[l]
                   w == e[m - 1]
                   x == Len(lines[l])
        <5>u. v = u + x /\ u \in Nat /\ x \in Nat /\ v <= w /\ w = Len(a) /\ i \in 1..x
          BY <3>5, <4>1, <4>3, <4>4
        <5> HIDE DEF u, v, w, x
        <5>v. u + i \in 1..w
          BY <5>u, <3>8 DEF w
        <5>1. e[l - 1] + i \in 1..Len(a)
          BY <5>u, <5>v DEF u
        <5> QED BY <3>3, <3>7, <4>1, <5>1
      <4>6. e[l] <= e[m]
        BY <3>8, <4>1, <4>3
      <4> QED BY <4>5, <4>6
    <3>10. \A i \in 1..Len(lines[m]) : f[m][e[m - 1] + i] = lines[m][i]
      BY <3>3, <3>5, <3>7 DEF b
    <3>11. \A l \in 1..m : l \in 1..m - 1 \/ l = m
      BY <3>1
    <3>12. e[m] <= e[m]
      BY <3>8
    <3> QED BY <3>3, <3>6, <3>8, <3>9, <3>10, <3>11, <3>12 DEF b
  <2>7. bad = {}
    <3> HIDE DEF Prefix
    <3> SUFFICES ASSUME bad # {} PROVE FALSE
      OBVIOUS
    <3>1. PICK m \in bad : \A y \in bad : m <= y
      <4>1. bad \subseteq Nat
        BY <2>2
      <4> HIDE DEF bad
      <4> QED BY <4>1, LeastNumber
    <3>2. m \in 1..k /\ ~Prefix(m)
      BY <3>1
    <3>3. m \in 2..k
      BY <2>2, <2>5, <3>2
    <3>4. \A y \in 1..m - 1 : y \in 1..k /\ ~(m <= y)
      BY <2>2, <3>2
    <3>5. \A y \in 1..m - 1 : y \notin bad
      <4> HIDE DEF bad
      <4> QED BY <3>1, <3>4
    <3>6. \A y \in 1..m - 1 : Prefix(y)
      BY <3>4, <3>5
    <3> QED BY <2>6, <3>2, <3>3, <3>6
  <2>8. \A m \in 1..k : Prefix(m)
    <3> HIDE DEF Prefix
    <3> QED BY <2>7
  <2>9. e[k] = Len(f[k]) /\ f[k] \in Seq(S)
    <3>1. Prefix(k)
      <4> HIDE DEF Prefix
      <4> QED BY <2>2, <2>8
    <3>2. f[k] \in Seq(S)
      BY <3>1
    <3>3. k \in 0..k /\ k # 0
      BY <2>2
    <3> QED BY <3>2, <3>3
  <2>10. e \in [0..k -> Nat] /\ e[0] = 0
    <3>1. \A l \in 1..k : f[l] \in Seq(S)
      BY <2>8
    <3>2. \A l \in 1..k : Len(f[l]) \in Nat
      BY <3>1
    <3>3. \A l \in 0..k : l # 0 => l \in 1..k
      BY <2>2
    <3> QED BY <2>2, <3>2, <3>3
  <2> HIDE DEF e
  <2>11. LineEnds(lines, f[k], e)
    BY <2>2, <2>8, <2>9, <2>10 DEF LineEnds, k
  <2>12. LineEnds(lines, FlattenSeq(lines), e)
    BY <2>1, <2>11, Zenon
  <2>13. FlattenSeq(lines) \in Seq(S)
    BY <2>1, <2>9, Zenon
  <2> QED BY <2>12, <2>13
<1> QED
  BY <1>1, <1>2
=============================================================================
