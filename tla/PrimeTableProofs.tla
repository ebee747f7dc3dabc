-------------------------- MODULE PrimeTableProofs --------------------------
(***************************************************************************)
(* Proofs about PrimeTable, for every width of the integers: the table is  *)
(* exactly the primes for every limit for which nothing wraps, and the     *)
(* program stays in the memory it allocated for every limit for which the  *)
(* size of that memory does not wrap.                                      *)
(***************************************************************************)
EXTENDS PrimeTable, FiniteSetTheorems, WellFoundedInduction, TLAPS

-----------------------------------------------------------------------------
(* Natural numbers. *)

LEMMA Least ==
  ASSUME NEW T, T \subseteq Nat, T # {}
  PROVE  \E m \in T : \A k \in T : m <= k
<1> DEFINE R == OpToRel(<, Nat)
<1>1. IsWellFoundedOn(R, Nat)
  BY NatLessThanWellFounded
<1> HIDE DEF R
<1>2. PICK m \in T : \A k \in T : ~(<<k, m>> \in R)
  BY <1>1, WFMin
<1>3. \A k \in T : ~(k < m)
  <2> TAKE k \in T
  <2>1. <<k, m>> \in Nat \X Nat
    OBVIOUS
  <2>2. k < m => <<k, m>> \in R
    BY <2>1 DEF R, OpToRel
  <2> QED BY <1>2, <2>2
<1> QED BY <1>2, <1>3

LEMMA Induction ==
  ASSUME NEW T, 0 \in T, \A n \in Nat : n \in T => n + 1 \in T
  PROVE  Nat \subseteq T
<1> SUFFICES ASSUME Nat \ T # {} PROVE FALSE
  OBVIOUS
<1>1. PICK m \in Nat \ T : \A k \in Nat \ T : m <= k
  BY Least
<1>2. m # 0 /\ m - 1 \in Nat /\ m - 1 \in T
  BY <1>1
<1> QED BY <1>1, <1>2

(* Powers of 2 as numbers of subsets. *)
LEMMA Power ==
  ASSUME NEW n \in Nat
  PROVE  /\ 2^n \in Nat \ {0}
         /\ IsFiniteSet(SUBSET (1..n)) /\ Cardinality(SUBSET (1..n)) = 2^n
<1>1. IsFiniteSet(1..n) /\ Cardinality(1..n) = n
  BY FS_Interval
<1>2. IsFiniteSet(SUBSET (1..n)) /\ Cardinality(SUBSET (1..n)) = 2^n
  BY <1>1, FS_SUBSET
<1>3. 2^n \in Nat
  BY <1>2, FS_CardinalityType
<1>4. 2^n # 0
  BY <1>2, FS_EmptySet
<1> QED BY <1>2, <1>3, <1>4

(* A subset of 1..(a + b) is a subset of 1..a and one of 1..b. *)
LEMMA PowerSum ==
  ASSUME NEW a \in Nat, NEW b \in Nat
  PROVE  2^(a + b) = 2^a * 2^b
<1> DEFINE S == SUBSET (1..a)
           T == SUBSET (1..b)
           U == SUBSET (1..(a + b))
           g == [p \in S \X T |-> p[1] \cup {x \in 1..(a + b) : x - a \in p[2]}]
<1>1. IsFiniteSet(S \X T) /\ Cardinality(S \X T) = 2^a * 2^b
  <2>1. IsFiniteSet(S) /\ Cardinality(S) = 2^a
    BY Power
  <2>2. IsFiniteSet(T) /\ Cardinality(T) = 2^b
    BY Power
  <2> HIDE DEF S, T
  <2> QED BY <2>1, <2>2, FS_Product
<1>2. IsFiniteSet(U) /\ Cardinality(U) = 2^(a + b)
  BY Power
<1>3. g \in [S \X T -> U]
  <2> SUFFICES ASSUME NEW p \in S \X T PROVE g[p] \in U
    OBVIOUS
  <2>1. p[1] \subseteq 1..a
    OBVIOUS
  <2> QED BY <2>1
<1>4. ASSUME NEW p \in S \X T, NEW q \in S \X T, g[p] = g[q]
      PROVE  p = q
  <2>1. \A x \in 1..a : (x \in p[1] <=> x \in g[p]) /\ (x \in q[1] <=> x \in g[q])
    OBVIOUS
  <2>2. \A x \in 1..b : x \in p[2] <=> x + a \in g[p]
    OBVIOUS
  <2>3. \A x \in 1..b : x \in q[2] <=> x + a \in g[q]
    OBVIOUS
  <2>4. p[1] = q[1]
    BY <1>4, <2>1
  <2>5. p[2] = q[2]
    BY <1>4, <2>2, <2>3
  <2> QED BY <2>4, <2>5
<1>5. ASSUME NEW u \in U PROVE \E p \in S \X T : g[p] = u
  <2> DEFINE p == <<u \cap (1..a), {x \in 1..b : x + a \in u}>>
  <2>1. p \in S \X T
    OBVIOUS
  <2>2. g[p] = p[1] \cup {x \in 1..(a + b) : x - a \in p[2]}
    BY <2>1
  <2>3. \A x \in 1..(a + b) : x \in g[p] <=> x \in u
    <3> SUFFICES ASSUME NEW x \in 1..(a + b) PROVE x \in g[p] <=> x \in u
      OBVIOUS
    <3>1. CASE x <= a
      BY <2>2, <3>1
    <3>2. CASE x > a
      <4>1. x - a \in 1..b /\ (x - a) + a = x
        BY <3>2
      <4> QED BY <2>2, <3>2, <4>1
    <3> QED BY <3>1, <3>2
  <2>4. g[p] = u
    BY <1>3, <2>1, <2>3
  <2> QED BY <2>1, <2>4
<1>6. g \in Bijection(S \X T, U)
  BY <1>3, <1>4, <1>5 DEF Bijection, Injection, Surjection, IsInjective
<1> HIDE DEF S, T, U, g
<1>7. Cardinality(S \X T) = Cardinality(U)
  BY <1>1, <1>2, <1>6, FS_Bijection DEF ExistsBijection
<1> QED BY <1>1, <1>2, <1>7

LEMMA SquareOfHalf ==
  ASSUME NEW w \in Nat, NEW h \in Nat, 2 * h <= w
  PROVE  2^h * 2^h <= 2^w
<1> DEFINE rest == w - 2 * h
<1>1. rest \in Nat /\ h + h \in Nat /\ (h + h) + rest = w
  OBVIOUS
<1>2. 2^w = 2^(h + h) * 2^rest /\ 2^(h + h) = 2^h * 2^h
  <2> HIDE DEF rest
  <2> QED BY <1>1, PowerSum
<1>3. 2^rest \in Nat \ {0} /\ 2^(h + h) \in Nat
  BY <1>1, Power
<1>4. \A x \in Nat, y \in Nat \ {0} : x <= x * y
  OBVIOUS
<1> QED BY <1>2, <1>3, <1>4

(* Powers of 16 leave 1 by 15. *)
LEMMA PowerOf16 ==
  ASSUME NEW w \in Nat
  PROVE  \E q \in Nat : 2^(4 * w) = 15 * q + 1
<1> DEFINE T == {v \in Nat : \E q \in Nat : 2^(4 * v) = 15 * q + 1}
<1>1. 0 \in T
  <2>1. 4 * 0 = 0 /\ 2^0 = 15 * 0 + 1
    BY SMT
  <2> QED BY <2>1
<1>2. ASSUME NEW n \in Nat, n \in T PROVE n + 1 \in T
  <2>1. PICK q \in Nat : 2^(4 * n) = 15 * q + 1
    BY <1>2
  <2>2. 4 * (n + 1) = 4 * n + 4 /\ 4 * n \in Nat
    OBVIOUS
  <2>3. 2^(4 * n + 4) = 2^(4 * n) * 2^4
    BY <2>2, PowerSum
  <2>6. 2^4 = 16
    BY SMT
  <2>4. 2^(4 * (n + 1)) = (15 * q + 1) * 16
    BY <2>1, <2>2, <2>3, <2>6
  <2>5. (15 * q + 1) * 16 = 15 * (16 * q + 1) + 1 /\ 16 * q + 1 \in Nat
    OBVIOUS
  <2>7. \E r \in Nat : 2^(4 * (n + 1)) = 15 * r + 1
    <3> HIDE DEF T
    <3> QED BY <2>4, <2>5
  <2> QED BY <2>7
<1> HIDE DEF T
<1>3. Nat \subseteq T
  BY <1>1, <1>2, Induction
<1> QED BY <1>3 DEF T

(* Division with a remainder. *)
LEMMA Division ==
  ASSUME NEW n \in Nat, NEW d \in Nat \ {0}
  PROVE  /\ n \div d \in Nat /\ n % d \in 0..(d - 1)
         /\ n = d * (n \div d) + (n % d)
OBVIOUS

LEMMA Divides ==
  ASSUME NEW n \in Nat, NEW d \in Nat \ {0}
  PROVE  n % d = 0 <=> \E q \in Nat : n = d * q
<1>1. n % d = 0 => n = d * (n \div d) /\ n \div d \in Nat
  BY Division
<1>2. \A q \in Nat, r \in 0..(d - 1) : (d * q + r) % d = r
  OBVIOUS
<1>3. ASSUME NEW q \in Nat, n = d * q PROVE n % d = 0
  <2>1. d * q + 0 = n /\ 0 \in 0..(d - 1)
    BY <1>3
  <2> QED BY <1>2, <2>1
<1> QED BY <1>1, <1>3

LEMMA Products ==
  ASSUME NEW a \in Nat \ {0}, NEW b \in Nat \ {0}, NEW c \in Nat
  PROVE  /\ a * b \in Nat /\ a <= a * b /\ b <= a * b /\ a * b = b * a
         /\ c <= b => a * c <= a * b
         /\ a <= b => a * a <= a * b /\ a * a <= b * b
         /\ b >= 2 => a < a * b
         /\ a * (b + 1) = a * b + a
         /\ (a * b) * c = a * (b * c)
OBVIOUS

-----------------------------------------------------------------------------
(* The factors and the marks. *)

M == 2^W
H == 2^(W \div 2)
Composite(n) == \E a, b \in Nat \ {0, 1} : n = a * b

(* Every multiple of n from n * n on has its bit. *)
Marked(n) == \A b \in Nat : b >= n /\ n * b < limit => n * b \in vfComposite

(* The factors that nothing wraps for, and those whose marks are sound. *)
Tame(n) == n <= 7 \/ NoWrap
Sound == \/ nFactor < 7 \/ NoWrap
         \/ nFactor = 7 /\ pc # "mark"

TypeInv ==
  /\ pc \in {"factor", "mark", "collect", "done", "exit", "undefined"}
  /\ limit \in Nat /\ 2 <= limit /\ limit < M
  /\ nFactor \in Nat \ {0, 1} /\ nComposite \in Nat
  /\ vfComposite \subseteq 0..(limit - 1)

(* A number at which the factors end, for every limit there is memory for: *)
(* its square wraps to -7, which is a square modulo every power of 2.      *)
Stop == CHOOSE r \in Nat : 4 * r < M /\ (r * r) % M = M - 7

Ends ==
  /\ pc \in {"factor", "mark", "collect", "done"}
  /\ nFactor <= Stop
  /\ pc = "mark" => nFactor < Stop

(* The last seven limits: there is no memory, and nothing is done in it. *)
Unallocated ==
  /\ nFactor = 2 /\ vfComposite = {}
  /\ pc \in {"factor", "exit", "undefined"}

Marking ==
  \/ nFactor = 7 /\ ~NoWrap /\ Marked(7)
  \/ \E c \in Nat :
       /\ c >= nFactor /\ nComposite = nFactor * c
       /\ \A b \in nFactor..(c - 1) : nFactor * b \in vfComposite

Sieving ==
  /\ \A n \in 2..(nFactor - 1) : Tame(n) => Marked(n)
  /\ NoWrap => (nFactor - 1) * (nFactor - 1) < limit
  /\ Sound => \A n \in vfComposite : Composite(n)
  /\ pc = "mark" /\ Tame(nFactor) =>
       nFactor * nFactor < limit /\ nFactor \notin {4, 6} /\ Marking
  /\ pc \in {"collect", "done"} =>
       \A n \in Nat \ {0, 1} : n \in {2, 3, 5, 7} \/ NoWrap => Marked(n)

MarksInv == IF SizeFits THEN Sieving /\ Ends ELSE Unallocated

(* 30 numbers in a row have eight without the factors 2, 3 and 5, and one  *)
(* in seven of those has the factor 7.                                     *)
Rank(r) == (IF r >= 1 THEN 1 ELSE 0) + (IF r >= 7 THEN 1 ELSE 0)
         + (IF r >= 11 THEN 1 ELSE 0) + (IF r >= 13 THEN 1 ELSE 0)
         + (IF r >= 17 THEN 1 ELSE 0) + (IF r >= 19 THEN 1 ELSE 0)
         + (IF r >= 23 THEN 1 ELSE 0) + (IF r >= 29 THEN 1 ELSE 0)
Wheel(n) == 8 * (n \div 30) + Rank(n % 30)
Slots(n) == (Wheel(n) - Wheel(n \div 7))
          + (IF n >= 2 THEN 1 ELSE 0) + (IF n >= 3 THEN 1 ELSE 0)
          + (IF n >= 5 THEN 1 ELSE 0) + (IF n >= 7 THEN 1 ELSE 0)
Free(n) == \A d \in {2, 3, 5, 7} : n % d = 0 => n = d

TableInv ==
  /\ table \in Seq(2..(limit - 1))
  /\ pc \in {"factor", "mark"} => table = <<>>
  /\ {table[k] : k \in DOMAIN table} =
       {n \in 2..(limit - 1) :
          n \notin vfComposite /\ table # <<>> /\ n <= table[Len(table)]}
  /\ \A k \in 1..(Len(table) - 1) : table[k] < table[k + 1]
  /\ table # <<>> => Len(table) <= Slots(table[Len(table)])
  /\ pc = "done" => Uncollected = {}

Inv == TypeInv /\ MarksInv /\ TableInv

LEMMA Widths ==
  /\ M \in Nat /\ M >= 256 /\ H \in Nat /\ H >= 16 /\ H * H <= M /\ M = H * H
  /\ \E q \in Nat : M = 2 * q
  /\ \E q \in Nat : M = 15 * q + 1
<1>1. PICK k \in Nat \ {0} : W = 8 * k
  <2>1. W \in Nat /\ W # 0 /\ W % 8 = 0
    BY TableAssumption
  <2>2. \E q \in Nat : W = 8 * q
    BY <2>1, Divides
  <2> QED BY <2>1, <2>2
<1>2. W \div 2 = 4 * k
  BY <1>1
<1>3. PICK q \in Nat : 2^(4 * k) = 15 * q + 1
  BY PowerOf16
<1>4. PICK r \in Nat : 2^(4 * (2 * k)) = 15 * r + 1
  <2>1. 2 * k \in Nat
    OBVIOUS
  <2> QED BY <2>1, PowerOf16
<1>5. 4 * (2 * k) = W
  BY <1>1
<1>6. PICK s \in Nat : 2^(4 * k) = 16 * s /\ s # 0
  <2>1. 4 * (k - 1) \in Nat /\ 4 * (k - 1) + 4 = 4 * k
    OBVIOUS
  <2>2. 2^(4 * (k - 1) + 4) = 2^(4 * (k - 1)) * 2^4
    BY <2>1, PowerSum
  <2>3. 2^4 = 16
    BY SMT
  <2>4. 2^(4 * (k - 1)) \in Nat \ {0}
    BY <2>1, Power
  <2> QED BY <2>1, <2>2, <2>3, <2>4
<1>7. 4 * k + 4 * k = W /\ 4 * k \in Nat
  BY <1>1
<1>8. 2^W = 2^(4 * k) * 2^(4 * k)
  BY <1>7, PowerSum
<1>9. H = 16 * s /\ M = H * H /\ M = 15 * r + 1
  BY <1>2, <1>4, <1>5, <1>6, <1>8 DEF H, M
<1>10. (16 * s) * (16 * s) = 2 * (128 * (s * s)) /\ 128 * (s * s) \in Nat
       /\ s * s >= 1
  BY <1>6
<1> QED BY <1>9, <1>10, <1>6

LEMMA WrapFits ==
  ASSUME NEW n \in Nat
  PROVE  /\ Wrap(n) \in 0..(M - 1)
         /\ n < M => Wrap(n) = n
<1>1. M \in Nat \ {0} /\ Wrap(n) = n % M
  BY Widths DEF Wrap, M
<1> QED BY <1>1

(* A root of -7 modulo 2^(k + 3), odd and below 2^(k + 1): from one power  *)
(* of 2 to the next it stays, or is taken from 2^(k + 2).                  *)
RootAt(k, n, q) ==
  /\ n % 2 = 1 /\ n < 2^(k + 1) /\ n * n + 7 = 4 * (2^(k + 1) * q)

LEMMA RootStep ==
  ASSUME NEW k \in Nat, NEW n \in Nat, NEW q \in Nat, RootAt(k, n, q)
  PROVE  \E m, r \in Nat : RootAt(k + 1, m, r)
<1>1. PICK p \in Nat : p = 2^k /\ 2^(k + 1) = 2 * p /\ 2^((k + 1) + 1) = 4 * p
  <2>1. 2^1 = 2 /\ 2^2 = 4
    BY SMT
  <2>2. 2^k \in Nat
    BY Power
  <2>3. 2^(k + 1) = 2^k * 2^1 /\ 2^(k + 2) = 2^k * 2^2
    <3>1. 1 \in Nat /\ 2 \in Nat
      OBVIOUS
    <3> QED BY <3>1, PowerSum, Zenon
  <2>4. (k + 1) + 1 = k + 2
    OBVIOUS
  <2> QED BY <2>1, <2>2, <2>3, <2>4
<1>2. n % 2 = 1 /\ n < 2 * p /\ n * n + 7 = 4 * ((2 * p) * q)
  BY <1>1 DEF RootAt
<1>3. CASE q % 2 = 0
  <2>1. PICK r \in Nat : q = 2 * r
    BY <1>3, Divides
  <2>2. 4 * ((2 * p) * q) = 4 * ((4 * p) * r)
    BY <2>1
  <2>3. n < 4 * p /\ n * n + 7 = 4 * ((4 * p) * r)
    BY <1>2, <2>2
  <2> QED BY <1>1, <1>2, <2>3 DEF RootAt
<1>4. CASE q % 2 = 1
  <2> DEFINE m == 4 * p - n
             s == (2 * p - n) + q
  <2>1. m \in Nat /\ m % 2 = 1 /\ m < 4 * p /\ s \in Nat /\ s % 2 = 0
    BY <1>2, <1>4
  <2>2. PICK r \in Nat : s = 2 * r
    <3> HIDE DEF m, s
    <3>1. \E r \in Nat : s = 2 * r
      BY <2>1, Divides
    <3> QED BY <3>1
  <2>3. m * m = (4 * p) * (4 * p) - 2 * ((4 * p) * n) + n * n
    OBVIOUS
  <2>4. m * m + 7 = (8 * p) * s
    <3>1. (8 * p) * s = (8 * p) * (2 * p) - (8 * p) * n + (8 * p) * q
      OBVIOUS
    <3>2. (4 * p) * (4 * p) = (8 * p) * (2 * p) /\ 2 * ((4 * p) * n) = (8 * p) * n
          /\ 4 * ((2 * p) * q) = (8 * p) * q
      OBVIOUS
    <3> HIDE DEF m, s
    <3> QED BY <1>2, <2>1, <2>3, <3>1, <3>2
  <2>5. (8 * p) * s = 4 * ((4 * p) * r)
    BY <2>2
  <2> HIDE DEF m, s
  <2>6. m \in Nat /\ m % 2 = 1 /\ m < 4 * p /\ m * m + 7 = 4 * ((4 * p) * r)
    BY <2>1, <2>4, <2>5
  <2> QED BY <1>1, <2>6 DEF RootAt
<1>5. q % 2 \in {0, 1}
  OBVIOUS
<1> QED BY <1>3, <1>4, <1>5

LEMMA StopExists ==
  Stop \in Nat /\ 2 <= Stop /\ 4 * Stop < M /\ Wrap(Stop * Stop) = M - 7
<1> DEFINE T == {k \in Nat : \E n, q \in Nat : RootAt(k, n, q)}
<1>1. 0 \in T
  <2>1. 2^(0 + 1) = 2
    BY SMT
  <2>2. 1 % 2 = 1 /\ 1 < 2 /\ 1 * 1 + 7 = 4 * (2 * 1)
    OBVIOUS
  <2>3. RootAt(0, 1, 1)
    BY <2>1, <2>2 DEF RootAt
  <2> QED BY <2>3
<1>2. ASSUME NEW k \in Nat, k \in T PROVE k + 1 \in T
  <2>1. PICK n, q \in Nat : RootAt(k, n, q)
    BY <1>2
  <2>2. \E m, r \in Nat : RootAt(k + 1, m, r)
    BY <2>1, RootStep
  <2> QED BY <2>2
<1> HIDE DEF T
<1>3. Nat \subseteq T
  BY <1>1, <1>2, Induction
<1>4. W - 3 \in Nat /\ (W - 3) + 1 = W - 2 /\ W - 2 \in Nat
  <2>1. W \in Nat /\ W # 0 /\ W % 8 = 0
    BY TableAssumption
  <2> QED BY <2>1
<1>5. PICK n, q \in Nat : RootAt(W - 3, n, q)
  BY <1>3, <1>4 DEF T
<1>6. M = 4 * 2^(W - 2) /\ 2^(W - 2) \in Nat
  <2>1. 2^2 = 4 /\ 2 \in Nat
    BY SMT
  <2>2. 2^((W - 2) + 2) = 2^(W - 2) * 2^2 /\ 2^(W - 2) \in Nat
    BY <1>4, <2>1, PowerSum, Power, Zenon
  <2>3. (W - 2) + 2 = W
    <3>1. W \in Nat
      BY TableAssumption
    <3> QED BY <3>1
  <2> QED BY <2>1, <2>2, <2>3 DEF M
<1>7. 4 * n < M /\ n * n + 7 = M * q
  <2>1. n < 2^(W - 2) /\ n * n + 7 = 4 * (2^(W - 2) * q)
    BY <1>4, <1>5 DEF RootAt
  <2> QED BY <1>6, <2>1
<1>8. M \in Nat /\ M >= 256
  BY Widths
<1>9. q # 0 /\ q - 1 \in Nat /\ n * n = M * (q - 1) + (M - 7)
  <2>1. q # 0
    BY <1>7, <1>8
  <2>2. M * (q - 1) = M * q - M
    BY <1>8
  <2>3. n * n \in Nat /\ M * q \in Nat
    BY <1>8
  <2> QED BY <1>7, <1>8, <2>1, <2>2, <2>3
<1>10. (n * n) % M = M - 7
  <2> DEFINE a == n * n
             d == M - 7
  <2>1. a \in Nat /\ d \in 0..(M - 1) /\ a = M * (q - 1) + d
    BY <1>8, <1>9
  <2> HIDE DEF a, d
  <2>2. a % M = d
    BY <1>8, <1>9, <2>1, Division
  <2> QED BY <2>2 DEF a, d
<1>11. Stop \in Nat /\ 4 * Stop < M /\ (Stop * Stop) % M = M - 7
  BY <1>7, <1>10 DEF Stop
<1>12. 2 <= Stop
  <2> SUFFICES ASSUME Stop \in {0, 1} PROVE FALSE
    BY <1>11
  <2>1. Stop * Stop \in {0, 1}
    OBVIOUS
  <2> QED BY <1>8, <1>11, <2>1
<1> QED BY <1>11, <1>12 DEF Wrap, M

LEMMA NoWrapMeans ==
  NoWrap <=> limit <= (H - 1) * (H - 1)
BY DEF NoWrap, H

(* The square of a tame factor does not wrap. *)
LEMMA SquareFits ==
  ASSUME TypeInv, Sieving, Tame(nFactor)
  PROVE  /\ nFactor * nFactor < M
         /\ Wrap(nFactor * nFactor) = nFactor * nFactor
         /\ Square(nFactor) = nFactor * nFactor
         /\ NoWrap => nFactor <= H - 1
<1> DEFINE n == nFactor
<1>1. n \in Nat /\ n >= 2 /\ limit \in Nat /\ M \in Nat /\ M >= 256
      /\ H \in Nat /\ H >= 16 /\ H * H <= M
  BY Widths DEF TypeInv
<1>2. NoWrap => n <= H - 1
  <2> SUFFICES ASSUME NoWrap PROVE n <= H - 1
    OBVIOUS
  <2>1. (n - 1) * (n - 1) < (H - 1) * (H - 1)
    <3>1. (n - 1) * (n - 1) < limit /\ limit <= (H - 1) * (H - 1)
      BY NoWrapMeans DEF Sieving
    <3> HIDE DEF n
    <3> QED BY <1>1, <3>1
  <2>2. \A x, y \in Nat : x * x < y * y => x < y
    OBVIOUS
  <2>3. n - 1 < H - 1
    BY <1>1, <2>1, <2>2
  <2> QED BY <1>1, <2>3
<1>3. n * n < M
  <2>1. CASE n <= 7
    <3>1. n * n <= 49
      BY <1>1, <2>1, Products
    <3> QED BY <1>1, <3>1
  <2>2. CASE NoWrap
    <3>1. n < H
      BY <1>1, <1>2, <2>2
    <3>2. n * n < H * H
      BY <1>1, <3>1
    <3> QED BY <1>1, <3>2
  <2> QED BY <2>1, <2>2 DEF Tame
<1> QED BY <1>1, <1>2, <1>3, WrapFits DEF Square

LEMMA MarkedKept ==
  ASSUME NEW n, Marked(n), limit' = limit, vfComposite \subseteq vfComposite'
  PROVE  Marked(n)'
BY DEF Marked

(* A composite number below a factor is passed over with its multiples marked. *)
LEMMA MultipleMarked ==
  ASSUME TypeInv, NEW a \in Nat \ {0, 1}, NEW b \in Nat \ {0, 1}, Marked(a)
  PROVE  Marked(a * b)
<1> SUFFICES ASSUME NEW c \in Nat, c >= a * b, (a * b) * c < limit
             PROVE  (a * b) * c \in vfComposite
  BY DEF Marked
<1>1. b * c \in Nat /\ c <= b * c /\ a <= a * b /\ (a * b) * c = a * (b * c)
  <2>1. c # 0
    OBVIOUS
  <2> QED BY <2>1, Products
<1>2. a <= b * c
  BY <1>1
<1> QED BY <1>1, <1>2 DEF Marked

LEMMA MarksInvInit ==
  ASSUME Init
  PROVE  TypeInv /\ MarksInv
<1>1. TypeInv
  BY TableAssumption DEF Init, TypeInv, M
<1>2. Unallocated
  BY DEF Init, Unallocated
<1>3. Sieving
  BY <1>1 DEF Init, Sieving, TypeInv
<1>4. Ends
  BY StopExists DEF Init, Ends
<1> QED BY <1>1, <1>2, <1>3, <1>4 DEF MarksInv

LEMMA TypeStep ==
  ASSUME TypeInv, [Next]_vars
  PROVE  TypeInv'
<1>1. CASE SkipFactor
  BY <1>1 DEF TypeInv, SkipFactor
<1>2. CASE TakeFactor
  <2>1. nFactor * nFactor \in Nat
    BY DEF TypeInv
  <2>2. Square(nFactor) \in Nat
    BY <2>1, WrapFits DEF Square
  <2> QED BY <1>2, <2>2 DEF TypeInv, TakeFactor
<1>3. CASE MarkComposite
  <2>1. Wrap(nComposite + nFactor) \in Nat
    BY WrapFits DEF TypeInv
  <2> QED BY <1>3, <2>1 DEF TypeInv, MarkComposite
<1>4. CASE NextFactor
  BY <1>4 DEF TypeInv, NextFactor
<1>5. CASE EndFactors
  BY <1>5 DEF TypeInv, EndFactors
<1>6. CASE Collect
  BY <1>6 DEF TypeInv, Collect
<1>7. CASE Done
  BY <1>7 DEF TypeInv, Done
<1>8. CASE UNCHANGED vars
  BY <1>8 DEF TypeInv, vars
<1>9. CASE AllocateNothing \/ AccessBeyond
  BY <1>9 DEF TypeInv, AllocateNothing, AccessBeyond
<1> QED BY <1>1, <1>2, <1>3, <1>4, <1>5, <1>6, <1>7, <1>8, <1>9 DEF Next

(* Where the memory is allocated, every flag is in it. *)
LEMMA AccessInMemory ==
  ASSUME TypeInv, SizeFits, Sieving, Ends
  PROVE  InMemory /\ Allocated # 0
<1>1. /\ limit \in Nat /\ 2 <= limit /\ limit + 7 < M /\ M \in Nat
      /\ nFactor \in Nat /\ nFactor >= 2 /\ nComposite \in Nat
  BY Widths DEF TypeInv, SizeFits, M
<1>2. Allocated = (limit + 7) \div 8
  BY <1>1, WrapFits DEF Allocated
<1>3. pc = "factor" /\ Wrap(nFactor * nFactor) < limit => nFactor < limit
  <2> SUFFICES ASSUME pc = "factor", Wrap(nFactor * nFactor) < limit
               PROVE  nFactor < limit
    OBVIOUS
  <2>1. CASE NoWrap
    <3>1. nFactor * nFactor < limit
      BY <2>1, SquareFits DEF Tame
    <3>2. nFactor <= nFactor * nFactor
      BY <1>1
    <3> QED BY <1>1, <3>1, <3>2
  <2>2. CASE ~NoWrap
    <3>1. H \in Nat /\ H >= 16 /\ M = H * H
      BY Widths
    <3>2. (H - 1) * (H - 1) = H * H - 2 * H + 1 /\ 16 * H <= H * H /\ H * H \in Nat
      BY <3>1
    <3>3. (H - 1) * (H - 1) < limit
      BY <1>1, <2>2, <3>1, NoWrapMeans
    <3>4. nFactor <= Stop /\ Stop \in Nat /\ 4 * Stop < M
      BY StopExists DEF Ends
    <3> QED BY <1>1, <3>1, <3>2, <3>3, <3>4
  <2> QED BY <2>1, <2>2
<1>4. \A n \in Accessed : n \in Nat /\ n < limit
  BY <1>1, <1>3 DEF Accessed
<1>5. \A n \in Nat : n < limit => n \div 8 < (limit + 7) \div 8
  BY <1>1
<1>6. (limit + 7) \div 8 # 0
  BY <1>1
<1> QED BY <1>2, <1>4, <1>5, <1>6 DEF InMemory

(* The factors end at Stop at the latest. *)
LEMMA EndsStep ==
  ASSUME TypeInv, SizeFits, Sieving, Ends, [Next]_vars
  PROVE  Ends'
<1>1. /\ Stop \in Nat /\ Wrap(Stop * Stop) = M - 7 /\ M \in Nat /\ M >= 256
      /\ limit \in Nat /\ limit + 7 < M /\ nFactor \in Nat
  BY StopExists, Widths DEF TypeInv, SizeFits, M
<1>2. Wrap(nFactor * nFactor) < limit => nFactor # Stop
  BY <1>1
<1>3. CASE SkipFactor \/ TakeFactor
  BY <1>1, <1>2, <1>3 DEF SkipFactor, TakeFactor, Ends
<1>4. CASE MarkComposite \/ EndFactors \/ Collect \/ Done \/ UNCHANGED vars
  BY <1>4 DEF MarkComposite, EndFactors, Collect, Done, vars, Ends
<1>5. CASE NextFactor
  BY <1>1, <1>5 DEF NextFactor, Ends
<1>6. ~AllocateNothing /\ ~AccessBeyond
  BY AccessInMemory DEF AllocateNothing, AccessBeyond
<1> QED BY <1>3, <1>4, <1>5, <1>6 DEF Next

(* Without memory the first flag is the last. *)
LEMMA UnallocatedStep ==
  ASSUME TypeInv, Unallocated, ~SizeFits, [Next]_vars
  PROVE  Unallocated'
<1>1. /\ nFactor = 2 /\ nFactor * nFactor = 4 /\ Wrap(4) = 4 /\ vfComposite = {}
      /\ limit \in Nat /\ limit < M /\ limit + 7 >= M /\ M \in Nat /\ M >= 256
  BY Widths, WrapFits DEF Unallocated, TypeInv, SizeFits, M
<1>2. Allocated = 0
  <2>1. PICK d \in 0..6 : limit + 7 = M * 1 + d
    BY <1>1
  <2>2. (limit + 7) % M = d
    BY <1>1, <2>1, Division
  <2> QED BY <2>2 DEF Allocated, Wrap, M
<1>3. pc = "factor" => ~InMemory
  <2> SUFFICES ASSUME pc = "factor" PROVE ~InMemory
    OBVIOUS
  <2>1. 2 \in Accessed
    BY <1>1 DEF Accessed
  <2> QED BY <1>2, <2>1 DEF InMemory
<1>4. ~SkipFactor /\ ~TakeFactor
  BY <1>3 DEF SkipFactor, TakeFactor
<1>5. ~MarkComposite /\ ~NextFactor /\ ~Collect /\ ~Done
  BY DEF Unallocated, MarkComposite, NextFactor, Collect, Done
<1>6. ~EndFactors
  BY <1>1 DEF EndFactors
<1>7. CASE AllocateNothing \/ AccessBeyond \/ UNCHANGED vars
  BY <1>7 DEF AllocateNothing, AccessBeyond, vars, Unallocated
<1> QED BY <1>4, <1>5, <1>6, <1>7 DEF Next

LEMMA SkipStep ==
  ASSUME TypeInv, Sieving, SkipFactor
  PROVE  Sieving'
<1> DEFINE n == nFactor
<1>1. /\ pc = "factor" /\ pc' = "factor" /\ nFactor' = n + 1 /\ n \in vfComposite
      /\ limit' = limit /\ vfComposite' = vfComposite /\ n \in Nat /\ n >= 2
      /\ nFactor' - 1 = n
      /\ Wrap(n * n) < limit
  BY DEF SkipFactor, TypeInv
<1>2. NoWrap' <=> NoWrap
  BY <1>1 DEF NoWrap
<1>3. \A k : Marked(k)' <=> Marked(k)
  BY <1>1 DEF Marked
<1>4. Tame(n) => Marked(n)
  <2> SUFFICES ASSUME Tame(n) PROVE Marked(n)
    OBVIOUS
  <2>1. Composite(n)
    BY <1>1 DEF Sieving, Sound, Tame
  <2>2. PICK a, b \in Nat \ {0, 1} : n = a * b
    BY <2>1 DEF Composite
  <2>3. a < n
    BY <2>2, Products
  <2>4. Marked(a)
    BY <1>1, <2>3 DEF Sieving, Tame
  <2> QED BY <2>2, <2>4, MultipleMarked
<1>5. \A k \in 2..n : Tame(k)' => Marked(k)'
  <2> SUFFICES ASSUME NEW k \in 2..n, Tame(k) PROVE Marked(k)
    BY <1>2, <1>3 DEF Tame
  <2>1. CASE k = n
    BY <1>4, <2>1
  <2>2. CASE k # n
    BY <1>1, <2>2 DEF Sieving
  <2> QED BY <2>1, <2>2
<1>6. NoWrap' => n * n < limit
  BY <1>1, <1>2, SquareFits DEF Tame
<1>7. Sound' => Sound
  BY <1>1, <1>2 DEF Sound
<1> HIDE DEF n
<1> QED BY <1>1, <1>2, <1>5, <1>6, <1>7 DEF Sieving

LEMMA TakeStep ==
  ASSUME TypeInv, Sieving, TakeFactor
  PROVE  Sieving'
<1> DEFINE n == nFactor
<1>1. /\ pc = "factor" /\ pc' = "mark" /\ nFactor' = n /\ n \notin vfComposite
      /\ limit' = limit /\ vfComposite' = vfComposite /\ n \in Nat /\ n >= 2
      /\ Wrap(n * n) < limit /\ nComposite' = Square(n) /\ limit \in Nat
  BY DEF TakeFactor, TypeInv
<1>2. NoWrap' <=> NoWrap
  BY <1>1 DEF NoWrap
<1>3. \A k : (Marked(k)' <=> Marked(k)) /\ (Tame(k)' <=> Tame(k))
  BY <1>1, <1>2 DEF Marked, Tame
<1>4. ASSUME Tame(n)
      PROVE  n * n < limit /\ n \notin {4, 6} /\ Marking'
  <2>1. Square(n) = n * n /\ n * n < limit
    BY <1>1, <1>4, SquareFits
  <2>2. n \notin {4, 6}
    <3> SUFFICES ASSUME n \in {4, 6} PROVE FALSE
      OBVIOUS
    <3>1. Marked(2) /\ n < limit
      BY <1>1, <2>1 DEF Sieving, Tame
    <3>2. \E b \in Nat : b >= 2 /\ n = 2 * b
      OBVIOUS
    <3> QED BY <1>1, <3>1, <3>2 DEF Marked
  <2>3. \E c \in Nat : /\ c >= n /\ nComposite' = n * c
                       /\ \A b \in n..(c - 1) : n * b \in vfComposite'
    <3>1. n >= n /\ nComposite' = n * n /\ n..(n - 1) = {}
      BY <1>1, <2>1
    <3> HIDE DEF n
    <3> QED BY <1>1, <3>1
  <2> QED BY <1>1, <2>1, <2>2, <2>3 DEF Marking
<1>5. Sound' => Sound
  BY <1>1, <1>2 DEF Sound
<1>6. /\ \A k \in 2..(n - 1) : Tame(k)' => Marked(k)'
      /\ NoWrap' => (n - 1) * (n - 1) < limit
      /\ Sound => \A x \in vfComposite : Composite(x)
  BY <1>2, <1>3 DEF Sieving
<1> HIDE DEF n
<1> QED BY <1>1, <1>2, <1>3, <1>4, <1>5, <1>6 DEF Sieving

LEMMA MarkStep ==
  ASSUME TypeInv, Sieving, limit < M - 1, MarkComposite
  PROVE  Sieving'
<1> DEFINE n == nFactor
<1>1. /\ pc = "mark" /\ pc' = "mark" /\ nFactor' = n /\ limit' = limit
      /\ nComposite < limit /\ nComposite \in Nat /\ limit \in Nat /\ n \in Nat
      /\ n >= 2
      /\ vfComposite' = vfComposite \cup {nComposite}
      /\ nComposite' = Wrap(nComposite + n)
  BY DEF MarkComposite, TypeInv
<1>2. NoWrap' <=> NoWrap
  BY <1>1 DEF NoWrap
<1>3. \A k : (Marked(k) => Marked(k)') /\ (Tame(k)' <=> Tame(k))
  BY <1>1, <1>2 DEF Marked, Tame
<1>4. Sound' <=> Sound
  BY <1>1, <1>2 DEF Sound
<1>5. Sound => \A x \in vfComposite' : Composite(x)
  <2> SUFFICES ASSUME Sound PROVE Composite(nComposite)
    BY <1>1 DEF Sieving
  <2>1. Tame(n) /\ (n < 7 \/ NoWrap)
    BY <1>1 DEF Sound, Tame
  <2>2. PICK c \in Nat : c >= n /\ nComposite = n * c
    BY <1>1, <2>1 DEF Sieving, Marking
  <2>3. n \in Nat \ {0, 1} /\ c \in Nat \ {0, 1}
    BY <1>1, <2>2
  <2> QED BY <2>2, <2>3 DEF Composite
<1>6. ASSUME Tame(n) PROVE Marking'
  <2>0. n * n < limit /\ n \notin {4, 6} /\ Marking
    BY <1>1, <1>6 DEF Sieving
  <2>1. CASE n = 7 /\ ~NoWrap /\ Marked(7)
    BY <1>1, <1>2, <1>3, <2>1 DEF Marking
  <2>2. ASSUME NEW c \in Nat, c >= n, nComposite = n * c,
               \A b \in n..(c - 1) : n * b \in vfComposite
        PROVE  Marking'
    <3>0. n * (c + 1) = nComposite + n /\ c + 1 \in Nat /\ c + 1 >= n
      BY <1>1, <2>2
    <3>1. \A b \in n..c : n * b \in vfComposite'
      <4> SUFFICES ASSUME NEW b \in n..c PROVE n * b \in vfComposite'
        OBVIOUS
      <4>1. CASE b = c
        BY <1>1, <2>2, <4>1
      <4>2. CASE b # c
        <5>1. b \in n..(c - 1)
          BY <1>1, <2>2, <4>2
        <5> QED BY <1>1, <2>2, <5>1
      <4> QED BY <4>1, <4>2
    <3>2. CASE nComposite + n < M
      <4>1. nComposite' = n * (c + 1) /\ (c + 1) - 1 = c
        BY <1>1, <3>0, <3>2, WrapFits
      <4> HIDE DEF n
      <4> QED BY <1>1, <3>0, <3>1, <4>1 DEF Marking
    <3>3. CASE ~(nComposite + n < M)
      <4>1. ~NoWrap
        <5> SUFFICES ASSUME NoWrap PROVE FALSE
          OBVIOUS
        <5>1. n <= H - 1 /\ limit <= (H - 1) * (H - 1)
          BY <1>6, SquareFits, NoWrapMeans
        <5>2. H \in Nat /\ H >= 16 /\ H * H <= M /\ M \in Nat
          BY Widths
        <5>3. (H - 1) * (H - 1) = H * H - 2 * H + 1
          BY <5>2
        <5> HIDE DEF n
        <5> QED BY <1>1, <3>3, <5>1, <5>2, <5>3
      <4>2. n \in {2, 3, 5, 7}
        BY <1>1, <1>6, <2>0, <4>1 DEF Tame
      <4>3. n \notin {2, 3, 5}
        <5>1. PICK q \in Nat : M = 2 * q
          BY Widths
        <5>2. PICK r \in Nat : M = 15 * r + 1
          BY Widths
        <5>3. n = 2 => nComposite = 2 * c
          BY <2>2
        <5>4. n = 3 => nComposite = 3 * c
          BY <2>2
        <5>5. n = 5 => nComposite = 5 * c
          BY <2>2
        <5>6. nComposite < M - 2 /\ nComposite + n >= M
          BY <1>1, <3>3, <5>1
        <5> HIDE DEF n
        <5> QED BY <1>1, <5>1, <5>2, <5>3, <5>4, <5>5, <5>6
      <4>4. n = 7
        BY <4>2, <4>3
      <4>5. Marked(7)'
        <5> SUFFICES ASSUME NEW b \in Nat, b >= 7, 7 * b < limit
                     PROVE  7 * b \in vfComposite'
          BY <1>1 DEF Marked
        <5>1. b <= c
          BY <1>1, <2>2, <3>3, <4>4, Widths
        <5> QED BY <3>1, <4>4, <5>1
      <4> QED BY <1>1, <1>2, <4>1, <4>4, <4>5 DEF Marking
    <3> QED BY <3>2, <3>3
  <2> QED BY <2>0, <2>1, <2>2 DEF Marking
<1>7. Tame(n) => n * n < limit /\ n \notin {4, 6}
  BY <1>1 DEF Sieving
<1>8. /\ \A k \in 2..(n - 1) : Tame(k)' => Marked(k)'
      /\ NoWrap' => (n - 1) * (n - 1) < limit
  BY <1>2, <1>3 DEF Sieving
<1> HIDE DEF n
<1> QED BY <1>1, <1>2, <1>3, <1>4, <1>5, <1>6, <1>7, <1>8 DEF Sieving

LEMMA NextFactorStep ==
  ASSUME TypeInv, Sieving, NextFactor
  PROVE  Sieving'
<1> DEFINE n == nFactor
<1>1. /\ pc = "mark" /\ pc' = "factor" /\ nFactor' = n + 1 /\ limit' = limit
      /\ nComposite >= limit /\ limit \in Nat /\ n \in Nat /\ n >= 2
      /\ nFactor' - 1 = n
      /\ vfComposite' = vfComposite
  BY DEF NextFactor, TypeInv
<1>2. NoWrap' <=> NoWrap
  BY <1>1 DEF NoWrap
<1>3. \A k : (Marked(k)' <=> Marked(k)) /\ (Tame(k)' <=> Tame(k))
  BY <1>1, <1>2 DEF Marked, Tame
<1>4. Sound' => Sound
  BY <1>1, <1>2 DEF Sound
<1>5. ASSUME Tame(n) PROVE Marked(n) /\ n * n < limit
  <2>0. n * n < limit /\ Marking
    BY <1>1, <1>5 DEF Sieving
  <2>1. ASSUME NEW c \in Nat, c >= n, nComposite = n * c,
               \A b \in n..(c - 1) : n * b \in vfComposite
        PROVE  Marked(n)
    <3> SUFFICES ASSUME NEW b \in Nat, b >= n, n * b < limit
                 PROVE  n * b \in vfComposite
      BY DEF Marked
    <3>1. b < c
      <4>1. n * b < n * c
        BY <1>1, <2>1
      <4>2. \A x, y, z \in Nat : x * y < x * z => y < z
        OBVIOUS
      <4> QED BY <1>1, <4>1, <4>2
    <3>2. b \in n..(c - 1)
      BY <1>1, <3>1
    <3> QED BY <2>1, <3>2
  <2> QED BY <2>0, <2>1 DEF Marking
<1>6. \A k \in 2..n : Tame(k)' => Marked(k)'
  <2> SUFFICES ASSUME NEW k \in 2..n, Tame(k) PROVE Marked(k)
    BY <1>3
  <2>1. CASE k = n
    BY <1>5, <2>1
  <2>2. CASE k # n
    BY <1>1, <2>2 DEF Sieving
  <2> QED BY <2>1, <2>2
<1>7. NoWrap' => n * n < limit
  BY <1>2, <1>5 DEF Tame
<1> HIDE DEF n
<1> QED BY <1>1, <1>2, <1>4, <1>6, <1>7 DEF Sieving

LEMMA EndStep ==
  ASSUME TypeInv, Sieving, EndFactors
  PROVE  Sieving'
<1>1. /\ pc = "factor" /\ pc' = "collect" /\ nFactor' = nFactor /\ limit' = limit
      /\ vfComposite' = vfComposite /\ nFactor \in Nat /\ limit \in Nat
      /\ Wrap(nFactor * nFactor) >= limit /\ nFactor >= 2
  BY DEF EndFactors, TypeInv
<1>2. NoWrap' <=> NoWrap
  BY <1>1 DEF NoWrap
<1>3. \A k : (Marked(k)' <=> Marked(k)) /\ (Tame(k)' <=> Tame(k))
  BY <1>1, <1>2 DEF Marked, Tame
<1>4. Sound' => Sound
  BY <1>1, <1>2 DEF Sound
<1>5. ASSUME NEW n \in Nat \ {0, 1}, n \in {2, 3, 5, 7} \/ NoWrap
      PROVE  Marked(n)
  <2>1. CASE n < nFactor
    <3>1. Tame(n)
      BY <1>5 DEF Tame
    <3> QED BY <1>1, <2>1, <3>1 DEF Sieving
  <2>2. CASE n >= nFactor
    <3>1. Tame(nFactor)
      BY <1>1, <1>5, <2>2 DEF Tame
    <3>2. nFactor * nFactor >= limit
      BY <1>1, <3>1, SquareFits
    <3>3. \A b \in Nat : b >= n => n * b >= nFactor * nFactor
      BY <1>1, <2>2
    <3>4. \A b \in Nat : b >= n => ~(n * b < limit)
      BY <1>1, <3>2, <3>3
    <3> QED BY <3>4 DEF Marked
  <2> QED BY <1>1, <2>1, <2>2
<1> QED BY <1>1, <1>2, <1>3, <1>4, <1>5 DEF Sieving

LEMMA SieveKept ==
  ASSUME Sieving, UNCHANGED <<limit, nFactor, nComposite, vfComposite>>,
         pc' = pc \/ (pc = "collect" /\ pc' = "done")
  PROVE  Sieving'
<1>1. NoWrap' <=> NoWrap
  BY DEF NoWrap
<1>2. \A k : (Marked(k)' <=> Marked(k)) /\ (Tame(k)' <=> Tame(k))
  BY <1>1 DEF Marked, Tame
<1>3. (Sound' <=> Sound) /\ (Marking' <=> Marking)
  BY <1>1, <1>2 DEF Sound, Marking
<1>4. /\ \A k \in 2..(nFactor - 1) : Tame(k)' => Marked(k)'
      /\ NoWrap' => (nFactor - 1) * (nFactor - 1) < limit
      /\ Sound' => \A x \in vfComposite : Composite(x)
  BY <1>1, <1>2, <1>3 DEF Sieving
<1>5. pc' = "mark" /\ Tame(nFactor)' =>
        nFactor * nFactor < limit /\ nFactor \notin {4, 6} /\ Marking'
  BY <1>2, <1>3 DEF Sieving
<1>6. pc' \in {"collect", "done"} =>
        \A n \in Nat \ {0, 1} : n \in {2, 3, 5, 7} \/ NoWrap' => Marked(n)'
  BY <1>1, <1>2 DEF Sieving
<1> QED BY <1>4, <1>5, <1>6 DEF Sieving

LEMMA MarksStep ==
  ASSUME TypeInv, MarksInv, [Next]_vars
  PROVE  TypeInv' /\ MarksInv'
<1>1. TypeInv' /\ limit' = limit
  BY TypeStep DEF Next, vars, AllocateNothing, AccessBeyond, SkipFactor,
    TakeFactor, MarkComposite, NextFactor, EndFactors, Collect, Done
<1>2. SizeFits' <=> SizeFits
  BY <1>1 DEF SizeFits
<1>3. CASE ~SizeFits
  BY <1>1, <1>2, <1>3, UnallocatedStep DEF MarksInv
<1>4. CASE SizeFits
  <2>1. Sieving /\ Ends /\ limit < M - 1
    BY <1>4, Widths DEF MarksInv, TypeInv, SizeFits, M
  <2>2. Ends'
    BY <1>4, <2>1, EndsStep
  <2>3. ~AllocateNothing /\ ~AccessBeyond
    BY <1>4, <2>1, AccessInMemory DEF AllocateNothing, AccessBeyond
  <2>4. UNCHANGED vars \/ Collect \/ Done => Sieving'
    BY <2>1, SieveKept DEF vars, Collect, Done
  <2>5. SkipFactor \/ TakeFactor \/ MarkComposite \/ NextFactor \/ EndFactors
          => Sieving'
    BY <2>1, SkipStep, TakeStep, MarkStep, NextFactorStep, EndStep
  <2>6. Sieving'
    BY <2>3, <2>4, <2>5 DEF Next
  <2> QED BY <1>1, <1>2, <1>4, <2>2, <2>6 DEF MarksInv
<1> QED BY <1>3, <1>4

-----------------------------------------------------------------------------
(* Counting the entries of the table. *)

LEMMA WheelStep ==
  ASSUME NEW n \in Nat \ {0}
  PROVE  /\ Wheel(n) \in Nat /\ Wheel(n - 1) \in Nat
         /\ n % 2 # 0 /\ n % 3 # 0 /\ n % 5 # 0 => Wheel(n) = Wheel(n - 1) + 1
         /\ ~(n % 2 # 0 /\ n % 3 # 0 /\ n % 5 # 0) => Wheel(n) = Wheel(n - 1)
<1>1. PICK q \in Nat, r \in 0..29 : n = 30 * q + r
  <2>1. n \div 30 \in Nat /\ n % 30 \in 0..29 /\ n = 30 * (n \div 30) + (n % 30)
    OBVIOUS
  <2> QED BY <2>1
<1>2. \A k \in Nat, x \in 0..29 : Wheel(30 * k + x) = 8 * k + Rank(x)
  BY DEF Wheel
<1>3. n % 2 = r % 2 /\ n % 3 = r % 3 /\ n % 5 = r % 5
  BY <1>1
<1>4. \A x \in 0..29 : Rank(x) \in 0..8
  BY DEF Rank
<1>5. CASE r = 0
  <2>1. q - 1 \in Nat /\ n - 1 = 30 * (q - 1) + 29 /\ n = 30 * q + 0
    BY <1>1, <1>5
  <2>2. /\ Wheel(30 * (q - 1) + 29) = 8 * (q - 1) + Rank(29)
        /\ Wheel(30 * q + 0) = 8 * q + Rank(0)
    <3>1. q \in Nat /\ q - 1 \in Nat /\ 0 \in 0..29 /\ 29 \in 0..29
      BY <2>1
    <3>2. Wheel(30 * (q - 1) + 29) = 8 * (q - 1) + Rank(29)
      BY <1>2, <3>1
    <3> QED BY <1>2, <3>1, <3>2
  <2>3. Rank(29) = 8 /\ Rank(0) = 0
    BY DEF Rank
  <2> QED BY <1>3, <1>5, <2>1, <2>2, <2>3
<1>6. CASE r # 0
  <2>1. r - 1 \in 0..29 /\ n - 1 = 30 * q + (r - 1)
    BY <1>1, <1>6
  <2>2. Wheel(n - 1) = 8 * q + Rank(r - 1) /\ Wheel(n) = 8 * q + Rank(r)
    BY <1>1, <1>2, <2>1
  <2>3. /\ r % 2 # 0 /\ r % 3 # 0 /\ r % 5 # 0 => Rank(r) = Rank(r - 1) + 1
        /\ ~(r % 2 # 0 /\ r % 3 # 0 /\ r % 5 # 0) => Rank(r) = Rank(r - 1)
    BY <1>6 DEF Rank
  <2>4. Rank(r) \in Nat /\ Rank(r - 1) \in Nat
    BY <1>4, <2>1
  <2> QED BY <1>3, <2>2, <2>3, <2>4
<1> QED BY <1>5, <1>6

LEMMA WheelBounds ==
  ASSUME NEW n \in Nat
  PROVE  Wheel(n) \in Nat /\ 4 * n <= 15 * Wheel(n) + 14 /\ 15 * Wheel(n) <= 4 * n + 14
<1>1. PICK q \in Nat, r \in 0..29 : n = 30 * q + r
  <2>1. n \div 30 \in Nat /\ n % 30 \in 0..29 /\ n = 30 * (n \div 30) + (n % 30)
    OBVIOUS
  <2> QED BY <2>1
<1>2. Wheel(n) = 8 * q + Rank(r)
  BY <1>1 DEF Wheel
<1>3. Rank(r) \in Nat /\ 4 * r <= 15 * Rank(r) + 14 /\ 15 * Rank(r) <= 4 * r + 14
  BY DEF Rank
<1> QED BY <1>1, <1>2, <1>3

LEMMA SlotsStep ==
  ASSUME NEW n \in Nat \ {0}
  PROVE  /\ Slots(n) \in Int /\ Slots(n - 1) \in Int
         /\ Slots(n - 1) <= Slots(n)
         /\ n >= 2 /\ Free(n) => Slots(n - 1) + 1 <= Slots(n)
<1> DEFINE Small(k) == (IF k >= 2 THEN 1 ELSE 0) + (IF k >= 3 THEN 1 ELSE 0)
                     + (IF k >= 5 THEN 1 ELSE 0) + (IF k >= 7 THEN 1 ELSE 0)
           m == n \div 7
           l == (n - 1) \div 7
           coprime(k) == k % 2 # 0 /\ k % 3 # 0 /\ k % 5 # 0
<1>1. \A k \in Nat : Slots(k) = (Wheel(k) - Wheel(k \div 7)) + Small(k)
  <2> SUFFICES ASSUME NEW k \in Nat
               PROVE  Slots(k) = (Wheel(k) - Wheel(k \div 7)) + Small(k)
    OBVIOUS
  <2>1. Wheel(k) \in Nat
    BY WheelBounds
  <2>2. k \div 7 \in Nat
    OBVIOUS
  <2>3. Wheel(k \div 7) \in Nat
    BY <2>2, WheelBounds
  <2> QED BY <2>1, <2>3 DEF Slots
<1>2. Small(n) \in Nat /\ Small(n - 1) \in Nat /\ Small(n - 1) <= Small(n)
      /\ (n \in {2, 3, 5, 7} => Small(n) = Small(n - 1) + 1)
  OBVIOUS
<1>3. m \in Nat /\ l \in Nat /\ Wheel(m) \in Nat /\ Wheel(l) \in Nat
      /\ Wheel(n) \in Nat /\ Wheel(n - 1) \in Nat
  <2>1. m \in Nat /\ l \in Nat /\ n - 1 \in Nat
    OBVIOUS
  <2> QED BY <2>1, WheelBounds
<1>4. n % 7 # 0 => m = l
  OBVIOUS
<1>5. n % 7 = 0 => l = m - 1 /\ m # 0 /\ n = 7 * m
  OBVIOUS
<1>6. n % 7 = 0 => (coprime(n) <=> coprime(m))
  <2> SUFFICES ASSUME n % 7 = 0 PROVE coprime(n) <=> coprime(m)
    OBVIOUS
  <2>1. n = 7 * m /\ m \in Nat
    BY <1>3, <1>5
  <2> HIDE DEF m
  <2>2. n % 2 = 0 <=> m % 2 = 0
    BY <2>1
  <2>3. n % 3 = 0 <=> m % 3 = 0
    BY <2>1
  <2>4. n % 5 = 0 <=> m % 5 = 0
    BY <2>1
  <2> QED BY <2>2, <2>3, <2>4
<1>7. /\ coprime(n) => Wheel(n) = Wheel(n - 1) + 1
      /\ ~coprime(n) => Wheel(n) = Wheel(n - 1)
  BY WheelStep
<1>8. m # 0 => /\ coprime(m) => Wheel(m) = Wheel(m - 1) + 1
               /\ ~coprime(m) => Wheel(m) = Wheel(m - 1)
  BY <1>3, WheelStep
<1>9. Wheel(n - 1) - Wheel(l) <= Wheel(n) - Wheel(m)
  <2> HIDE DEF m, l, coprime
  <2> QED BY <1>3, <1>4, <1>5, <1>6, <1>7, <1>8
<1>10. coprime(n) /\ n % 7 # 0 => (Wheel(n - 1) - Wheel(l)) + 1 <= Wheel(n) - Wheel(m)
  BY <1>3, <1>4, <1>7
<1>11. n >= 2 /\ Free(n) => n \in {2, 3, 5, 7} \/ (coprime(n) /\ n % 7 # 0)
  BY DEF Free
<1>12. Slots(n) = (Wheel(n) - Wheel(m)) + Small(n)
       /\ Slots(n - 1) = (Wheel(n - 1) - Wheel(l)) + Small(n - 1)
  <2>1. n - 1 \in Nat
    OBVIOUS
  <2> HIDE DEF Small
  <2> QED BY <1>1, <2>1
<1> HIDE DEF m, l, Small, coprime
<1> QED BY <1>2, <1>3, <1>9, <1>10, <1>11, <1>12

LEMMA SlotsGrow ==
  ASSUME NEW m \in Nat, NEW n \in Nat, m <= n
  PROVE  Slots(m) \in Int /\ Slots(n) \in Int /\ Slots(m) <= Slots(n)
<1>1. \A k \in Nat : Slots(k) \in Int /\ Slots(k) <= Slots(k + 1)
  <2> SUFFICES ASSUME NEW k \in Nat
               PROVE  Slots(k) \in Int /\ Slots(k) <= Slots(k + 1)
    OBVIOUS
  <2>1. k + 1 \in Nat \ {0} /\ (k + 1) - 1 = k
    OBVIOUS
  <2> QED BY <2>1, SlotsStep
<1> DEFINE T == {k \in Nat : Slots(m) <= Slots(m + k)}
<1>2. 0 \in T
  BY <1>1
<1>3. ASSUME NEW k \in Nat, k \in T PROVE k + 1 \in T
  <2>1. m + (k + 1) = (m + k) + 1 /\ m + k \in Nat /\ m + (k + 1) \in Nat
    OBVIOUS
  <2>2. Slots(m + k) <= Slots(m + (k + 1))
    BY <1>1, <2>1
  <2>3. Slots(m) <= Slots(m + k)
    BY <1>3
  <2> QED BY <1>1, <2>1, <2>2, <2>3
<1> HIDE DEF T
<1>4. n - m \in T
  BY <1>2, <1>3, Induction
<1>5. m + (n - m) = n
  OBVIOUS
<1> QED BY <1>1, <1>4, <1>5 DEF T

LEMMA SlotsBound ==
  ASSUME NEW n \in Nat
  PROVE  Slots(n) \in Int /\ Slots(n) <= ((n + 1) \div 4) + 10
<1> DEFINE m == n \div 7
           Small == (IF n >= 2 THEN 1 ELSE 0) + (IF n >= 3 THEN 1 ELSE 0)
                  + (IF n >= 5 THEN 1 ELSE 0) + (IF n >= 7 THEN 1 ELSE 0)
<1>1. m \in Nat /\ n <= 7 * m + 6
  OBVIOUS
<1>2. 15 * Wheel(n) <= 4 * n + 14 /\ 4 * m <= 15 * Wheel(m) + 14
      /\ Wheel(n) \in Nat /\ Wheel(m) \in Nat
  BY <1>1, WheelBounds
<1>3. Small \in Nat /\ Small <= 4
  OBVIOUS
<1>4. Slots(n) = (Wheel(n) - Wheel(m)) + Small
  BY <1>2, <1>3 DEF Slots
<1> HIDE DEF m, Small
<1> QED BY <1>1, <1>2, <1>3, <1>4

-----------------------------------------------------------------------------
(* The table. *)

(* What an entry may be once the multiples of 2, 3, 5 and 7 have their bits. *)
LEMMA UnmarkedFree ==
  ASSUME NEW n \in 2..(limit - 1), limit \in Nat, n \notin vfComposite,
         Marked(2), Marked(3), Marked(5), Marked(7)
  PROVE  Free(n)
<1> SUFFICES ASSUME NEW d \in {2, 3, 5, 7}, n % d = 0 PROVE n = d
  BY DEF Free
<1>1. PICK b \in Nat : n = d * b
  BY Divides
<1>2. b # 0 /\ n \in Nat /\ n < limit
  BY <1>1
<1>3. \A a \in {2, 3, 5, 7}, c \in Nat : c >= a => n # a * c
  BY <1>2 DEF Marked
<1>4. b < d
  BY <1>1, <1>3
<1>5. b # 1 => \E a \in {2, 3, 5}, c \in Nat : c >= a /\ n = a * c
  <2>1. b \in 0..6
    BY <1>4
  <2>2. CASE b \in {2, 4, 6}
    <3>1. n = 2 * d \/ n = 2 * (2 * d) \/ n = 2 * (3 * d)
      BY <1>1, <2>2
    <3>2. 2 * d \in Nat /\ 3 * d \in Nat /\ d >= 2 /\ 2 * d >= 2 /\ 3 * d >= 2
      OBVIOUS
    <3> QED BY <3>1, <3>2
  <2>3. CASE b \in {3, 5}
    <3>1. (n = 3 * d /\ d >= 3) \/ (n = 5 * d /\ d >= 5)
      BY <1>1, <1>4, <2>3
    <3> QED BY <3>1
  <2> QED BY <1>2, <2>1, <2>2, <2>3
<1>6. b = 1
  BY <1>3, <1>5
<1> QED BY <1>1, <1>6

LEMMA TableStep ==
  ASSUME Inv, [Next]_vars
  PROVE  TableInv'
<1>1. CASE UNCHANGED <<limit, vfComposite, table>> /\ pc' # "done"
           /\ (pc' \in {"factor", "mark"} => pc \in {"factor", "mark"})
  <2>1. /\ limit' = limit /\ vfComposite' = vfComposite /\ table' = table
        /\ pc' # "done"
        /\ pc' \in {"factor", "mark"} => pc \in {"factor", "mark"}
    BY <1>1
  <2> QED BY <2>1 DEF Inv, TableInv
<1>2. CASE pc \in {"factor", "mark"} /\ pc' \in {"factor", "mark"} /\ table' = table
  <2>1. table = <<>> /\ table' = <<>>
    BY <1>2 DEF Inv, TableInv
  <2>2. <<>> \in Seq(2..(limit' - 1)) /\ Len(<<>>) = 0 /\ DOMAIN <<>> = {}
    OBVIOUS
  <2> QED BY <1>2, <2>1, <2>2 DEF TableInv
<1>3. CASE Collect
  <2> DEFINE best(n) == n \in Uncollected /\ \A m \in Uncollected : n <= m
             new == CHOOSE n \in Uncollected : \A m \in Uncollected : n <= m
             last == table[Len(table)]
  <2>1. /\ pc = "collect" /\ pc' = "collect" /\ limit' = limit
        /\ vfComposite' = vfComposite /\ Uncollected # {}
        /\ table' = Append(table, new)
    BY <1>3 DEF Collect
  <2>2. Uncollected \subseteq Nat /\ limit \in Nat
    BY DEF Uncollected, Inv, TypeInv
  <2>3. best(new)
    <3>1. \E n \in Uncollected : \A m \in Uncollected : n <= m
      BY <2>1, <2>2, Least
    <3> QED BY <3>1
  <2>4. new \in 2..(limit - 1) /\ new \notin vfComposite
        /\ (table # <<>> => new > last)
    BY <2>3 DEF Uncollected
  <2>5. \A m \in 2..(limit - 1) :
          m \notin vfComposite /\ m < new => table # <<>> /\ ~(m > last)
    BY <2>2, <2>3, <2>4 DEF Uncollected
  <2> HIDE DEF best, new
  <2>6. /\ table \in Seq(2..(limit - 1)) /\ Len(table) \in Nat
        /\ table = <<>> <=> Len(table) = 0
        /\ table # <<>> => last \in 2..(limit - 1)
    BY DEF Inv, TableInv
  <2>7. /\ table' \in Seq(2..(limit - 1)) /\ Len(table') = Len(table) + 1
        /\ DOMAIN table' = 1..(Len(table) + 1) /\ DOMAIN table = 1..Len(table)
        /\ table'[Len(table) + 1] = new
        /\ \A k \in 1..Len(table) : table'[k] = table[k]
        /\ table' # <<>>
    BY <2>1, <2>4, <2>6
  <2>8. {table'[k] : k \in DOMAIN table'} = {table[k] : k \in DOMAIN table} \cup {new}
    BY <2>6, <2>7
  <2>9. {table[k] : k \in DOMAIN table} \cup {new}
          = {n \in 2..(limit - 1) : n \notin vfComposite /\ n <= new}
    <3>1. {table[k] : k \in DOMAIN table} =
            {n \in 2..(limit - 1) :
               n \notin vfComposite /\ table # <<>> /\ n <= last}
      BY DEF Inv, TableInv
    <3> HIDE DEF last
    <3> QED BY <2>2, <2>4, <2>5, <2>6, <3>1
  <2>10. \A k \in 1..(Len(table') - 1) : table'[k] < table'[k + 1]
    <3> SUFFICES ASSUME NEW k \in 1..Len(table) PROVE table'[k] < table'[k + 1]
      BY <2>6, <2>7
    <3>1. CASE k = Len(table)
      BY <2>4, <2>6, <2>7, <3>1
    <3>2. CASE k # Len(table)
      <4>1. k \in 1..(Len(table) - 1) /\ k + 1 \in 1..Len(table)
        BY <2>6, <3>2
      <4>2. table[k] < table[k + 1]
        BY <4>1 DEF Inv, TableInv
      <4> QED BY <2>7, <4>1, <4>2
    <3> QED BY <3>1, <3>2
  <2>11. Len(table') <= Slots(new)
    <3>1. Free(new)
      <4>1. Sieving
        BY <2>1 DEF Inv, MarksInv, Unallocated
      <4>2. Marked(2) /\ Marked(3) /\ Marked(5) /\ Marked(7)
        BY <2>1, <4>1 DEF Sieving
      <4> QED BY <2>2, <2>4, <4>2, UnmarkedFree
    <3>2. Slots(new) \in Int /\ Slots(new - 1) \in Int
          /\ Slots(new - 1) + 1 <= Slots(new)
      <4>1. new \in Nat \ {0} /\ new >= 2
        BY <2>2, <2>4
      <4> QED BY <3>1, <4>1, SlotsStep
    <3>3. CASE table = <<>>
      <4>1. Slots(0) = 0
        BY DEF Slots, Wheel, Rank
      <4>2. 0 \in Nat /\ new - 1 \in Nat /\ 0 <= new - 1
        BY <2>2, <2>4
      <4>3. Slots(0) <= Slots(new - 1)
        BY <4>2, SlotsGrow
      <4> QED BY <2>6, <2>7, <3>2, <3>3, <4>1, <4>3
    <3>4. CASE table # <<>>
      <4>1. last \in Nat /\ new - 1 \in Nat /\ last <= new - 1
        BY <2>2, <2>4, <2>6, <3>4
      <4>2. Slots(last) \in Int /\ Slots(last) <= Slots(new - 1)
        BY <4>1, SlotsGrow
      <4>3. Len(table) <= Slots(last)
        BY <3>4 DEF Inv, TableInv
      <4> QED BY <2>6, <2>7, <3>2, <4>2, <4>3
    <3> QED BY <3>3, <3>4
  <2> QED BY <2>1, <2>6, <2>7, <2>8, <2>9, <2>10, <2>11 DEF TableInv
<1>4. CASE Done
  <2>1. /\ limit' = limit /\ vfComposite' = vfComposite /\ table' = table
        /\ pc' = "done" /\ Uncollected = {}
    BY <1>4 DEF Done
  <2>2. Uncollected' = {}
    BY <2>1 DEF Uncollected
  <2> QED BY <2>1, <2>2 DEF Inv, TableInv
<1>5. CASE UNCHANGED vars
  <2>1. /\ limit' = limit /\ vfComposite' = vfComposite /\ table' = table
        /\ pc' = pc
    BY <1>5 DEF vars
  <2>2. Uncollected' = Uncollected
    BY <2>1 DEF Uncollected
  <2> QED BY <2>1, <2>2 DEF Inv, TableInv
<1>6. CASE SkipFactor \/ TakeFactor \/ MarkComposite \/ NextFactor
  BY <1>2, <1>6 DEF SkipFactor, TakeFactor, MarkComposite, NextFactor
<1>7. CASE EndFactors
  BY <1>1, <1>7 DEF EndFactors
<1>8. CASE AllocateNothing \/ AccessBeyond
  BY <1>1, <1>8 DEF AllocateNothing, AccessBeyond
<1> QED BY <1>3, <1>4, <1>5, <1>6, <1>7, <1>8 DEF Next

THEOREM TableInvariant == Spec => []Inv
<1>1. Init => Inv
  <2> SUFFICES ASSUME Init PROVE Inv
    OBVIOUS
  <2>1. table = <<>> /\ pc = "factor"
    BY DEF Init
  <2>2. TableInv
    BY <2>1 DEF TableInv
  <2> QED BY <2>2, MarksInvInit DEF Inv
<1>2. Inv /\ [Next]_vars => Inv'
  BY MarksStep, TableStep DEF Inv
<1> QED BY <1>1, <1>2, PTL DEF Spec

-----------------------------------------------------------------------------
LEMMA NotPrime ==
  ASSUME NEW n \in Nat, n >= 2
  PROVE  IsPrime(n) <=> ~Composite(n)
<1>1. ASSUME Composite(n) PROVE ~IsPrime(n)
  <2>1. PICK a, b \in Nat \ {0, 1} : n = a * b
    BY <1>1 DEF Composite
  <2>2. a < n
    BY <2>1, Products
  <2>3. a \in 2..(n - 1) /\ n % a = 0
    BY <2>1, <2>2, Divides
  <2> QED BY <2>3 DEF IsPrime
<1>2. ASSUME ~IsPrime(n) PROVE Composite(n)
  <2>1. PICK d \in 2..(n - 1) : n % d = 0
    BY <1>2 DEF IsPrime
  <2>2. PICK q \in Nat : n = d * q
    BY <2>1, Divides
  <2>3. q # 0 /\ q # 1
    BY <2>1, <2>2
  <2>4. d \in Nat \ {0, 1} /\ q \in Nat \ {0, 1}
    BY <2>1, <2>3
  <2> QED BY <2>2, <2>4 DEF Composite
<1> QED BY <1>1, <1>2

(* The table the miner sieves with is exactly the primes below the limit,  *)
(* in ascending order, for every width of the integers and every limit     *)
(* that no product or sum wraps for (riecoinMiner.cpp:124-139).            *)
THEOREM TablePrimes == Spec => []TableIsPrimes
<1>1. Inv => TableIsPrimes
  <2> SUFFICES ASSUME Inv, NoWrap, pc = "done"
               PROVE  /\ {table[k] : k \in DOMAIN table}
                           = {n \in 2..(limit - 1) : IsPrime(n)}
                      /\ \A k \in 1..(Len(table) - 1) : table[k] < table[k + 1]
    BY DEF TableIsPrimes
  <2>1. Sieving /\ limit \in Nat /\ vfComposite \subseteq 0..(limit - 1)
    BY DEF Inv, MarksInv, Unallocated, TypeInv
  <2>2. \A n \in 2..(limit - 1) : n \in vfComposite <=> ~IsPrime(n)
    <3> SUFFICES ASSUME NEW n \in 2..(limit - 1)
                 PROVE  n \in vfComposite <=> Composite(n)
      BY <2>1, NotPrime
    <3>1. n \in vfComposite => Composite(n)
      BY <2>1 DEF Sieving, Sound
    <3>2. ASSUME Composite(n) PROVE n \in vfComposite
      <4>1. PICK a, b \in Nat \ {0, 1} : n = a * b
        BY <3>2 DEF Composite
      <4>2. Marked(a) /\ Marked(b)
        BY <2>1 DEF Sieving
      <4>3. n < limit /\ n = b * a
        BY <2>1, <4>1, Products
      <4> QED BY <4>1, <4>2, <4>3 DEF Marked
    <3> QED BY <3>1, <3>2
  <2>3. {table[k] : k \in DOMAIN table} = {n \in 2..(limit - 1) : n \notin vfComposite}
    <3>1. Uncollected = {}
      BY DEF Inv, TableInv
    <3>2. \A n \in 2..(limit - 1) :
            n \notin vfComposite => table # <<>> /\ ~(n > table[Len(table)])
      BY <3>1 DEF Uncollected
    <3>3. table # <<>> => table[Len(table)] \in Nat
      <4>1. table \in Seq(2..(limit - 1))
        BY DEF Inv, TableInv
      <4> QED BY <2>1, <4>1
    <3>4. {table[k] : k \in DOMAIN table} =
            {n \in 2..(limit - 1) :
               n \notin vfComposite /\ table # <<>> /\ n <= table[Len(table)]}
      BY DEF Inv, TableInv
    <3> QED BY <2>1, <3>2, <3>3, <3>4
  <2>4. {n \in 2..(limit - 1) : n \notin vfComposite}
          = {n \in 2..(limit - 1) : IsPrime(n)}
    BY <2>2
  <2> QED BY <2>3, <2>4 DEF Inv, TableInv
<1> QED BY <1>1, TableInvariant, PTL

(* No flag outside the (limit + 7)/8 bytes allocated is read or set, and   *)
(* the primes fit into the limit/4 + 10 entries, for every limit but the   *)
(* last 7, also where products or sums wrap: the factors end before they   *)
(* reach the limit because -7 is a square modulo 2^W                       *)
(* (riecoinMiner.cpp:110-138).                                             *)
THEOREM TableInMemory == Spec => []TableFits
<1>1. Inv => TableFits
  <2> SUFFICES ASSUME Inv, SizeFits
               PROVE  pc # "undefined" /\ Len(table) <= (limit \div 4) + 10
    BY DEF TableFits
  <2>1. limit \in Nat /\ vfComposite \subseteq 0..(limit - 1) /\ 2 <= limit
        /\ table \in Seq(2..(limit - 1))
    BY DEF Inv, TypeInv, TableInv
  <2>2. Len(table) <= (limit \div 4) + 10
    <3>1. CASE table = <<>>
      BY <2>1, <3>1
    <3>2. CASE table # <<>>
      <4> DEFINE last == table[Len(table)]
      <4>1. last \in 2..(limit - 1) /\ Len(table) \in Nat
        BY <2>1, <3>2
      <4>2. Len(table) <= Slots(last)
        BY <3>2 DEF Inv, TableInv
      <4> HIDE DEF last
      <4>3. Slots(last) \in Int /\ Slots(last) <= ((last + 1) \div 4) + 10
        <5>1. last \in Nat
          BY <2>1, <4>1
        <5> QED BY <5>1, SlotsBound
      <4>4. (last + 1) \div 4 <= limit \div 4
        BY <2>1, <4>1
      <4> QED BY <2>1, <4>1, <4>2, <4>3, <4>4
    <3> QED BY <3>1, <3>2
  <2>3. pc # "undefined"
    BY DEF Inv, MarksInv, Ends
  <2> QED BY <2>2, <2>3
<1> QED BY <1>1, TableInvariant, PTL
=============================================================================
