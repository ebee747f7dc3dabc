----------------------- MODULE XptPacketbufferProofs -----------------------
(***************************************************************************)
(* Proofs about XptPacketbuffer, for every base, every size of the buffers *)
(* and every set of packets: what a packet is read back as, when it        *)
(* travels whole, and that a handler refuses it when it is cut short.      *)
(***************************************************************************)
EXTENDS XptPacketbuffer, SequenceTheorems, WellFoundedInduction, TLAPS

-----------------------------------------------------------------------------
(* Natural numbers. *)

LEMMA Least ==
  ASSUME NEW T, T \subseteq Nat, T # {}
  PROVE  \E m \in T : \A j \in T : m <= j
<1> DEFINE R == OpToRel(<, Nat)
<1>1. IsWellFoundedOn(R, Nat)
  BY NatLessThanWellFounded
<1> HIDE DEF R
<1>2. PICK m \in T : \A j \in T : ~(<<j, m>> \in R)
  BY <1>1, WFMin
<1>3. \A j \in T : ~(j < m)
  <2> TAKE j \in T
  <2>1. <<j, m>> \in Nat \X Nat
    OBVIOUS
  <2>2. j < m => <<j, m>> \in R
    BY <2>1 DEF R, OpToRel
  <2> QED BY <1>2, <2>2
<1> QED BY <1>2, <1>3

LEMMA Induction ==
  ASSUME NEW T, 0 \in T, \A n \in Nat : n \in T => n + 1 \in T
  PROVE  Nat \subseteq T
<1> SUFFICES ASSUME Nat \ T # {} PROVE FALSE
  OBVIOUS
<1>1. PICK m \in Nat \ T : \A j \in Nat \ T : m <= j
  BY Least
<1>2. m # 0 /\ m - 1 \in Nat /\ m - 1 \in T
  BY <1>1
<1> QED BY <1>1, <1>2
(* A value and a step from each number and value to the next value. *)
Iterates(g, S, a, step) ==
  /\ g \in [Nat -> S] /\ g[0] = a
  /\ \A n \in Nat : g[n + 1] = step[<<n, g[n]>>]
StepsUpto(g, L, S, a, step) ==
  /\ g \in [0..L -> S] /\ g[0] = a
  /\ \A n \in 1..L : g[n] = step[<<n, g[n - 1]>>]

LEMMA Recursion ==
  ASSUME NEW S, NEW a \in S, NEW step \in [Nat \X S -> S]
  PROVE  \E g : Iterates(g, S, a, step)
<1> DEFINE Upto(n) == {g \in [0..n -> S] :
                         g[0] = a /\ \A m \in 0..(n - 1) : g[m + 1] = step[<<m, g[m]>>]}
           T == {n \in Nat : Upto(n) # {}}
<1>1. 0 \in T
  <2>1. [m \in 0..0 |-> a] \in Upto(0)
    OBVIOUS
  <2> QED BY <2>1
<1>2. ASSUME NEW n \in Nat, n \in T PROVE n + 1 \in T
  <2>1. PICK g \in Upto(n) : TRUE
    BY <1>2
  <2> DEFINE h == [m \in 0..(n + 1) |-> IF m = n + 1 THEN step[<<n, g[n]>>] ELSE g[m]]
  <2>2. g \in [0..n -> S] /\ g[n] \in S
    BY <2>1
  <2>3. h \in [0..(n + 1) -> S]
    BY <2>2
  <2>4. h[n + 1] = step[<<n, g[n]>>] /\ \A m \in 0..n : h[m] = g[m]
    OBVIOUS
  <2>7. h[0] = a
    BY <2>1, <2>4
  <2> HIDE DEF h
  <2>5. \A m \in 0..((n + 1) - 1) : h[m + 1] = step[<<m, h[m]>>]
    <3> SUFFICES ASSUME NEW m \in 0..n PROVE h[m + 1] = step[<<m, h[m]>>]
      OBVIOUS
    <3>1. CASE m = n
      BY <2>4, <3>1
    <3>2. CASE m # n
      <4>1. m \in 0..(n - 1) /\ h[m] = g[m] /\ h[m + 1] = g[m + 1]
        BY <2>4, <3>2
      <4>2. g[m + 1] = step[<<m, g[m]>>]
        BY <2>1, <4>1
      <4> QED BY <4>1, <4>2
    <3> QED BY <3>1, <3>2
  <2>6. h \in Upto(n + 1)
    BY <2>3, <2>7, <2>5
  <2> HIDE DEF Upto
  <2> QED BY <2>6
<1>3. Nat \subseteq T
  <2> HIDE DEF T
  <2> QED BY <1>1, <1>2, Induction
<1>4. ASSUME NEW n \in Nat, NEW m \in Nat, NEW g \in Upto(n), NEW h \in Upto(m)
      PROVE  \A j \in Nat : j <= n /\ j <= m => g[j] = h[j]
  <2> DEFINE E == {j \in Nat : j <= n /\ j <= m => g[j] = h[j]}
  <2>1. 0 \in E
    OBVIOUS
  <2>2. ASSUME NEW j \in Nat, j \in E PROVE j + 1 \in E
    <3> SUFFICES ASSUME j + 1 <= n, j + 1 <= m PROVE g[j + 1] = h[j + 1]
      OBVIOUS
    <3>1. j \in 0..(n - 1) /\ j \in 0..(m - 1) /\ g[j] = h[j]
      BY <2>2
    <3> QED BY <3>1
  <2>3. Nat \subseteq E
    <3> HIDE DEF E
    <3> QED BY <2>1, <2>2, Induction
  <2> QED BY <2>3
<1> DEFINE best(n) == CHOOSE g \in Upto(n) : TRUE
           f0 == [n \in Nat |-> best(n)[n]]
<1>5. \A n \in Nat : best(n) \in Upto(n)
  BY <1>3
<1> HIDE DEF best
<1>6. f0 \in [Nat -> S]
  BY <1>5
<1>7. f0[0] = a
  BY <1>5
<1>8. ASSUME NEW n \in Nat PROVE f0[n + 1] = step[<<n, f0[n]>>]
  <2>1. best(n) \in Upto(n) /\ best(n + 1) \in Upto(n + 1)
    BY <1>5
  <2>2. best(n + 1)[n] = best(n)[n]
    <3>1. n <= n /\ n <= n + 1 /\ n + 1 \in Nat
      OBVIOUS
    <3> HIDE DEF Upto
    <3> QED BY <1>4, <2>1, <3>1
  <2>3. best(n + 1)[n + 1] = step[<<n, best(n + 1)[n]>>]
    BY <2>1
  <2>4. f0[n + 1] = best(n + 1)[n + 1] /\ f0[n] = best(n)[n]
    OBVIOUS
  <2> QED BY <2>2, <2>3, <2>4
<1> HIDE DEF f0
<1> QED BY <1>6, <1>7, <1>8 DEF Iterates

(* The same for finitely many steps, each from what the last may be. *)
LEMMA Steps ==
  ASSUME NEW S, NEW a \in S, NEW L \in Nat, NEW step \in [(1..L) \X S -> S]
  PROVE  \E g : StepsUpto(g, L, S, a, step)
<1> DEFINE full == [q \in Nat \X S |->
                      IF q[1] + 1 \in 1..L THEN step[<<q[1] + 1, q[2]>>] ELSE q[2]]
<1>1. full \in [Nat \X S -> S]
  OBVIOUS
<1>2. PICK g : Iterates(g, S, a, full)
  <2> HIDE DEF full
  <2> QED BY <1>1, Recursion
<1> DEFINE h == [n \in 0..L |-> g[n]]
<1>3. h \in [0..L -> S] /\ h[0] = a
  BY <1>2 DEF Iterates
<1>4. ASSUME NEW n \in 1..L PROVE h[n] = step[<<n, h[n - 1]>>]
  <2>1. n - 1 \in Nat /\ (n - 1) + 1 = n /\ n \in Nat
    OBVIOUS
  <2>2. g[n - 1] \in S /\ <<n - 1, g[n - 1]>> \in Nat \X S
    BY <1>2, <2>1 DEF Iterates
  <2>3. g[n] = full[<<n - 1, g[n - 1]>>]
    <3> HIDE DEF full
    <3>1. g[(n - 1) + 1] = full[<<n - 1, g[n - 1]>>]
      BY <1>2, <2>1 DEF Iterates
    <3> QED BY <2>1, <3>1
  <2>4. full[<<n - 1, g[n - 1]>>] = step[<<n, g[n - 1]>>]
    BY <2>1, <2>2
  <2>5. h[n] = g[n] /\ h[n - 1] = g[n - 1]
    BY <2>1
  <2> HIDE DEF h, full
  <2> QED BY <2>3, <2>4, <2>5
<1> HIDE DEF h
<1> QED BY <1>3, <1>4 DEF StepsUpto


-----------------------------------------------------------------------------
(* Numbers and their bytes. *)

LEMMA Bases == Base \in Nat /\ Base >= 2
BY BufferAssumption

LEMMA Products ==
  ASSUME NEW a \in Nat, NEW b \in Nat
  PROVE  a * b \in Nat
OBVIOUS

LEMMA Powers ==
  /\ Power[0] = 1
  /\ \A n \in Nat : Power[n] \in Nat /\ Power[n + 1] = Base * Power[n]
<1> DEFINE step == [q \in Nat \X Nat |-> Base * q[2]]
<1>1. step \in [Nat \X Nat -> Nat]
  BY Bases, Products
<1>2. PICK g : Iterates(g, Nat, 1, step)
  <2> HIDE DEF step
  <2> QED BY <1>1, Recursion
<1>3. \A n \in Nat : g[n] \in Nat /\ g[n + 1] = Base * g[n]
  BY <1>2 DEF Iterates
<1>4. g = [w \in Nat |-> IF w = 0 THEN 1 ELSE Base * g[w - 1]]
  <2>1. g \in [Nat -> Nat] /\ g[0] = 1
    BY <1>2 DEF Iterates
  <2>2. ASSUME NEW w \in Nat, w # 0 PROVE g[w] = Base * g[w - 1]
    <3>1. w - 1 \in Nat /\ (w - 1) + 1 = w
      BY <2>2
    <3>2. g[(w - 1) + 1] = Base * g[w - 1]
      BY <1>3, <3>1
    <3> QED BY <3>1, <3>2
  <2> QED BY <2>1, <2>2
<1>5. Power = [w \in Nat |-> IF w = 0 THEN 1 ELSE Base * Power[w - 1]]
  <2>1. \E h : h = [w \in Nat |-> IF w = 0 THEN 1 ELSE Base * h[w - 1]]
    BY <1>4
  <2> QED BY <2>1, Zenon DEF Power
<1>6. Power[0] = 1 /\ \A n \in Nat : Power[n + 1] = Base * Power[n]
  <2>1. \A w \in Nat : Power[w] = IF w = 0 THEN 1 ELSE Base * Power[w - 1]
    BY <1>5, Zenon
  <2>2. Power[0] = 1
    BY <2>1
  <2>3. ASSUME NEW n \in Nat PROVE Power[n + 1] = Base * Power[n]
    <3>1. n + 1 \in Nat /\ n + 1 # 0 /\ (n + 1) - 1 = n
      OBVIOUS
    <3>2. Power[n + 1] = Base * Power[(n + 1) - 1]
      BY <2>1, <3>1
    <3> QED BY <3>1, <3>2
  <2> QED BY <2>2, <2>3
<1> DEFINE T == {n \in Nat : Power[n] \in Nat}
<1>7. 0 \in T
  BY <1>6
<1>8. ASSUME NEW n \in Nat, n \in T PROVE n + 1 \in T
  BY <1>6, <1>8, Bases, Products
<1>9. Nat \subseteq T
  <2> HIDE DEF T
  <2> QED BY <1>7, <1>8, Induction
<1> QED BY <1>6, <1>9

LEMMA PowersGrow ==
  ASSUME NEW n \in Nat \ {0}
  PROVE  Power[n] \in Nat /\ Power[n] > 1
<1> DEFINE T == {m \in Nat : Power[m] >= 1 /\ (m # 0 => Power[m] > 1)}
<1>1. 0 \in T
  BY Powers
<1>2. ASSUME NEW m \in Nat, m \in T PROVE m + 1 \in T
  <2>1. Power[m] \in Nat /\ Power[m] >= 1 /\ Power[m + 1] = Base * Power[m]
    BY <1>2, Powers
  <2>2. \A b \in Nat, c \in Nat : b >= 2 /\ c >= 1 => b * c > 1
    <3> SUFFICES ASSUME NEW b \in Nat, NEW c \in Nat, b >= 2, c >= 1 PROVE b * c > 1
      OBVIOUS
    <3>1. b * c = b + b * (c - 1) /\ b * (c - 1) >= 0
      BY Products
    <3> QED BY <3>1
  <2>3. Power[m + 1] > 1 /\ Power[m + 1] \in Nat /\ m + 1 \in Nat
    BY <2>1, <2>2, Bases, Powers
  <2> QED BY <2>3
<1>3. n \in T
  <2> HIDE DEF T
  <2> QED BY <1>1, <1>2, Induction
<1> QED BY <1>3, Powers

LEMMA SmallPowers == Power[1] = Base /\ Power[2] = Base * Base
<1>1. Power[0 + 1] = Base * Power[0] /\ Power[1 + 1] = Base * Power[1]
  BY Powers
<1>2. Power[1] = Base
  BY <1>1, Powers, Bases
<1>3. 1 + 1 = 2
  OBVIOUS
<1> QED BY <1>1, <1>2, <1>3

LEMMA Division ==
  ASSUME NEW n \in Nat, NEW d \in Nat \ {0}
  PROVE  /\ n \div d \in Nat /\ n % d \in 0..(d - 1)
         /\ n = d * (n \div d) + (n % d)
OBVIOUS

LEMMA Quotients ==
  ASSUME NEW n \in Nat
  PROVE  /\ n \div Base \in Nat /\ n % Base \in 0..(Base - 1)
         /\ n = Base * (n \div Base) + (n % Base)
<1>1. Base \in Nat \ {0}
  BY Bases
<1> QED BY <1>1, Division

LEMMA LeftIs ==
  ASSUME NEW n \in Nat, NEW w \in Nat
  PROVE  /\ Left(n, w) \in [0..w -> Nat] /\ Left(n, w)[0] = n
         /\ \A b \in 1..w : Left(n, w)[b] = Left(n, w)[b - 1] \div Base
<1> DEFINE step == [q \in (1..w) \X Nat |-> q[2] \div Base]
<1>1. step \in [(1..w) \X Nat -> Nat]
  BY Quotients
<1>2. PICK g : StepsUpto(g, w, Nat, n, step)
  <2> HIDE DEF step
  <2> QED BY <1>1, Steps
<1>3. g \in [0..w -> Nat] /\ g[0] = n
  BY <1>2 DEF StepsUpto
<1>4. \A b \in 1..w : g[b] = g[b - 1] \div Base
  <2> SUFFICES ASSUME NEW b \in 1..w PROVE g[b] = g[b - 1] \div Base
    OBVIOUS
  <2>1. g[b] = step[<<b, g[b - 1]>>]
    BY <1>2 DEF StepsUpto
  <2>2. <<b, g[b - 1]>> \in (1..w) \X Nat
    BY <1>3
  <2> QED BY <2>1, <2>2
<1>5. g = [b \in 0..w |-> IF b = 0 THEN n ELSE g[b - 1] \div Base]
  BY <1>3, <1>4
<1>6. Left(n, w) = [b \in 0..w |-> IF b = 0 THEN n ELSE Left(n, w)[b - 1] \div Base]
  <2>1. \E h : h = [b \in 0..w |-> IF b = 0 THEN n ELSE h[b - 1] \div Base]
    BY <1>5
  <2> QED BY <2>1, Zenon DEF Left
<1>7. Left(n, w)[0] = n /\ \A b \in 1..w : Left(n, w)[b] = Left(n, w)[b - 1] \div Base
  <2>1. \A b \in 0..w : Left(n, w)[b] = IF b = 0 THEN n ELSE Left(n, w)[b - 1] \div Base
    BY <1>6, Zenon
  <2> QED BY <2>1
<1> DEFINE T == {b \in Nat : b <= w => Left(n, w)[b] \in Nat}
<1>8. 0 \in T
  BY <1>7
<1>9. ASSUME NEW b \in Nat, b \in T PROVE b + 1 \in T
  <2> SUFFICES ASSUME b + 1 <= w PROVE Left(n, w)[b + 1] \in Nat
    OBVIOUS
  <2>1. b + 1 \in 1..w /\ (b + 1) - 1 = b /\ Left(n, w)[b] \in Nat
    BY <1>9
  <2>2. Left(n, w)[b + 1] = Left(n, w)[b] \div Base
    BY <1>7, <2>1
  <2> QED BY <2>1, <2>2, Quotients
<1>10. \A b \in 0..w : Left(n, w)[b] \in Nat
  <2>1. Nat \subseteq T
    <3> HIDE DEF T
    <3> QED BY <1>8, <1>9, Induction
  <2> QED BY <2>1
<1> QED BY <1>6, <1>7, <1>10

LEMMA HighIs ==
  ASSUME NEW s \in Seq(Nat)
  PROVE  /\ High(s) \in [0..Len(s) -> Nat] /\ High(s)[0] = 0
         /\ \A b \in 1..Len(s) : High(s)[b] = High(s)[b - 1] * Base + s[Len(s) + 1 - b]
<1> DEFINE L == Len(s)
           byte(b) == s[Len(s) + 1 - b]
           step == [q \in (1..L) \X Nat |-> q[2] * Base + byte(q[1])]
<1>0. L \in Nat /\ \A b \in 1..L : byte(b) \in Nat
  OBVIOUS
<1>1. step \in [(1..L) \X Nat -> Nat]
  <2> HIDE DEF L, byte
  <2>1. \A q \in (1..L) \X Nat : q[2] * Base \in Nat /\ byte(q[1]) \in Nat
    BY <1>0, Bases, Products
  <2> QED BY <2>1
<1>2. PICK g : StepsUpto(g, L, Nat, 0, step)
  <2> HIDE DEF step, L
  <2> QED BY <1>0, <1>1, Steps
<1>3. g \in [0..L -> Nat] /\ g[0] = 0
  BY <1>2 DEF StepsUpto
<1>4. \A b \in 1..L : g[b] = g[b - 1] * Base + byte(b)
  <2> SUFFICES ASSUME NEW b \in 1..L PROVE g[b] = g[b - 1] * Base + byte(b)
    OBVIOUS
  <2>1. g[b] = step[<<b, g[b - 1]>>]
    <3> HIDE DEF L, step
    <3> QED BY <1>2 DEF StepsUpto
  <2>2. <<b, g[b - 1]>> \in (1..L) \X Nat
    <3> HIDE DEF L
    <3> QED BY <1>0, <1>3
  <2> HIDE DEF L, byte
  <2> QED BY <2>1, <2>2
<1>5. g = [b \in 0..Len(s) |-> IF b = 0 THEN 0 ELSE g[b - 1] * Base + s[Len(s) + 1 - b]]
  BY <1>3, <1>4
<1>6. High(s) = [b \in 0..Len(s) |->
                   IF b = 0 THEN 0 ELSE High(s)[b - 1] * Base + s[Len(s) + 1 - b]]
  <2>1. \E h : h = [b \in 0..Len(s) |->
                      IF b = 0 THEN 0 ELSE h[b - 1] * Base + s[Len(s) + 1 - b]]
    BY <1>5
  <2> QED BY <2>1, Zenon DEF High
<1>7. High(s)[0] = 0 /\ \A b \in 1..L : High(s)[b] = High(s)[b - 1] * Base + byte(b)
  <2>1. \A b \in 0..L : High(s)[b] = IF b = 0 THEN 0 ELSE High(s)[b - 1] * Base + byte(b)
    BY <1>6, Zenon
  <2> QED BY <1>0, <2>1
<1> DEFINE T == {b \in Nat : b <= L => High(s)[b] \in Nat}
<1>8. 0 \in T
  BY <1>7
<1>9. ASSUME NEW b \in Nat, b \in T PROVE b + 1 \in T
  <2> SUFFICES ASSUME b + 1 <= L PROVE High(s)[b + 1] \in Nat
    OBVIOUS
  <2> HIDE DEF L, byte
  <2>1. b + 1 \in 1..L /\ (b + 1) - 1 = b /\ High(s)[b] \in Nat
    BY <1>0, <1>9
  <2>2. High(s)[b + 1] = High(s)[b] * Base + byte(b + 1) /\ byte(b + 1) \in Nat
    BY <1>0, <1>7, <2>1
  <2>3. High(s)[b] * Base \in Nat
    BY <2>1, Bases, Products
  <2> QED BY <2>2, <2>3
<1>10. \A b \in 0..L : High(s)[b] \in Nat
  <2>1. Nat \subseteq T
    <3> HIDE DEF T
    <3> QED BY <1>8, <1>9, Induction
  <2> QED BY <1>0, <2>1
<1> QED BY <1>6, <1>7, <1>10

LEMMA NumberIs ==
  ASSUME NEW s \in Seq(Nat)
  PROVE  Number(s) \in Nat
<1>1. Len(s) \in 0..Len(s)
  OBVIOUS
<1> QED BY <1>1, HighIs DEF Number

LEMMA BytesIs ==
  ASSUME NEW n \in Nat, NEW w \in Nat
  PROVE  /\ Bytes(n, w) \in Seq(Nat) /\ Len(Bytes(n, w)) = w
         /\ \A b \in 1..w : Bytes(n, w)[b] = Left(n, w)[b - 1] % Base
<1>1. \A b \in 1..w : Left(n, w)[b - 1] \in Nat
  BY LeftIs
<1>2. \A b \in 1..w : Left(n, w)[b - 1] % Base \in Nat
  BY <1>1, Quotients
<1> QED BY <1>2 DEF Bytes

(* What is left after b bytes fits into the other ones. *)
LEMMA LeftBelow ==
  ASSUME NEW n \in Nat, NEW w \in Nat, n < Power[w]
  PROVE  \A b \in 0..w : Left(n, w)[b] < Power[w - b]
<1> DEFINE T == {b \in Nat : b <= w => Left(n, w)[b] < Power[w - b]}
<1>1. 0 \in T
  <2>1. w - 0 = w
    OBVIOUS
  <2> QED BY <2>1, LeftIs
<1>2. ASSUME NEW b \in Nat, b \in T PROVE b + 1 \in T
  <2> SUFFICES ASSUME b + 1 <= w PROVE Left(n, w)[b + 1] < Power[w - (b + 1)]
    OBVIOUS
  <2> DEFINE r == w - (b + 1)
             x == Left(n, w)[b]
             y == Left(n, w)[b + 1]
  <2>1. r \in Nat /\ r + 1 = w - b /\ b \in 0..w /\ b + 1 \in 1..w /\ (b + 1) - 1 = b
    OBVIOUS
  <2>2. x \in Nat /\ y = x \div Base
    <3>1. x \in Nat
      BY <2>1, LeftIs
    <3>2. y = Left(n, w)[(b + 1) - 1] \div Base
      BY <2>1, LeftIs
    <3> HIDE DEF r, y
    <3> QED BY <2>1, <3>1, <3>2
  <2>3. x < Power[w - b]
    BY <1>2
  <2> HIDE DEF r, x, y
  <2>4. Power[r] \in Nat /\ Power[w - b] = Base * Power[r]
    BY <2>1, Powers
  <2>5. y \in Nat /\ Base * y <= x
    <3>1. y \in Nat /\ x % Base \in 0..(Base - 1) /\ x = Base * y + (x % Base)
      BY <2>2, Quotients
    <3>2. Base * y \in Nat
      BY <3>1, Bases, Products
    <3> QED BY <2>2, <3>1, <3>2
  <2>6. \A p \in Nat : Base * y < Base * p => y < p
    <3> SUFFICES ASSUME NEW p \in Nat, p <= y PROVE Base * p <= Base * y
      BY <2>5, Bases, Products
    <3>1. y - p \in Nat /\ Base * y = Base * p + Base * (y - p)
      BY <2>5, Bases
    <3>2. Base * (y - p) \in Nat /\ Base * p \in Nat
      BY <3>1, Bases, Products
    <3> QED BY <3>1, <3>2
  <2>7. Base * y < Base * Power[r]
    BY <2>2, <2>3, <2>4, <2>5, Bases, Products
  <2>8. y < Power[r]
    BY <2>4, <2>6, <2>7
  <2> QED BY <2>8 DEF r, y
<1>3. Nat \subseteq T
  <2> HIDE DEF T
  <2> QED BY <1>1, <1>2, Induction
<1> QED BY <1>3

(* Reading is the inverse of writing. *)
LEMMA NumberOfBytes ==
  ASSUME NEW n \in Nat, NEW w \in Nat, n < Power[w]
  PROVE  Number(Bytes(n, w)) = n
<1> DEFINE s == Bytes(n, w)
           T == {b \in Nat : b <= w => High(s)[b] = Left(n, w)[w - b]}
<1>0. s \in Seq(Nat) /\ Len(s) = w /\ \A b \in 1..w : s[b] = Left(n, w)[b - 1] % Base
  BY BytesIs
<1> HIDE DEF s
<1>1. High(s)[0] = 0 /\ \A b \in 1..w : High(s)[b] = High(s)[b - 1] * Base + s[w + 1 - b]
  BY <1>0, HighIs
<1>2. 0 \in T
  <2>1. w - 0 = w /\ w - w = 0 /\ w \in 0..w
    OBVIOUS
  <2>2. Left(n, w)[w] \in Nat /\ Left(n, w)[w] < 1
    <3>1. Left(n, w)[w] \in Nat
      BY <2>1, LeftIs
    <3>2. Left(n, w)[w] < Power[w - w]
      BY <2>1, LeftBelow
    <3> QED BY <2>1, <3>1, <3>2, Powers
  <2> QED BY <1>1, <2>1, <2>2
<1>3. ASSUME NEW b \in Nat, b \in T PROVE b + 1 \in T
  <2> SUFFICES ASSUME b + 1 <= w PROVE High(s)[b + 1] = Left(n, w)[w - (b + 1)]
    OBVIOUS
  <2> DEFINE c == w - b
             x == Left(n, w)[c - 1]
  <2>1. /\ c \in 1..w /\ w - (b + 1) = c - 1 /\ b + 1 \in 1..w
        /\ (b + 1) - 1 = b /\ w + 1 - (b + 1) = c
    OBVIOUS
  <2>2. High(s)[b] = Left(n, w)[c]
    BY <1>3
  <2> HIDE DEF c
  <2>3. x \in Nat /\ Left(n, w)[c] = x \div Base
    <3>1. Left(n, w)[c] = Left(n, w)[c - 1] \div Base
      BY <2>1, LeftIs
    <3>2. c - 1 \in 0..w
      BY <2>1
    <3>3. x \in Nat
      <4>1. Left(n, w) \in [0..w -> Nat]
        BY LeftIs
      <4> QED BY <3>2, <4>1
    <3> QED BY <3>1, <3>3
  <2>4. High(s)[b + 1] = High(s)[b] * Base + s[c]
    <3>1. High(s)[b + 1] = High(s)[(b + 1) - 1] * Base + s[w + 1 - (b + 1)]
      BY <1>1, <2>1
    <3> QED BY <2>1, <3>1
  <2>5. s[c] = x % Base
    BY <1>0, <2>1
  <2> HIDE DEF x
  <2>6. (x \div Base) * Base = Base * (x \div Base)
    BY <2>3, Quotients, Bases
  <2>7. High(s)[b + 1] = x
    <3>1. High(s)[b + 1] = (x \div Base) * Base + (x % Base)
      BY <2>2, <2>3, <2>4, <2>5
    <3>2. x = Base * (x \div Base) + (x % Base)
      BY <2>3, Quotients
    <3> QED BY <2>6, <3>1, <3>2
  <2> QED BY <2>1, <2>7 DEF x
<1>4. High(s)[w] = Left(n, w)[0]
  <2>1. Nat \subseteq T
    <3> HIDE DEF T
    <3> QED BY <1>2, <1>3, Induction
  <2>2. w - w = 0
    OBVIOUS
  <2> QED BY <2>1, <2>2
<1> QED BY <1>0, <1>4, LeftIs DEF Number, s

-----------------------------------------------------------------------------
(* Fields, and what is written for them. *)

LEMMA FieldIs ==
  ASSUME NEW fd \in Field
  PROVE  /\ fd.kind \in {"int", "data", "string"} /\ fd.size \in Nat /\ fd.size >= 1
         /\ fd.check \in BOOLEAN
BY DEF Field, Kinds

LEMMA TextIs ==
  ASSUME NEW n \in Nat
  PROVE  Text(n) \in Seq(Nat) /\ Len(Text(n)) = n /\ DOMAIN Text(n) = 1..n
<1>1. Base - 1 \in Nat \ {0}
  BY Bases
<1>2. \A b \in 1..n : 1 + (b % (Base - 1)) \in Nat
  <2> DEFINE d == Base - 1
  <2> HIDE DEF d
  <2>1. ASSUME NEW b \in 1..n PROVE b % d \in 0..(d - 1)
    <3>1. b \in Nat /\ d \in Nat \ {0}
      BY <1>1 DEF d
    <3> QED BY <3>1, Division
  <2>2. \A b \in 1..n : 1 + (b % d) \in Nat
    BY <1>1, <2>1 DEF d
  <2> QED BY <2>2 DEF d
<1> QED BY <1>2 DEF Text

LEMMA ValueIs ==
  ASSUME NEW fd \in Field, NEW v \in ValuesOf(fd)
  PROVE  /\ v \in Nat
         /\ fd.kind = "int" => v < Power[fd.size]
         /\ fd.kind = "data" => v = fd.size
<1>1. fd.size \in Nat \ {0} /\ fd.kind \in {"int", "data", "string"}
  BY FieldIs
<1>2. CASE fd.kind = "int"
  <2>1. v \in {1, Power[fd.size] - 1}
    BY <1>2 DEF ValuesOf
  <2>2. Power[fd.size] \in Nat /\ Power[fd.size] > 1
    BY <1>1, PowersGrow
  <2> QED BY <1>2, <2>1, <2>2
<1>3. CASE fd.kind = "data"
  BY <1>1, <1>3 DEF ValuesOf
<1>4. CASE fd.kind = "string"
  BY <1>1, <1>4 DEF ValuesOf
<1> QED BY <1>1, <1>2, <1>3, <1>4

(* The length of a string that is written fits into its prefix. *)
LEMMA PrefixIs ==
  ASSUME NEW fd \in Field, NEW v \in Nat, fd.kind = "string", ~StringTooLong(fd, v)
  PROVE  /\ PrefixSize(fd.size) \in Nat \ {0} /\ v < Power[PrefixSize(fd.size)]
         /\ ValidMax(fd.size) /\ v <= fd.size - 1
<1>1. fd.size \in Nat /\ fd.size >= 1
  BY FieldIs
<1>2. ValidMax(fd.size) /\ v <= fd.size - 1
  BY <1>1 DEF StringTooLong
<1>3. CASE fd.size - 1 < Base
  BY <1>1, <1>2, <1>3, SmallPowers, Bases DEF PrefixSize
<1>4. CASE ~(fd.size - 1 < Base)
  <2>1. PrefixSize(fd.size) = 2
    BY <1>4 DEF PrefixSize
  <2>2. fd.size < Base * Base /\ Base * Base \in Nat
    BY <1>2, Bases, Products DEF ValidMax
  <2> QED BY <1>1, <1>2, <2>1, <2>2, SmallPowers
<1> QED BY <1>3, <1>4

LEMMA PrefixSizes ==
  ASSUME NEW fd \in Field
  PROVE  PrefixSize(fd.size) \in {1, 2}
BY DEF PrefixSize

LEMMA EncodedIs ==
  ASSUME NEW fd \in Field, NEW v \in ValuesOf(fd)
  PROVE  /\ Encoded(fd, v) \in Seq(Nat) /\ Len(Encoded(fd, v)) >= 1
         /\ fd.kind = "int" => /\ Encoded(fd, v) = Bytes(v, fd.size)
                               /\ Len(Encoded(fd, v)) = fd.size
         /\ fd.kind = "data" => /\ Encoded(fd, v) = Text(v)
                                /\ Len(Encoded(fd, v)) = fd.size
         /\ fd.kind = "string" =>
              LET n == PrefixSize(fd.size) IN
                /\ Len(Encoded(fd, v)) = n + v
                /\ \A b \in 1..n : Encoded(fd, v)[b] = Bytes(v, n)[b]
                /\ \A b \in 1..v : Encoded(fd, v)[n + b] = Text(v)[b]
<1> DEFINE s == Encoded(fd, v)
           n == PrefixSize(fd.size)
<1>1. /\ fd.size \in Nat /\ fd.size >= 1 /\ fd.kind \in {"int", "data", "string"}
      /\ v \in Nat /\ n \in {1, 2}
  BY FieldIs, ValueIs, PrefixSizes
<1>2. CASE fd.kind = "int"
  <2>1. s = Bytes(v, fd.size)
    BY <1>2 DEF Encoded
  <2>2. Bytes(v, fd.size) \in Seq(Nat) /\ Len(Bytes(v, fd.size)) = fd.size
    BY <1>1, BytesIs
  <2> QED BY <1>1, <1>2, <2>1, <2>2
<1>3. CASE fd.kind = "data"
  <2>1. s = Text(v) /\ v = fd.size
    BY <1>3, ValueIs DEF Encoded
  <2>2. Text(v) \in Seq(Nat) /\ Len(Text(v)) = v
    BY <1>1, TextIs
  <2> QED BY <1>1, <1>3, <2>1, <2>2
<1>4. CASE fd.kind = "string"
  <2>1. s = Bytes(v, n) \o Text(v)
    BY <1>4 DEF Encoded
  <2>2. Bytes(v, n) \in Seq(Nat) /\ Len(Bytes(v, n)) = n
    <3> HIDE DEF s, n
    <3>1. v \in Nat /\ n \in Nat
      BY <1>1
    <3> QED BY <3>1, BytesIs
  <2>3. Text(v) \in Seq(Nat) /\ Len(Text(v)) = v
    BY <1>1, TextIs
  <2> HIDE DEF s, n
  <2>4. /\ s \in Seq(Nat) /\ Len(s) = n + v
        /\ \A b \in 1..n : s[b] = Bytes(v, n)[b]
        /\ \A b \in 1..v : s[n + b] = Text(v)[b]
    <3> DEFINE x == Bytes(v, n)
               y == Text(v)
    <3>1. x \in Seq(Nat) /\ y \in Seq(Nat) /\ s = x \o y /\ Len(x) = n /\ Len(y) = v
      BY <2>1, <2>2, <2>3
    <3> HIDE DEF x, y
    <3>2. s \in Seq(Nat) /\ Len(s) = Len(x) + Len(y)
      <4>1. x \o y \in Seq(Nat) /\ Len(x \o y) = Len(x) + Len(y)
        BY <3>1, ConcatProperties
      <4> QED BY <3>1, <4>1
    <3>3. \A b \in 1..Len(x) : s[b] = x[b]
      <4>1. \A b \in 1..(Len(x) + Len(y)) :
              (x \o y)[b] = IF b <= Len(x) THEN x[b] ELSE y[b - Len(x)]
        BY <3>1, ConcatProperties
      <4>2. Len(x) \in Nat /\ Len(y) \in Nat
        BY <3>1
      <4>3. \A b \in 1..Len(x) : b \in 1..(Len(x) + Len(y)) /\ b <= Len(x)
        BY <4>2
      <4> QED BY <3>1, <4>1, <4>3
    <3>4. \A b \in 1..Len(y) : s[Len(x) + b] = y[b]
      BY <3>1
    <3> QED BY <3>1, <3>2, <3>3, <3>4 DEF x, y
  <2>5. Len(s) >= 1
    BY <1>1, <2>4
  <2> QED BY <1>4, <2>4, <2>5 DEF s, n
<1> QED BY <1>1, <1>2, <1>3, <1>4

-----------------------------------------------------------------------------
(* What a read makes of what is in the buffer. *)

Reader == buffer \in Seq(Nat) /\ bufferSize \in Nat /\ bufferSize <= Len(buffer)

LEMMA PieceIs ==
  ASSUME Reader, NEW at \in Nat, NEW n \in Nat, at + n <= bufferSize
  PROVE  /\ Piece(at, n) \in Seq(Nat) /\ Len(Piece(at, n)) = n
         /\ \A b \in 1..n : Piece(at, n)[b] = buffer[at + b]
<1>1. \A b \in 1..n : at + b \in 1..Len(buffer)
  BY DEF Reader
<1>2. \A b \in 1..n : buffer[at + b] \in Nat
  BY <1>1 DEF Reader
<1> QED BY <1>2 DEF Piece

LEMMA PieceOf ==
  ASSUME Reader, NEW at \in Nat, NEW s \in Seq(Nat), at + Len(s) <= bufferSize,
         \A b \in 1..Len(s) : buffer[at + b] = s[b]
  PROVE  Piece(at, Len(s)) = s
<1>1. Len(s) \in Nat
  OBVIOUS
<1>2. Piece(at, Len(s)) = [b \in 1..Len(s) |-> s[b]]
  BY DEF Piece
<1> QED BY <1>2

LEMMA ReadIntIs ==
  ASSUME Reader, NEW at \in 0..bufferSize, NEW w \in Nat
  PROVE  /\ ReadInt(at, w).index = IF at + w > bufferSize THEN bufferSize ELSE at + w
         /\ ReadInt(at, w).failed <=> at + w > bufferSize
        /\ ReadInt(at, w).failed \in BOOLEAN
         /\ ReadInt(at, w).value \in Nat
         /\ ReadInt(at, w).value = IF at + w > bufferSize THEN 0 ELSE Number(Piece(at, w))
<1>1. CASE at + w > bufferSize
  BY <1>1 DEF ReadInt, Short, Outcome
<1>2. CASE ~(at + w > bufferSize)
  <2>1. ReadInt(at, w) = Outcome(at + w, FALSE, Number(Piece(at, w)))
    BY <1>2 DEF ReadInt, Short
  <2>2. Number(Piece(at, w)) \in Nat
    <3>1. at \in Nat /\ at + w <= bufferSize
      BY <1>2 DEF Reader
    <3>2. Piece(at, w) \in Seq(Nat)
      BY <3>1, PieceIs
    <3> QED BY <3>2, NumberIs
  <2>3. /\ ReadInt(at, w).index = at + w /\ ReadInt(at, w).failed = FALSE
        /\ ReadInt(at, w).value = Number(Piece(at, w))
    BY <2>1 DEF Outcome
  <2> QED BY <1>2, <2>2, <2>3
<1> QED BY <1>1, <1>2

LEMMA ReadIntOf ==
  ASSUME Reader, NEW at \in 0..bufferSize, NEW w \in Nat, NEW v \in Nat, v < Power[w],
         at + w <= bufferSize, \A b \in 1..w : buffer[at + b] = Bytes(v, w)[b]
  PROVE  ReadInt(at, w).value = v
<1>1. Bytes(v, w) \in Seq(Nat) /\ Len(Bytes(v, w)) = w
  BY BytesIs
<1>2. Piece(at, w) = Bytes(v, w)
  <2> DEFINE s == Bytes(v, w)
  <2>1. s \in Seq(Nat) /\ Len(s) = w
    BY <1>1
  <2>2. at + Len(s) <= bufferSize /\ (\A b \in 1..Len(s) : buffer[at + b] = s[b])
        /\ at \in Nat
    BY <2>1 DEF Reader
  <2> HIDE DEF s
  <2>3. Piece(at, Len(s)) = s
    BY <2>1, <2>2, PieceOf
  <2> QED BY <2>1, <2>3 DEF s
<1>3. ~(at + w > bufferSize)
  BY DEF Reader
<1>4. ReadInt(at, w).value = Number(Piece(at, w))
  BY <1>3, ReadIntIs
<1> QED BY <1>2, <1>4, NumberOfBytes

LEMMA ReadDataIs ==
  ASSUME Reader, NEW at \in 0..bufferSize, NEW n \in Nat
  PROVE  /\ ReadData(at, n).index = IF at + n > bufferSize THEN bufferSize ELSE at + n
         /\ ReadData(at, n).failed <=> at + n > bufferSize
         /\ ReadData(at, n).failed \in BOOLEAN
         /\ ReadData(at, n).value \in Seq(Nat)
         /\ ReadData(at, n).value = IF at + n > bufferSize THEN <<>> ELSE Piece(at, n)
<1>1. CASE at + n > bufferSize
  BY <1>1 DEF ReadData, Short, Outcome
<1>2. CASE ~(at + n > bufferSize)
  <2>1. ReadData(at, n) = Outcome(at + n, FALSE, Piece(at, n))
    BY <1>2 DEF ReadData, Short
  <2>2. Piece(at, n) \in Seq(Nat)
    BY <1>2, PieceIs DEF Reader
  <2>3. /\ ReadData(at, n).index = at + n /\ ReadData(at, n).failed = FALSE
        /\ ReadData(at, n).value = Piece(at, n)
    BY <2>1 DEF Outcome
  <2> QED BY <1>2, <2>2, <2>3
<1> QED BY <1>1, <1>2

LEMMA ReadStringIs ==
  ASSUME Reader, NEW at \in 0..bufferSize, NEW max \in Nat
  PROVE  LET prefix == ReadInt(at, PrefixSize(max))
             i == prefix.index
             n == prefix.value
             out == ReadString(at, max)
         IN /\ out.index \in 0..bufferSize /\ out.failed \in BOOLEAN
            /\ out.value \in Seq(Nat)
            /\ out.failed <=> \/ ~ValidMax(max) \/ prefix.failed
                              \/ LengthInvalid(n, max) \/ i + n > bufferSize
            /\ ~out.failed => out.index = i + n /\ out.value = Piece(i, n)
<1> DEFINE prefix == ReadInt(at, PrefixSize(max))
           i == prefix.index
           n == prefix.value
           out == ReadString(at, max)
           bad == prefix.failed \/ LengthInvalid(n, max) \/ Short(i, n)
<1> SUFFICES /\ out.index \in 0..bufferSize /\ out.failed \in BOOLEAN
             /\ out.value \in Seq(Nat)
             /\ out.failed <=> \/ ~ValidMax(max) \/ prefix.failed
                               \/ LengthInvalid(n, max) \/ i + n > bufferSize
             /\ ~out.failed => out.index = i + n /\ out.value = Piece(i, n)
  OBVIOUS
<1>1. PrefixSize(max) \in Nat
  BY DEF PrefixSize
<1>2. i \in 0..bufferSize /\ n \in Nat
  <2>1. /\ i = IF at + PrefixSize(max) > bufferSize THEN bufferSize ELSE at + PrefixSize(max)
        /\ n \in Nat
    BY <1>1, ReadIntIs
  <2> HIDE DEF i, n
  <2> QED BY <1>1, <2>1 DEF Reader
<1>3. CASE ~ValidMax(max)
  <2>1. out = Outcome(at, TRUE, <<>>)
    BY <1>3 DEF ReadString
  <2>2. out.index = at /\ out.failed = TRUE /\ out.value = <<>>
    BY <2>1 DEF Outcome
  <2>3. <<>> \in Seq(Nat)
    OBVIOUS
  <2> HIDE DEF out, prefix
  <2> QED BY <1>3, <2>2, <2>3
<1>4. CASE ValidMax(max) /\ bad
  <2>1. out = Outcome(i, TRUE, <<>>)
    BY <1>4 DEF ReadString
  <2>2. out.index = i /\ out.failed = TRUE /\ out.value = <<>>
    BY <2>1 DEF Outcome
  <2>3. prefix.failed \/ LengthInvalid(n, max) \/ i + n > bufferSize
    BY <1>4 DEF Short
  <2>4. <<>> \in Seq(Nat)
    OBVIOUS
  <2> HIDE DEF out, prefix
  <2> QED BY <1>2, <1>4, <2>2, <2>3, <2>4
<1>5. CASE ValidMax(max) /\ ~bad
  <2>1. out = Outcome(i + n, FALSE, Piece(i, n))
    BY <1>5 DEF ReadString
  <2>2. out.index = i + n /\ out.failed = FALSE /\ out.value = Piece(i, n)
    BY <2>1 DEF Outcome
  <2>3. ~(prefix.failed \/ LengthInvalid(n, max) \/ i + n > bufferSize)
    BY <1>5 DEF Short
  <2>4. i + n \in 0..bufferSize
    <3> HIDE DEF prefix
    <3> QED BY <1>2, <2>3 DEF Reader
  <2>5. Piece(i, n) \in Seq(Nat)
    <3>1. i \in Nat /\ n \in Nat /\ i + n <= bufferSize
      <4> HIDE DEF prefix
      <4> QED BY <1>2, <2>4 DEF Reader
    <3> HIDE DEF prefix
    <3> QED BY <3>1, PieceIs
  <2> HIDE DEF out, prefix
  <2> QED BY <1>5, <2>2, <2>3, <2>4, <2>5
<1> QED BY <1>3, <1>4, <1>5

LEMMA ReadOfIs ==
  ASSUME Reader, parserIndex \in 0..bufferSize, NEW fd \in Field
  PROVE  /\ ReadOf(fd).index \in 0..bufferSize /\ ReadOf(fd).failed \in BOOLEAN
         /\ ReadOf(fd).value \in Nat \cup Seq(Nat)
         /\ fd.kind # "string" =>
              /\ ReadOf(fd).failed <=> parserIndex + fd.size > bufferSize
              /\ ReadOf(fd).index = IF parserIndex + fd.size > bufferSize
                                    THEN bufferSize ELSE parserIndex + fd.size
<1>1. fd.kind \in {"int", "data", "string"} /\ fd.size \in Nat /\ fd.size >= 1
  BY FieldIs
<1>2. \A b \in 0..bufferSize, c \in Nat :
        (IF b + c > bufferSize THEN bufferSize ELSE b + c) \in 0..bufferSize
  BY DEF Reader
<1>3. CASE fd.kind = "int"
  <2>1. ReadOf(fd) = ReadInt(parserIndex, fd.size)
    BY <1>3 DEF ReadOf
  <2>2. /\ ReadOf(fd).index = IF parserIndex + fd.size > bufferSize
                              THEN bufferSize ELSE parserIndex + fd.size
        /\ ReadOf(fd).failed <=> parserIndex + fd.size > bufferSize
        /\ ReadOf(fd).failed \in BOOLEAN /\ ReadOf(fd).value \in Nat
    BY <1>1, <2>1, ReadIntIs
  <2> QED BY <1>1, <1>2, <2>2
<1>4. CASE fd.kind = "data"
  <2>1. ReadOf(fd) = ReadData(parserIndex, fd.size)
    BY <1>4 DEF ReadOf
  <2>2. /\ ReadOf(fd).index = IF parserIndex + fd.size > bufferSize
                              THEN bufferSize ELSE parserIndex + fd.size
        /\ ReadOf(fd).failed <=> parserIndex + fd.size > bufferSize
        /\ ReadOf(fd).failed \in BOOLEAN /\ ReadOf(fd).value \in Seq(Nat)
    <3>1. /\ ReadData(parserIndex, fd.size).index =
                IF parserIndex + fd.size > bufferSize
                THEN bufferSize ELSE parserIndex + fd.size
          /\ ReadData(parserIndex, fd.size).failed <=> parserIndex + fd.size > bufferSize
      BY <1>1, ReadDataIs
    <3>2. /\ ReadData(parserIndex, fd.size).failed \in BOOLEAN
          /\ ReadData(parserIndex, fd.size).value \in Seq(Nat)
      BY <1>1, ReadDataIs
    <3> QED BY <2>1, <3>1, <3>2
  <2> QED BY <1>1, <1>2, <2>2
<1>5. CASE fd.kind = "string"
  <2>1. ReadOf(fd) = ReadString(parserIndex, fd.size)
    BY <1>5 DEF ReadOf
  <2>2. /\ ReadString(parserIndex, fd.size).index \in 0..bufferSize
        /\ ReadString(parserIndex, fd.size).failed \in BOOLEAN
        /\ ReadString(parserIndex, fd.size).value \in Seq(Nat)
    BY <1>1, ReadStringIs
  <2> QED BY <1>5, <2>1, <2>2
<1> QED BY <1>1, <1>3, <1>4, <1>5

(* The bytes of s are in the buffer behind at, as far as it is filled. *)
Holds(at, s) == \A b \in 1..Len(s) : at + b <= bufferSize => buffer[at + b] = s[b]

(* A field that is there in full is read as it was written, but for a      *)
(* string of the greatest length.                                          *)
LEMMA ReadBack ==
  ASSUME Reader, parserIndex \in Nat, NEW fd \in Field, NEW v \in ValuesOf(fd),
         ~StringTooLong(fd, v),
         parserIndex + Len(Encoded(fd, v)) <= bufferSize,
         Holds(parserIndex, Encoded(fd, v))
  PROVE  IF fd.kind = "string" /\ v = fd.size - 1 THEN ReadOf(fd).failed
         ELSE /\ ~ReadOf(fd).failed
              /\ ReadOf(fd).index = parserIndex + Len(Encoded(fd, v))
              /\ ReadOf(fd).value = AsRead(fd, v)
<1> DEFINE s == Encoded(fd, v)
           at == parserIndex
           size == fd.size
<1>1. /\ fd.kind \in {"int", "data", "string"} /\ size \in Nat /\ size >= 1 /\ v \in Nat
      /\ s \in Seq(Nat) /\ Len(s) \in Nat /\ bufferSize \in Nat
  BY FieldIs, ValueIs, EncodedIs DEF Reader
<1>2. \A b \in 1..Len(s) : buffer[at + b] = s[b]
  <2> HIDE DEF s
  <2>1. \A b \in 1..Len(s) : at + b <= bufferSize
    BY <1>1 DEF s
  <2> QED BY <2>1 DEF Holds, s
<1>3. at \in 0..bufferSize
  BY <1>1
<1>4. CASE fd.kind = "int"
  <2>1. ReadOf(fd) = ReadInt(at, size)
    BY <1>4 DEF ReadOf
  <2>2. s = Bytes(v, size) /\ Len(s) = size /\ v < Power[size]
    BY <1>4, EncodedIs, ValueIs
  <2>3. ReadInt(at, size).value = v
    <3>1. \A b \in 1..size : buffer[at + b] = Bytes(v, size)[b]
      BY <1>2, <2>2
    <3>2. at + size <= bufferSize
      BY <2>2
    <3> QED BY <1>1, <1>3, <2>2, <3>1, <3>2, ReadIntOf
  <2>4. ~(at + size > bufferSize)
    BY <1>1, <2>2
  <2>5. ~ReadInt(at, size).failed /\ ReadInt(at, size).index = at + size
    BY <1>1, <1>3, <2>4, ReadIntIs
  <2>6. AsRead(fd, v) = v
    BY <1>4 DEF AsRead
  <2> QED BY <1>4, <2>1, <2>2, <2>3, <2>5, <2>6
<1>5. CASE fd.kind = "data"
  <2>1. ReadOf(fd) = ReadData(at, size)
    BY <1>5 DEF ReadOf
  <2>2. s = Text(v) /\ Len(s) = size
    BY <1>5, EncodedIs
  <2>3. Piece(at, size) = s
    <3>1. Piece(at, Len(s)) = s
      <4> HIDE DEF s
      <4>1. at + Len(s) <= bufferSize
        BY DEF s
      <4> QED BY <1>1, <1>2, <4>1, PieceOf
    <3> QED BY <2>2, <3>1
  <2>4. ~(at + size > bufferSize)
    BY <1>1, <2>2
  <2>5. /\ ~ReadData(at, size).failed /\ ReadData(at, size).index = at + size
        /\ ReadData(at, size).value = Piece(at, size)
    BY <1>1, <1>3, <2>4, ReadDataIs
  <2>6. AsRead(fd, v) = Text(v)
    BY <1>5 DEF AsRead
  <2> QED BY <1>5, <2>1, <2>2, <2>3, <2>5, <2>6
<1>6. CASE fd.kind = "string"
  <2> DEFINE w == PrefixSize(size)
             prefix == ReadInt(at, w)
             out == ReadString(at, size)
  <2>1. ReadOf(fd) = out
    BY <1>6 DEF ReadOf
  <2>2. /\ Len(s) = w + v /\ \A b \in 1..w : s[b] = Bytes(v, w)[b]
        /\ \A b \in 1..v : s[w + b] = Text(v)[b]
    BY <1>6, EncodedIs
  <2>3. w \in Nat \ {0} /\ v < Power[w] /\ ValidMax(size) /\ v <= size - 1
    BY <1>1, <1>6, PrefixIs
  <2>4. at + w <= bufferSize /\ at + w + v <= bufferSize
    <3> HIDE DEF w, s
    <3>1. at + Len(s) <= bufferSize
      BY DEF s
    <3> QED BY <1>1, <2>2, <2>3, <3>1
  <2>5. \A b \in 1..w : buffer[at + b] = Bytes(v, w)[b]
    <3> HIDE DEF w, s
    <3>1. \A b \in 1..w : b \in 1..Len(s)
      BY <1>1, <2>2, <2>3
    <3> QED BY <1>2, <2>2, <3>1
  <2>6. prefix.value = v
    <3> HIDE DEF w
    <3> QED BY <1>1, <1>3, <2>3, <2>4, <2>5, ReadIntOf
  <2>7. prefix.index = at + w /\ ~prefix.failed
    <3>1. ~(at + w > bufferSize)
      <4> HIDE DEF w
      <4> QED BY <1>1, <2>3, <2>4
    <3> HIDE DEF w
    <3> QED BY <1>1, <1>3, <2>3, <3>1, ReadIntIs
  <2>8. Piece(at + w, v) = Text(v)
    <3> DEFINE t == Text(v)
               a == at + w
    <3>1. t \in Seq(Nat) /\ Len(t) = v
      BY <1>1, TextIs
    <3>2. \A b \in 1..v : w + b \in 1..Len(s) /\ a + b = at + (w + b)
      <4> HIDE DEF w, s
      <4>1. w \in Nat /\ Len(s) = w + v /\ v \in Nat /\ at \in Nat
        BY <1>1, <1>3, <2>2, <2>3
      <4>2. \A b \in 1..v : w + b \in 1..Len(s)
        BY <4>1
      <4>3. \A b \in 1..v : a + b = at + (w + b)
        BY <4>1
      <4> QED BY <4>2, <4>3
    <3>3. \A b \in 1..v : buffer[a + b] = t[b]
      <4> HIDE DEF w, s, a
      <4> QED BY <1>2, <2>2, <3>2
    <3>4. a \in Nat /\ a + v <= bufferSize
      <4> HIDE DEF w
      <4> QED BY <1>1, <2>3, <2>4
    <3> HIDE DEF t, a
    <3>5. Piece(a, Len(t)) = t
      BY <3>1, <3>3, <3>4, PieceOf
    <3> QED BY <3>1, <3>5 DEF t, a
  <2>9. /\ out.failed <=> \/ ~ValidMax(size) \/ prefix.failed
                          \/ LengthInvalid(prefix.value, size)
                          \/ prefix.index + prefix.value > bufferSize
        /\ ~out.failed => /\ out.index = prefix.index + prefix.value
                          /\ out.value = Piece(prefix.index, prefix.value)
    BY <1>1, <1>3, ReadStringIs
  <2>10. AsRead(fd, v) = Text(v)
    BY <1>6 DEF AsRead
  <2>11. LengthInvalid(v, size) <=> v = size - 1
    <3> HIDE DEF size
    <3> QED BY <1>1, <2>3 DEF LengthInvalid
  <2>12. at + w + v = at + Len(s) /\ ~(at + w + v > bufferSize)
    <3> HIDE DEF w, s
    <3> QED BY <1>1, <2>2, <2>3, <2>4
  <2> HIDE DEF out, prefix, w, s
  <2>13. out.failed <=> v = size - 1
    BY <2>3, <2>6, <2>7, <2>9, <2>11, <2>12
  <2>14. ~out.failed => out.index = at + Len(s) /\ out.value = Text(v)
    BY <2>6, <2>7, <2>8, <2>9, <2>12
  <2> QED BY <1>6, <2>1, <2>10, <2>13, <2>14 DEF s
<1> QED BY <1>1, <1>4, <1>5, <1>6

(* A string that is read without an error, from where it was written or    *)
(* from the end of what arrived, is there in full.                         *)
LEMMA StringBack ==
  ASSUME Reader, NEW fd \in Field, NEW v \in ValuesOf(fd), NEW e \in Nat,
         fd.kind = "string", ~StringTooLong(fd, v),
         parserIndex = IF e <= bufferSize THEN e ELSE bufferSize,
         Holds(e, Encoded(fd, v)), ~ReadOf(fd).failed
  PROVE  /\ e + Len(Encoded(fd, v)) <= bufferSize
         /\ ReadOf(fd).index = e + Len(Encoded(fd, v))
<1> DEFINE s == Encoded(fd, v)
           at == parserIndex
           size == fd.size
           w == PrefixSize(size)
           prefix == ReadInt(at, w)
           out == ReadString(at, size)
<1>1. /\ size \in Nat /\ v \in Nat /\ s \in Seq(Nat) /\ Len(s) \in Nat
      /\ bufferSize \in Nat /\ at \in 0..bufferSize
  BY FieldIs, ValueIs, EncodedIs DEF Reader
<1>2. ReadOf(fd) = out
  BY DEF ReadOf
<1>3. Len(s) = w + v /\ \A b \in 1..w : s[b] = Bytes(v, w)[b]
  BY EncodedIs
<1>4. w \in Nat \ {0} /\ v < Power[w]
  BY <1>1, PrefixIs
<1>5. /\ out.failed <=> \/ ~ValidMax(size) \/ prefix.failed
                        \/ LengthInvalid(prefix.value, size)
                        \/ prefix.index + prefix.value > bufferSize
      /\ ~out.failed => out.index = prefix.index + prefix.value
  BY <1>1, ReadStringIs
<1>6. ~prefix.failed /\ ~(prefix.index + prefix.value > bufferSize)
  <2> HIDE DEF prefix, out
  <2> QED BY <1>2, <1>5
<1>7. ~(at + w > bufferSize) /\ prefix.index = at + w
  <2> HIDE DEF w
  <2> QED BY <1>1, <1>4, <1>6, ReadIntIs
<1>8. at = e /\ e + w <= bufferSize
  <2> HIDE DEF w
  <2> QED BY <1>1, <1>4, <1>7
<1>9. prefix.value = v
  <2>1. \A b \in 1..w : buffer[at + b] = Bytes(v, w)[b]
    <3> HIDE DEF w, s
    <3>1. \A b \in 1..w : b \in 1..Len(s) /\ at + b <= bufferSize
      BY <1>1, <1>3, <1>4, <1>8
    <3> QED BY <1>3, <1>8, <3>1 DEF Holds, s
  <2> HIDE DEF w
  <2>2. at + w <= bufferSize
    BY <1>8
  <2> QED BY <1>1, <1>4, <2>1, <2>2, ReadIntOf
<1> HIDE DEF out, prefix, w, s
<1>10. out.index = e + w + v /\ ~(e + w + v > bufferSize)
  BY <1>2, <1>5, <1>6, <1>7, <1>8, <1>9
<1>11. e + w + v = e + Len(s)
  BY <1>1, <1>3, <1>4
<1>12. out.index = e + Len(s) /\ e + Len(s) <= bufferSize
  BY <1>1, <1>10, <1>11
<1> QED BY <1>2, <1>12 DEF s

-----------------------------------------------------------------------------
(* The inductive invariant.  e: where the fields end in the packet.        *)

TypeInv ==
  /\ stage \in {"write", "read", "done"} /\ layout \in Layouts
  /\ k \in 1..(Len(layout) + 1)
  /\ values \in Seq(Nat)
  /\ Len(values) = IF stage = "write" THEN k - 1 ELSE Len(layout)
  /\ \A j \in 1..Len(values) : values[j] \in ValuesOf(layout[j])
  /\ sendBuffer \in Seq(Nat) /\ Len(sendBuffer) <= WriteLimit
  /\ writeFailed \in BOOLEAN /\ error \in BOOLEAN /\ readFailed \in BOOLEAN
  /\ cut \in 0..Len(sendBuffer)
  /\ Reader /\ parserIndex \in 0..bufferSize
  /\ results \in Seq(Nat \cup Seq(Nat))

(* What travelled is in the reader's buffer. *)
ArrivedInv ==
  stage # "write" => /\ bufferSize = Len(sendBuffer) - cut
                     /\ \A b \in 1..bufferSize : buffer[b] = sendBuffer[b]

VerdictInv ==
  /\ stage # "done" => verdict = None
  /\ stage = "done" => \/ verdict = "handled" /\ k = Len(layout) + 1
                       \/ verdict = "refused" /\ readFailed

(* The fields of lay with the values vals are in buf, each where e has it. *)
Placed(e, j, lay, vals, buf) ==
  LET s == Encoded(lay[j], vals[j]) IN
    /\ ~StringTooLong(lay[j], vals[j])
    /\ e[j] = e[j - 1] + Len(s) /\ e[j] <= Len(buf)
    /\ \A b \in 1..Len(s) : buf[e[j - 1] + b] = s[b]

Written(e, lay, vals, buf) ==
  /\ e \in [0..Len(vals) -> Nat] /\ e[0] = 0 /\ e[Len(vals)] = Len(buf)
  /\ \A j \in 1..Len(vals) : Placed(e, j, lay, vals, buf)

EndsAt(e) == Written(e, layout, values, sendBuffer)

IsLongest(j) == layout[j].kind = "string" /\ values[j] = layout[j].size - 1

(* A packet that is there in full is read as it was written, until a       *)
(* string of the greatest length.                                          *)
WholeInv(e) ==
  stage # "write" /\ cut = 0 =>
    IF \E j \in 1..(k - 1) : IsLongest(j) THEN readFailed
    ELSE /\ ~readFailed /\ parserIndex = e[k - 1]
         /\ results = [j \in 1..(k - 1) |-> AsRead(layout[j], values[j])]

StringsChecked(n) == \A h \in 1..n : layout[h].kind = "string" => layout[h].check

(* A packet cut short is read as far as it goes; the fields that were      *)
(* checked were there.                                                     *)
CutInv(e) ==
  stage # "write" /\ verdict # "refused" =>
    /\ StringsChecked(k - 1) =>
         parserIndex = IF e[k - 1] <= bufferSize THEN e[k - 1] ELSE bufferSize
    /\ \A j \in 1..(k - 1) :
         layout[j].check /\ StringsChecked(j - 1) => e[j] <= bufferSize

Inv ==
  /\ TypeInv /\ ArrivedInv /\ VerdictInv
  /\ ~writeFailed => \E e : EndsAt(e) /\ WholeInv(e) /\ CutInv(e)

(* The packet before any field. *)
LEMMA NothingWritten ==
  ASSUME NEW lay
  PROVE  \E e : Written(e, lay, <<>>, <<>>)
<1> DEFINE e == [n \in 0..0 |-> 0]
<1>1. e \in [0..Len(<<>>) -> Nat] /\ e[0] = 0 /\ e[Len(<<>>)] = Len(<<>>)
  OBVIOUS
<1>2. \A j \in 1..Len(<<>>) : FALSE
  OBVIOUS
<1> HIDE DEF e
<1>3. \A j \in 1..Len(<<>>) : Placed(e, j, lay, <<>>, <<>>)
  BY <1>2
<1>4. Written(e, lay, <<>>, <<>>)
  BY <1>1, <1>3 DEF Written
<1> QED BY <1>4

(* One field more. *)
LEMMA FieldWritten ==
  ASSUME NEW lay, NEW vals \in Seq(Nat), NEW buf \in Seq(Nat), NEW e,
         Written(e, lay, vals, buf),
         \A j \in 1..Len(vals) : Encoded(lay[j], vals[j]) \in Seq(Nat),
         NEW v \in Nat, NEW fd, lay[Len(vals) + 1] = fd,
         Encoded(fd, v) \in Seq(Nat), ~StringTooLong(fd, v)
  PROVE  \E g : Written(g, lay, Append(vals, v), buf \o Encoded(fd, v))
<1> DEFINE n == Len(vals)
           s == Encoded(fd, v)
           now == Append(vals, v)
           all == buf \o s
           g == [m \in 0..(n + 1) |-> IF m = n + 1 THEN e[n] + Len(s) ELSE e[m]]
<1>1. /\ n \in Nat /\ Len(now) = n + 1 /\ now[n + 1] = v
      /\ \A j \in 1..n : now[j] = vals[j]
  OBVIOUS
<1>2. /\ all \in Seq(Nat) /\ Len(all) = Len(buf) + Len(s)
      /\ \A b \in 1..Len(buf) : all[b] = buf[b]
      /\ \A b \in 1..Len(s) : all[Len(buf) + b] = s[b]
      /\ Len(buf) \in Nat /\ Len(s) \in Nat
  <2> HIDE DEF s
  <2>0. s \in Seq(Nat)
    BY DEF s
  <2>1. /\ all \in Seq(Nat) /\ Len(all) = Len(buf) + Len(s)
        /\ \A b \in 1..(Len(buf) + Len(s)) :
             all[b] = IF b <= Len(buf) THEN buf[b] ELSE s[b - Len(buf)]
    BY <2>0, ConcatProperties
  <2>2. Len(buf) \in Nat /\ Len(s) \in Nat
    BY <2>0
  <2> HIDE DEF all
  <2>3. ASSUME NEW b \in 1..Len(buf) PROVE all[b] = buf[b]
    <3>1. b \in 1..(Len(buf) + Len(s)) /\ b <= Len(buf)
      BY <2>2
    <3> QED BY <2>1, <3>1
  <2>4. ASSUME NEW b \in 1..Len(s) PROVE all[Len(buf) + b] = s[b]
    <3>1. /\ Len(buf) + b \in 1..(Len(buf) + Len(s)) /\ ~(Len(buf) + b <= Len(buf))
          /\ (Len(buf) + b) - Len(buf) = b
      BY <2>2
    <3> QED BY <2>1, <3>1
  <2> QED BY <2>1, <2>2, <2>3, <2>4
<1>3. /\ e \in [0..n -> Nat] /\ e[0] = 0 /\ e[n] = Len(buf)
      /\ \A j \in 1..n : Placed(e, j, lay, vals, buf)
  BY DEF Written
<1> HIDE DEF now, all, n
<1>4. /\ g \in [0..(n + 1) -> Nat] /\ g[0] = 0 /\ g[n + 1] = Len(all)
      /\ \A m \in 0..n : g[m] = e[m]
  <2> HIDE DEF s
  <2>1. e[n] + Len(s) \in Nat
    BY <1>1, <1>2, <1>3
  <2>2. g \in [0..(n + 1) -> Nat]
    BY <1>1, <1>3, <2>1
  <2>3. g[n + 1] = e[n] + Len(s) /\ \A m \in 0..n : g[m] = e[m]
    BY <1>1
  <2> HIDE DEF g
  <2> QED BY <1>1, <1>2, <1>3, <2>2, <2>3
<1> HIDE DEF g
<1>5. ASSUME NEW j \in 1..n PROVE Placed(g, j, lay, now, all)
  <2> DEFINE t == Encoded(lay[j], vals[j])
  <2>1. /\ ~StringTooLong(lay[j], vals[j])
        /\ e[j] = e[j - 1] + Len(t) /\ e[j] <= Len(buf)
        /\ \A b \in 1..Len(t) : buf[e[j - 1] + b] = t[b]
    BY <1>3 DEF Placed
  <2>2. now[j] = vals[j] /\ g[j] = e[j] /\ g[j - 1] = e[j - 1] /\ e[j - 1] \in Nat
    BY <1>1, <1>3, <1>4
  <2> HIDE DEF t, s
  <2>3. \A b \in 1..Len(t) : e[j - 1] + b \in 1..Len(buf)
    <3>1. e[j] \in Nat /\ e[j - 1] \in Nat /\ Len(t) \in Nat
      <4>1. t \in Seq(Nat)
        BY DEF n, t
      <4> QED BY <1>1, <1>3, <4>1
    <3>2. ASSUME NEW b \in 1..Len(t) PROVE e[j - 1] + b \in 1..Len(buf)
      <4>1. Len(buf) \in Nat /\ e[j] = e[j - 1] + Len(t) /\ e[j] <= Len(buf)
        BY <1>2, <2>1
      <4>2. b \in Nat /\ b >= 1 /\ b <= Len(t)
        BY <3>1
      <4>3. PICK a \in Nat, l \in Nat, c \in Nat :
              a = e[j - 1] /\ l = Len(t) /\ c = Len(buf)
        BY <3>1, <4>1
      <4>4. a + l <= c /\ b <= l
        BY <4>1, <4>2, <4>3
      <4>5. a + b \in 1..c
        BY <4>2, <4>4
      <4> QED BY <4>3, <4>5
    <3> QED BY <3>2
  <2>4. \A b \in 1..Len(t) : all[e[j - 1] + b] = t[b]
    BY <1>2, <2>1, <2>3
  <2>5. e[j] <= Len(all)
    <3>1. e[j] \in Nat
      BY <1>1, <1>3
    <3> QED BY <1>2, <2>1, <3>1
  <2> QED BY <2>1, <2>2, <2>4, <2>5 DEF Placed, t
<1>6. Placed(g, n + 1, lay, now, all)
  <2>1. (n + 1) - 1 = n /\ g[n] = Len(buf) /\ lay[n + 1] = fd
    <3>1. lay[n + 1] = fd
      BY DEF n
    <3>2. (n + 1) - 1 = n /\ n \in 0..n
      BY <1>1
    <3> QED BY <1>3, <1>4, <3>1, <3>2
  <2>2. g[n + 1] = g[n] + Len(s) /\ g[n + 1] <= Len(all)
    <3> HIDE DEF s
    <3> QED BY <1>2, <1>4, <2>1
  <2>3. \A b \in 1..Len(s) : all[g[n] + b] = s[b]
    <3> HIDE DEF s
    <3> QED BY <1>2, <2>1
  <2> QED BY <1>1, <2>1, <2>2, <2>3 DEF Placed
<1>7. \A j \in 1..(n + 1) : Placed(g, j, lay, now, all)
  <2>1. \A j \in 1..(n + 1) : j \in 1..n \/ j = n + 1
    BY <1>1
  <2> QED BY <1>5, <1>6, <2>1
<1>8. Written(g, lay, now, all)
  BY <1>1, <1>4, <1>7 DEF Written
<1> QED BY <1>8 DEF now, all

LEMMA LayoutIs ==
  ASSUME NEW lay \in Layouts
  PROVE  /\ lay \in Seq(Field) /\ Len(lay) \in Nat
         /\ \A j \in 1..Len(lay) : lay[j] \in Field
<1>1. lay \in Seq(Field)
  BY BufferAssumption
<1> QED BY <1>1

LEMMA InvInit == Init => Inv
<1> SUFFICES ASSUME Init PROVE Inv
  OBVIOUS
<1> USE DEF Init
<1>1. Len(layout) \in Nat /\ ReadLimit \in Nat /\ WriteLimit \in Nat
  BY LayoutIs, BufferAssumption
<1>2. TypeInv
  <2>1. k \in 1..(Len(layout) + 1)
    BY <1>1
  <2>2. /\ values \in Seq(Nat) /\ Len(values) = k - 1
        /\ \A j \in 1..Len(values) : values[j] \in ValuesOf(layout[j])
    OBVIOUS
  <2>3. sendBuffer \in Seq(Nat) /\ Len(sendBuffer) <= WriteLimit /\ cut \in 0..Len(sendBuffer)
    BY <1>1
  <2>4. Reader
    BY <1>1 DEF Reader
  <2>5. results \in Seq(Nat \cup Seq(Nat))
    OBVIOUS
  <2> QED BY <2>1, <2>2, <2>3, <2>4, <2>5 DEF TypeInv
<1>3. ArrivedInv /\ VerdictInv
  BY DEF ArrivedInv, VerdictInv
<1>4. PICK e : EndsAt(e)
  BY NothingWritten DEF EndsAt
<1>5. WholeInv(e)
  BY DEF WholeInv
<1>6. CutInv(e)
  BY DEF CutInv
<1> QED BY <1>2, <1>3, <1>4, <1>5, <1>6 DEF Inv

LEMMA Encodings ==
  ASSUME TypeInv, NEW j \in 1..Len(values)
  PROVE  /\ layout[j] \in Field /\ values[j] \in ValuesOf(layout[j])
         /\ Encoded(layout[j], values[j]) \in Seq(Nat)
<1>1. Len(values) <= Len(layout) /\ Len(layout) \in Nat /\ Len(values) \in Nat
  BY LayoutIs DEF TypeInv
<1>2. layout[j] \in Field
  BY <1>1, LayoutIs DEF TypeInv
<1>3. values[j] \in ValuesOf(layout[j])
  BY DEF TypeInv
<1> QED BY <1>2, <1>3, EncodedIs

LEMMA InvWrite ==
  ASSUME Inv, k <= Len(layout), NEW v \in ValuesOf(layout[k]), Write(v)
  PROVE  Inv'
<1> DEFINE fd == layout[k]
           s == Encoded(fd, v)
<1>1. /\ stage = "write" /\ values' = Append(values, v) /\ k' = k + 1
      /\ UNCHANGED <<stage, layout, cut, buffer, bufferSize, parserIndex, error, results,
                     readFailed, verdict>>
      /\ \/ writeFailed' = TRUE /\ UNCHANGED sendBuffer
         \/ ~Refused(fd, v) /\ sendBuffer' = sendBuffer \o s /\ UNCHANGED writeFailed
  BY DEF Write
<1>2. /\ TypeInv /\ Len(values) = k - 1 /\ k \in 1..Len(layout) /\ Len(layout) \in Nat
      /\ values \in Seq(Nat) /\ sendBuffer \in Seq(Nat)
  BY <1>1, LayoutIs DEF Inv, TypeInv
<1>3. fd \in Field /\ v \in Nat /\ s \in Seq(Nat)
  <2>1. fd \in Field
    BY <1>2, LayoutIs DEF TypeInv
  <2> QED BY <2>1, ValueIs, EncodedIs
<1> HIDE DEF s
<1>4. /\ values' \in Seq(Nat) /\ Len(values') = k /\ values'[k] = v
      /\ \A j \in 1..(k - 1) : values'[j] = values[j]
  BY <1>1, <1>2, <1>3
<1>5. \A j \in 1..Len(values') : values'[j] \in ValuesOf(layout[j])
  <2> SUFFICES ASSUME NEW j \in 1..k PROVE values'[j] \in ValuesOf(layout[j])
    BY <1>4
  <2>1. CASE j = k
    BY <1>4, <2>1
  <2>2. CASE j # k
    <3>1. j \in 1..Len(values) /\ j \in 1..(k - 1)
      BY <1>2, <2>2
    <3>2. values[j] \in ValuesOf(layout[j])
      BY <1>2, <3>1 DEF TypeInv
    <3> QED BY <1>4, <3>1, <3>2
  <2> QED BY <2>1, <2>2
<1>6. /\ sendBuffer' \in Seq(Nat) /\ Len(sendBuffer') <= WriteLimit
      /\ Len(sendBuffer) <= Len(sendBuffer') /\ writeFailed' \in BOOLEAN
  <2>1. Len(sendBuffer) <= WriteLimit /\ WriteLimit \in Nat /\ writeFailed \in BOOLEAN
    BY <1>2, BufferAssumption DEF TypeInv
  <2>2. CASE writeFailed' = TRUE /\ UNCHANGED sendBuffer
    BY <1>2, <2>1, <2>2
  <2>3. CASE ~Refused(fd, v) /\ sendBuffer' = sendBuffer \o s /\ UNCHANGED writeFailed
    <3>1. sendBuffer \o s \in Seq(Nat) /\ Len(sendBuffer \o s) = Len(sendBuffer) + Len(s)
      BY <1>2, <1>3, ConcatProperties
    <3>2. ~(Len(sendBuffer) + Len(s) > WriteLimit)
      BY <2>3 DEF Refused, s
    <3>3. Len(sendBuffer) \in Nat /\ Len(s) \in Nat
      BY <1>2, <1>3
    <3> QED BY <2>1, <2>3, <3>1, <3>2, <3>3
  <2> QED BY <1>1, <2>2, <2>3
<1>7. TypeInv'
  <2>1. k' \in 1..(Len(layout') + 1) /\ Len(values') = k' - 1
    BY <1>1, <1>2, <1>4
  <2>2. cut' \in 0..Len(sendBuffer')
    <3>1. cut \in 0..Len(sendBuffer) /\ Len(sendBuffer) \in Nat /\ Len(sendBuffer') \in Nat
      BY <1>2, <1>6 DEF TypeInv
    <3> QED BY <1>1, <1>6, <3>1
  <2>3. Reader' /\ parserIndex' \in 0..bufferSize'
    BY <1>1, <1>2 DEF TypeInv, Reader
  <2>4. \A j \in 1..Len(values') : values'[j] \in ValuesOf(layout'[j])
    BY <1>1, <1>5
  <2>5. /\ stage' \in {"write", "read", "done"} /\ stage' = "write" /\ layout' \in Layouts
        /\ error' \in BOOLEAN /\ readFailed' \in BOOLEAN
        /\ results' \in Seq(Nat \cup Seq(Nat))
    BY <1>1, <1>2 DEF TypeInv
  <2> QED BY <1>4, <1>6, <2>1, <2>2, <2>3, <2>4, <2>5 DEF TypeInv
<1>8. ArrivedInv' /\ VerdictInv'
  BY <1>1 DEF Inv, ArrivedInv, VerdictInv
<1>9. ASSUME ~writeFailed' PROVE \E e : EndsAt(e)' /\ WholeInv(e)' /\ CutInv(e)'
  <2>1. ~writeFailed /\ ~Refused(fd, v) /\ sendBuffer' = sendBuffer \o s
    BY <1>1, <1>9
  <2>2. PICK e : Written(e, layout, values, sendBuffer)
    BY <2>1 DEF Inv, EndsAt
  <2>3. ~StringTooLong(fd, v)
    BY <2>1 DEF Refused
  <2>4. layout[Len(values) + 1] = fd
    <3>1. Len(values) + 1 = k
      BY <1>2
    <3> QED BY <3>1
  <2>5. \A j \in 1..Len(values) : Encoded(layout[j], values[j]) \in Seq(Nat)
    BY <1>2, Encodings
  <2>6. PICK g : Written(g, layout, Append(values, v), sendBuffer \o Encoded(fd, v))
    <3> HIDE DEF fd
    <3> QED BY <1>2, <1>3, <2>2, <2>3, <2>4, <2>5, FieldWritten DEF s
  <2>7. EndsAt(g)'
    BY <1>1, <2>1, <2>6 DEF EndsAt, s
  <2>8. WholeInv(g)' /\ CutInv(g)'
    BY <1>1 DEF WholeInv, CutInv
  <2> QED BY <2>7, <2>8
<1> QED BY <1>7, <1>8, <1>9 DEF Inv

LEMMA InvNextPacket ==
  ASSUME Inv, NextPacket
  PROVE  Inv'
<1> USE DEF NextPacket
<1>1. /\ layout' \in Layouts /\ Len(layout') \in Nat /\ WriteLimit \in Nat
      /\ buffer \in Seq(Nat)
  BY LayoutIs, BufferAssumption DEF Inv, TypeInv, Reader
<1>2. TypeInv'
  <2>1. k' \in 1..(Len(layout') + 1)
    BY <1>1
  <2>2. /\ values' \in Seq(Nat) /\ Len(values') = k' - 1
        /\ \A j \in 1..Len(values') : values'[j] \in ValuesOf(layout'[j])
    OBVIOUS
  <2>3. /\ sendBuffer' \in Seq(Nat) /\ Len(sendBuffer') <= WriteLimit
        /\ cut' \in 0..Len(sendBuffer')
    BY <1>1
  <2>4. Reader'
    <3>1. PICK stale \in 0..(Base - 1) : buffer' = [b \in DOMAIN buffer |-> stale]
      OBVIOUS
    <3>2. DOMAIN buffer = 1..Len(buffer) /\ Len(buffer) \in Nat /\ stale \in Nat
      BY <1>1, Bases
    <3>3. buffer' \in Seq(Nat) /\ Len(buffer') = Len(buffer)
      BY <3>1, <3>2
    <3> QED BY <3>2, <3>3 DEF Reader
  <2>5. results' \in Seq(Nat \cup Seq(Nat))
    OBVIOUS
  <2> QED BY <1>1, <2>1, <2>2, <2>3, <2>4, <2>5 DEF TypeInv
<1>3. ArrivedInv' /\ VerdictInv'
  BY DEF ArrivedInv, VerdictInv
<1>4. PICK e : Written(e, layout', <<>>, <<>>)
  BY NothingWritten
<1>5. EndsAt(e)'
  BY <1>4 DEF EndsAt
<1>6. WholeInv(e)' /\ CutInv(e)'
  BY DEF WholeInv, CutInv
<1> QED BY <1>2, <1>3, <1>5, <1>6 DEF Inv

LEMMA InvAccept ==
  ASSUME Inv, Accept
  PROVE  Inv'
<1>1. /\ stage = "read" /\ k > Len(layout) /\ verdict' = "handled" /\ stage' = "done"
      /\ UNCHANGED <<layout, k, values, sendBuffer, writeFailed, cut, buffer, bufferSize,
                     parserIndex, error, results, readFailed>>
  BY DEF Accept, writeVars
<1>2. TypeInv'
  BY <1>1 DEF Inv, TypeInv, Reader
<1>3. k = Len(layout) + 1
  <2>1. k \in 1..(Len(layout) + 1) /\ layout \in Layouts
    BY DEF Inv, TypeInv
  <2>2. Len(layout) \in Nat
    BY <2>1, LayoutIs
  <2> QED BY <1>1, <2>1, <2>2
<1>4. ArrivedInv' /\ VerdictInv'
  BY <1>1, <1>3 DEF Inv, ArrivedInv, VerdictInv
<1>5. ASSUME NEW e, EndsAt(e), WholeInv(e), CutInv(e)
      PROVE  EndsAt(e)' /\ WholeInv(e)' /\ CutInv(e)'
  <2>1. EndsAt(e)'
    BY <1>1, <1>5 DEF EndsAt
  <2>2. WholeInv(e)'
    BY <1>1, <1>5 DEF WholeInv, IsLongest
  <2>3. verdict # "refused"
    BY <1>1 DEF Inv, VerdictInv, None
  <2>4. CutInv(e)'
    BY <1>1, <1>5, <2>3 DEF CutInv, StringsChecked
  <2> QED BY <2>1, <2>2, <2>4
<1> QED BY <1>1, <1>2, <1>4, <1>5 DEF Inv

LEMMA InvReceive ==
  ASSUME Inv, NEW c \in 0..Len(sendBuffer), Receive(c)
  PROVE  Inv'
<1> DEFINE size == Len(sendBuffer) - c
           grown == Grown(size)
<1>1. /\ stage = "write" /\ k > Len(layout) /\ stage' = "read" /\ k' = 1
      /\ buffer' = [b \in DOMAIN grown |-> IF b <= size THEN sendBuffer[b] ELSE grown[b]]
      /\ bufferSize' = size /\ cut' = c /\ parserIndex' = 0 /\ error' = FALSE
      /\ results' = <<>> /\ readFailed' = FALSE /\ verdict' = None
      /\ UNCHANGED <<layout, values, sendBuffer, writeFailed>>
  BY DEF Receive, writeVars
<1>2. /\ TypeInv /\ buffer \in Seq(Nat) /\ sendBuffer \in Seq(Nat)
      /\ Len(layout) \in Nat /\ k \in 1..(Len(layout) + 1) /\ Len(values) = k - 1
      /\ layout \in Layouts
  BY <1>1, LayoutIs DEF Inv, TypeInv, Reader
<1>3. size \in Nat /\ size <= Len(sendBuffer) /\ Len(sendBuffer) \in Nat
  BY <1>2
<1> HIDE DEF size
<1>4. grown \in Seq(Nat) /\ size <= Len(grown) /\ Len(grown) \in Nat
  <2>1. CASE size > Len(buffer)
    <3> DEFINE more == [b \in 1..(size - Len(buffer)) |-> 1]
    <3>1. size - Len(buffer) \in Nat /\ Len(buffer) \in Nat
      BY <1>2, <1>3, <2>1
    <3>2. more \in Seq(Nat) /\ Len(more) = size - Len(buffer)
      BY <3>1
    <3>3. grown = buffer \o more
      BY <2>1 DEF Grown, bufferLimit
    <3> HIDE DEF more
    <3>4. buffer \o more \in Seq(Nat) /\ Len(buffer \o more) = Len(buffer) + Len(more)
      BY <1>2, <3>2, ConcatProperties
    <3> HIDE DEF grown
    <3> QED BY <1>3, <3>1, <3>2, <3>3, <3>4
  <2>2. CASE ~(size > Len(buffer))
    BY <1>2, <1>3, <2>2 DEF Grown, bufferLimit
  <2> QED BY <2>1, <2>2
<1> HIDE DEF grown
<1>5. /\ buffer' \in Seq(Nat) /\ Len(buffer') = Len(grown)
      /\ \A b \in 1..size : buffer'[b] = sendBuffer[b]
  <2>1. DOMAIN grown = 1..Len(grown) /\ \A b \in 1..Len(grown) : grown[b] \in Nat
    BY <1>4
  <2>2. \A b \in 1..size : b \in 1..Len(grown) /\ b <= size
    BY <1>3, <1>4
  <2>3. \A b \in 1..Len(grown) : b <= size => b \in 1..Len(sendBuffer)
    BY <1>3
  <2>4. \A b \in 1..Len(grown) :
          (IF b <= size THEN sendBuffer[b] ELSE grown[b]) \in Nat
    BY <1>2, <2>1, <2>3
  <2>5. buffer' = [b \in 1..Len(grown) |-> IF b <= size THEN sendBuffer[b] ELSE grown[b]]
    BY <1>1, <2>1
  <2>6. buffer' \in Seq(Nat) /\ Len(buffer') = Len(grown)
    BY <1>4, <2>4, <2>5
  <2> QED BY <2>2, <2>5, <2>6
<1>6. TypeInv'
  <2>1. k' \in 1..(Len(layout') + 1) /\ Len(values') = Len(layout')
    BY <1>1, <1>2
  <2>2. Reader' /\ parserIndex' \in 0..bufferSize'
    BY <1>1, <1>3, <1>4, <1>5 DEF Reader
  <2>3. results' \in Seq(Nat \cup Seq(Nat))
    BY <1>1
  <2>4. cut' \in 0..Len(sendBuffer')
    BY <1>1
  <2>5. /\ stage' = "read" /\ error' \in BOOLEAN /\ readFailed' \in BOOLEAN
        /\ layout' \in Layouts /\ writeFailed' \in BOOLEAN
        /\ sendBuffer' \in Seq(Nat) /\ Len(sendBuffer') <= WriteLimit
        /\ values' \in Seq(Nat)
        /\ \A j \in 1..Len(values') : values'[j] \in ValuesOf(layout'[j])
    BY <1>1, <1>2 DEF TypeInv
  <2> QED BY <2>1, <2>2, <2>3, <2>4, <2>5 DEF TypeInv
<1>7. ArrivedInv' /\ VerdictInv'
  BY <1>1, <1>5 DEF ArrivedInv, VerdictInv, size
<1>8. ASSUME NEW e, EndsAt(e) PROVE EndsAt(e)' /\ WholeInv(e)' /\ CutInv(e)'
  <2>1. EndsAt(e)'
    BY <1>1, <1>8 DEF EndsAt
  <2>2. e[0] = 0 /\ k' - 1 = 0 /\ e[k' - 1] = 0
    BY <1>1, <1>8 DEF EndsAt, Written
  <2>3. WholeInv(e)'
    <3>1. ~(\E j \in 1..(k' - 1) : TRUE)
      BY <2>2
    <3>2. results' = [j \in 1..(k' - 1) |-> AsRead(layout'[j], values'[j])]
      BY <1>1, <2>2
    <3> QED BY <1>1, <2>2, <3>1, <3>2 DEF WholeInv
  <2>4. CutInv(e)'
    <3>1. parserIndex' = IF e[k' - 1] <= bufferSize' THEN e[k' - 1] ELSE bufferSize'
      BY <1>1, <1>3, <2>2
    <3>2. \A j \in 1..(k' - 1) : FALSE
      BY <2>2
    <3> QED BY <3>1, <3>2 DEF CutInv
  <2> QED BY <2>1, <2>3, <2>4
<1> QED BY <1>1, <1>6, <1>7, <1>8 DEF Inv

LEMMA InvRead ==
  ASSUME Inv, Read
  PROVE  Inv'
<1> DEFINE fd == layout[k]
           v == values[k]
           s == Encoded(fd, v)
           out == ReadOf(fd)
<1>1. /\ stage = "read" /\ k <= Len(layout)
      /\ parserIndex' = out.index /\ error' = out.failed
      /\ results' = Append(results, out.value)
      /\ readFailed' = (readFailed \/ out.failed)
      /\ k' = k + 1
      /\ UNCHANGED <<layout, values, sendBuffer, writeFailed, cut, buffer, bufferSize>>
      /\ \/ fd.check /\ out.failed /\ verdict' = "refused" /\ stage' = "done"
         \/ ~(fd.check /\ out.failed) /\ UNCHANGED <<verdict, stage>>
  BY DEF Read, writeVars
<1>2. /\ TypeInv /\ ArrivedInv /\ VerdictInv /\ layout \in Layouts /\ Len(layout) \in Nat
      /\ k \in 1..Len(layout) /\ Len(values) = Len(layout) /\ k \in 1..Len(values)
      /\ Reader /\ parserIndex \in 0..bufferSize /\ bufferSize \in Nat
      /\ readFailed \in BOOLEAN /\ results \in Seq(Nat \cup Seq(Nat))
      /\ verdict # "refused"
  <2>1. TypeInv /\ ArrivedInv /\ VerdictInv
    BY DEF Inv
  <2>2. /\ layout \in Layouts /\ k \in 1..(Len(layout) + 1) /\ Len(values) = Len(layout)
        /\ Reader /\ parserIndex \in 0..bufferSize /\ bufferSize \in Nat
        /\ readFailed \in BOOLEAN /\ results \in Seq(Nat \cup Seq(Nat))
    BY <1>1, <2>1 DEF TypeInv, Reader
  <2>3. Len(layout) \in Nat
    BY <2>2, LayoutIs
  <2>4. k \in 1..Len(layout)
    BY <1>1, <2>2, <2>3
  <2>5. verdict # "refused"
    BY <1>1, <2>1 DEF VerdictInv, None
  <2> QED BY <2>1, <2>2, <2>3, <2>4, <2>5
<1>3. fd \in Field /\ v \in ValuesOf(fd) /\ s \in Seq(Nat)
  BY <1>2, Encodings
<1>4. /\ out.index \in 0..bufferSize /\ out.failed \in BOOLEAN
      /\ out.value \in Nat \cup Seq(Nat)
      /\ fd.kind # "string" =>
           /\ out.failed <=> parserIndex + fd.size > bufferSize
           /\ out.index = IF parserIndex + fd.size > bufferSize
                          THEN bufferSize ELSE parserIndex + fd.size
  <2> HIDE DEF fd
  <2> QED BY <1>2, <1>3, ReadOfIs
<1> HIDE DEF s, out
<1>5. TypeInv'
  <2>1. k' \in 1..(Len(layout') + 1) /\ Len(values') = Len(layout')
    BY <1>1, <1>2
  <2>2. stage' \in {"read", "done"}
    BY <1>1
  <2>3. Reader' /\ parserIndex' \in 0..bufferSize'
    BY <1>1, <1>2, <1>4 DEF Reader
  <2>4. results' \in Seq(Nat \cup Seq(Nat))
    BY <1>1, <1>2, <1>4
  <2>5. error' \in BOOLEAN /\ readFailed' \in BOOLEAN
    BY <1>1, <1>2, <1>4
  <2>6. /\ layout' \in Layouts /\ writeFailed' \in BOOLEAN
        /\ sendBuffer' \in Seq(Nat) /\ Len(sendBuffer') <= WriteLimit
        /\ values' \in Seq(Nat) /\ cut' \in 0..Len(sendBuffer')
        /\ \A j \in 1..Len(values') : values'[j] \in ValuesOf(layout'[j])
    BY <1>1, <1>2 DEF TypeInv
  <2> QED BY <2>1, <2>2, <2>3, <2>4, <2>5, <2>6 DEF TypeInv
<1>6. ArrivedInv' /\ VerdictInv'
  <2>1. ArrivedInv'
    BY <1>1, <1>2 DEF ArrivedInv
  <2>2. VerdictInv'
    BY <1>1, <1>2 DEF VerdictInv
  <2> QED BY <2>1, <2>2
<1>7. ASSUME NEW e, EndsAt(e), WholeInv(e), CutInv(e)
      PROVE  EndsAt(e)' /\ WholeInv(e)' /\ CutInv(e)'
  <2>1. EndsAt(e)'
    BY <1>1, <1>7 DEF EndsAt
  <2>2. /\ ~StringTooLong(fd, v) /\ e[k] = e[k - 1] + Len(s) /\ e[k] <= Len(sendBuffer)
        /\ \A b \in 1..Len(s) : sendBuffer[e[k - 1] + b] = s[b]
    BY <1>2, <1>7 DEF EndsAt, Written, Placed, s
  <2>3. e[k - 1] \in Nat /\ e[k] \in Nat /\ Len(s) \in Nat /\ Len(s) >= 1
    <3>1. e \in [0..Len(values) -> Nat] /\ k - 1 \in 0..Len(values) /\ k \in 0..Len(values)
      BY <1>2, <1>7 DEF EndsAt, Written
    <3>2. Len(s) >= 1
      BY <1>3, EncodedIs DEF s
    <3>3. Len(s) \in Nat
      BY <1>3
    <3>4. e[k - 1] \in Nat /\ e[k] \in Nat
      BY <3>1
    <3> QED BY <3>2, <3>3, <3>4
  <2>4. Holds(e[k - 1], s)
    <3> SUFFICES ASSUME NEW b \in 1..Len(s), e[k - 1] + b <= bufferSize
                 PROVE  buffer[e[k - 1] + b] = s[b]
      BY DEF Holds
    <3>1. e[k - 1] + b \in 1..bufferSize
      BY <1>2, <2>3
    <3>2. buffer[e[k - 1] + b] = sendBuffer[e[k - 1] + b]
      BY <1>1, <1>2, <3>1 DEF ArrivedInv
    <3> QED BY <2>2, <3>2
  <2>5. WholeInv(e)'
    <3> SUFFICES ASSUME cut = 0
                 PROVE  IF \E j \in 1..k : IsLongest(j) THEN readFailed'
                        ELSE /\ ~readFailed' /\ parserIndex' = e[k]
                             /\ results' = [j \in 1..k |-> AsRead(layout[j], values[j])]
      <4>1. k' - 1 = k
        BY <1>1, <1>2
      <4> QED BY <1>1, <4>1 DEF WholeInv, IsLongest
    <3>1. CASE \E j \in 1..(k - 1) : IsLongest(j)
      <4>1. readFailed
        BY <1>1, <1>7, <3>1 DEF WholeInv
      <4>2. \E j \in 1..k : IsLongest(j)
        BY <1>2, <3>1
      <4> QED BY <1>1, <4>1, <4>2
    <3>2. CASE ~\E j \in 1..(k - 1) : IsLongest(j)
      <4>1. /\ ~readFailed /\ parserIndex = e[k - 1]
            /\ results = [j \in 1..(k - 1) |-> AsRead(layout[j], values[j])]
        BY <1>1, <1>7, <3>2 DEF WholeInv
      <4>2. bufferSize = Len(sendBuffer)
        <5>1. bufferSize = Len(sendBuffer) - 0 /\ Len(sendBuffer) \in Nat
          BY <1>1, <1>2 DEF ArrivedInv, TypeInv
        <5> QED BY <5>1
      <4>3. IF fd.kind = "string" /\ v = fd.size - 1 THEN out.failed
            ELSE /\ ~out.failed /\ out.index = parserIndex + Len(s)
                 /\ out.value = AsRead(fd, v)
        <5>1. parserIndex + Len(s) <= bufferSize /\ parserIndex \in Nat
          BY <2>2, <2>3, <4>1, <4>2
        <5>2. Holds(parserIndex, s)
          BY <2>4, <4>1
        <5> HIDE DEF fd, v
        <5> QED BY <1>2, <1>3, <2>2, <5>1, <5>2, ReadBack DEF s, out
      <4>4. CASE fd.kind = "string" /\ v = fd.size - 1
        <5>1. IsLongest(k)
          BY <4>4 DEF IsLongest
        <5>2. \E j \in 1..k : IsLongest(j)
          BY <1>2, <5>1
        <5> QED BY <1>1, <4>3, <4>4, <5>2
      <4>5. CASE ~(fd.kind = "string" /\ v = fd.size - 1)
        <5>1. ~IsLongest(k)
          BY <4>5 DEF IsLongest
        <5>2. ~\E j \in 1..k : IsLongest(j)
          <6>1. \A j \in 1..k : j = k \/ j \in 1..(k - 1)
            BY <1>2
          <6> QED BY <3>2, <5>1, <6>1
        <5>3. ~readFailed' /\ parserIndex' = e[k]
          BY <1>1, <2>2, <4>1, <4>3, <4>5
        <5>4. results' = [j \in 1..k |-> AsRead(layout[j], values[j])]
          <6>1. out.value = AsRead(fd, v)
            BY <4>3, <4>5
          <6>2. Len(results) = k - 1 /\ results' = Append(results, AsRead(fd, v))
            BY <1>1, <1>2, <4>1, <6>1
          <6>3. results' \in Seq(Nat \cup Seq(Nat)) /\ Len(results') = k
            BY <1>2, <1>4, <6>1, <6>2
          <6>4. results'[k] = AsRead(fd, v) /\ \A j \in 1..(k - 1) : results'[j] = results[j]
            BY <1>2, <6>2
          <6>5. \A j \in 1..k : results'[j] = AsRead(layout[j], values[j])
            <7> SUFFICES ASSUME NEW j \in 1..k
                         PROVE  results'[j] = AsRead(layout[j], values[j])
              OBVIOUS
            <7>1. CASE j = k
              BY <6>4, <7>1
            <7>2. CASE j # k
              <8>1. j \in 1..(k - 1)
                BY <1>2, <7>2
              <8> QED BY <4>1, <6>4, <8>1
            <7> QED BY <7>1, <7>2
          <6>6. results' = [j \in 1..k |-> results'[j]]
            BY <6>3
          <6> QED BY <6>5, <6>6
        <5> QED BY <5>2, <5>3, <5>4
      <4> QED BY <4>4, <4>5
    <3> QED BY <3>1, <3>2
  <2>6. ASSUME fd.check => ~out.failed
        PROVE  /\ StringsChecked(k) =>
                    parserIndex' = IF e[k] <= bufferSize THEN e[k] ELSE bufferSize
               /\ fd.check /\ StringsChecked(k - 1) => e[k] <= bufferSize
    <3>1. SUFFICES ASSUME StringsChecked(k - 1)
                   PROVE  /\ StringsChecked(k) =>
                               parserIndex' = IF e[k] <= bufferSize THEN e[k] ELSE bufferSize
                          /\ fd.check => e[k] <= bufferSize
      <4>1. StringsChecked(k) => StringsChecked(k - 1)
        BY <1>2 DEF StringsChecked
      <4> QED BY <4>1
    <3>2. parserIndex = IF e[k - 1] <= bufferSize THEN e[k - 1] ELSE bufferSize
      BY <1>1, <1>2, <1>7, <3>1 DEF CutInv
    <3>3. CASE fd.kind = "string"
      <4>1. StringsChecked(k) => fd.check
        BY <1>2, <3>3 DEF StringsChecked
      <4>2. SUFFICES ASSUME fd.check
                     PROVE  parserIndex' = e[k] /\ e[k] <= bufferSize
        BY <4>1
      <4>3. ~out.failed
        BY <2>6, <4>2
      <4>4. e[k - 1] + Len(s) <= bufferSize /\ out.index = e[k - 1] + Len(s)
        <5> HIDE DEF fd, v
        <5> QED BY <1>2, <1>3, <2>2, <2>3, <2>4, <3>2, <3>3, <4>3, StringBack DEF s, out
      <4> QED BY <1>1, <2>2, <4>4
    <3>4. CASE fd.kind # "string"
      <4>1. Len(s) = fd.size
        <5>1. fd.kind = "int" \/ fd.kind = "data"
          BY <1>3, <3>4, FieldIs
        <5> QED BY <1>3, <5>1, EncodedIs DEF s
      <4>2. /\ out.failed <=> parserIndex + Len(s) > bufferSize
            /\ parserIndex' = IF parserIndex + Len(s) > bufferSize
                              THEN bufferSize ELSE parserIndex + Len(s)
        BY <1>1, <1>4, <3>4, <4>1
      <4>3. PICK a \in Nat, b \in Nat, l \in Nat, n \in Nat :
              /\ a = e[k - 1] /\ b = e[k] /\ l = Len(s) /\ n = bufferSize
              /\ b = a + l /\ l >= 1
        BY <1>2, <2>2, <2>3
      <4>4. CASE a <= n
        <5>1. parserIndex = a
          BY <3>2, <4>3, <4>4
        <5> QED BY <2>6, <4>2, <4>3, <5>1
      <4>5. CASE ~(a <= n)
        <5>1. parserIndex = n
          BY <3>2, <4>3, <4>5
        <5>2. n + l > n /\ ~(b <= n)
          BY <4>3, <4>5
        <5> QED BY <2>6, <4>2, <4>3, <5>1, <5>2
      <4> QED BY <4>4, <4>5
    <3> QED BY <3>3, <3>4
  <2>7. CutInv(e)'
    <3> SUFFICES ASSUME verdict' # "refused"
                 PROVE  /\ StringsChecked(k) =>
                             parserIndex' = IF e[k] <= bufferSize THEN e[k] ELSE bufferSize
                        /\ \A j \in 1..k :
                             layout[j].check /\ StringsChecked(j - 1) => e[j] <= bufferSize
      <4>1. k' - 1 = k
        BY <1>1, <1>2
      <4> QED BY <1>1, <4>1 DEF CutInv, StringsChecked
    <3>1. fd.check => ~out.failed
      BY <1>1
    <3>2. ASSUME NEW j \in 1..k, layout[j].check, StringsChecked(j - 1)
          PROVE  e[j] <= bufferSize
      <4>1. CASE j = k
        BY <2>6, <3>1, <3>2, <4>1
      <4>2. CASE j # k
        <5>1. j \in 1..(k - 1)
          BY <1>2, <4>2
        <5> QED BY <1>1, <1>2, <1>7, <3>2, <5>1 DEF CutInv
      <4> QED BY <4>1, <4>2
    <3> QED BY <2>6, <3>1, <3>2
  <2> QED BY <2>1, <2>5, <2>7
<1> QED BY <1>1, <1>5, <1>6, <1>7 DEF Inv

LEMMA InvNext == Inv /\ [Next]_vars => Inv'
<1> SUFFICES ASSUME Inv, [Next]_vars PROVE Inv'
  OBVIOUS
<1>1. ASSUME k <= Len(layout), NEW v \in ValuesOf(layout[k]), Write(v) PROVE Inv'
  BY <1>1, InvWrite
<1>2. ASSUME NEW c \in 0..Len(sendBuffer), Receive(c) PROVE Inv'
  BY <1>2, InvReceive
<1>3. CASE Read
  BY <1>3, InvRead
<1>4. CASE Accept
  BY <1>4, InvAccept
<1>5. CASE NextPacket
  BY <1>5, InvNextPacket
<1>6. CASE UNCHANGED vars
  <2>1. UNCHANGED <<stage, layout, k, values, sendBuffer, writeFailed, cut, buffer,
                    bufferSize, parserIndex, error, results, readFailed, verdict>>
    BY <1>6 DEF vars, writeVars
  <2>2. TypeInv' /\ ArrivedInv' /\ VerdictInv'
    BY <2>1 DEF Inv, TypeInv, Reader, ArrivedInv, VerdictInv
  <2>3. ASSUME NEW e, EndsAt(e), WholeInv(e), CutInv(e)
        PROVE  EndsAt(e)' /\ WholeInv(e)' /\ CutInv(e)'
    BY <2>1, <2>3 DEF EndsAt, WholeInv, IsLongest, CutInv, StringsChecked
  <2> QED BY <2>1, <2>2, <2>3 DEF Inv
<1> QED BY <1>1, <1>2, <1>3, <1>4, <1>5, <1>6 DEF Next

(* Inv is invariant: what is written is where the fields' lengths add up   *)
(* to, and what is read agrees with it as far as the packet goes, whatever *)
(* was cut off, whatever failed and whatever the packet before left in the *)
(* buffer (xptPacketbuffer.cpp:31-380).                                    *)
THEOREM BufferInvariant == Spec => []Inv
<1> QED BY InvInit, InvNext, PTL DEF Spec

(* Nothing is written behind the writer's buffer, nor read behind what     *)
(* arrived, and that is never more than the reader's buffer holds          *)
(* (xptPacketbuffer.cpp:31-37, 63-380).                                    *)
THEOREM CursorsStayInBounds == Spec => []CursorInBounds
<1>1. Inv => CursorInBounds
  <2> SUFFICES ASSUME Inv PROVE CursorInBounds
    OBVIOUS
  <2>1. /\ Len(sendBuffer) <= WriteLimit /\ parserIndex \in 0..bufferSize
        /\ bufferSize <= Len(buffer) /\ bufferSize \in Nat
    BY DEF Inv, TypeInv, Reader
  <2> QED BY <2>1 DEF CursorInBounds, bufferLimit
<1> QED BY <1>1, BufferInvariant, PTL

(* A packet that was written without an error and arrives whole is read    *)
(* back as it was written exactly when no string in it has the greatest    *)
(* length the writer takes, for every packet, every size of the buffers    *)
(* and every value (xptPacketbuffer.cpp:40-380).                           *)
THEOREM PacketsRoundTrip == Spec => []RoundTrip
<1>1. Inv => RoundTrip
  <2> SUFFICES ASSUME Inv, stage = "done", ~writeFailed, cut = 0
               PROVE  IsRoundTrip <=> LongestStrings = {}
    BY DEF RoundTrip
  <2>1. PICK e : WholeInv(e)
    BY DEF Inv
  <2>2. /\ layout \in Layouts /\ layout \in Seq(Field) /\ Len(layout) \in Nat
        /\ k \in 1..(Len(layout) + 1) /\ DOMAIN layout = 1..Len(layout)
    BY LayoutIs DEF Inv, TypeInv
  <2>3. /\ verdict \in {"handled", "refused"}
        /\ verdict = "handled" => k - 1 = Len(layout)
        /\ verdict = "refused" => readFailed
    BY <2>2 DEF Inv, VerdictInv
  <2>4. LongestStrings = {j \in 1..Len(layout) : IsLongest(j)}
    BY <2>2 DEF LongestStrings, IsLongest
  <2>5. ASSUME LongestStrings = {} PROVE IsRoundTrip
    <3>1. ~\E j \in 1..(k - 1) : IsLongest(j)
      <4>1. \A j \in 1..(k - 1) : j \in 1..Len(layout)
        BY <2>2
      <4> QED BY <2>4, <2>5, <4>1
    <3>2. ~readFailed /\ results = [j \in 1..(k - 1) |-> AsRead(layout[j], values[j])]
      BY <2>1, <3>1 DEF WholeInv
    <3>3. verdict = "handled" /\ k - 1 = Len(layout)
      BY <2>3, <3>2
    <3> QED BY <2>2, <3>2, <3>3 DEF IsRoundTrip
  <2>6. ASSUME IsRoundTrip PROVE LongestStrings = {}
    <3>1. ~readFailed /\ k - 1 = Len(layout)
      BY <2>3, <2>6 DEF IsRoundTrip
    <3>2. ~\E j \in 1..(k - 1) : IsLongest(j)
      BY <2>1, <3>1 DEF WholeInv
    <3> QED BY <2>4, <3>1, <3>2
  <2> QED BY <2>5, <2>6
<1> QED BY <1>1, BufferInvariant, PTL

(* Ends is where the fields end. *)
LEMMA EndsAre ==
  ASSUME TypeInv, NEW e, EndsAt(e)
  PROVE  \A j \in 0..Len(values) : Ends[j] = e[j]
<1> DEFINE size(n) == Len(Encoded(layout[n], values[n]))
           L == Len(values)
<1>1. /\ L \in Nat /\ e \in [0..L -> Nat] /\ e[0] = 0
      /\ \A n \in 1..L : e[n] = e[n - 1] + size(n)
  BY DEF TypeInv, EndsAt, Written, Placed
<1>2. e = [n \in 0..Len(values) |->
             IF n = 0 THEN 0 ELSE e[n - 1] + Len(Encoded(layout[n], values[n]))]
  BY <1>1
<1>3. Ends = [n \in 0..Len(values) |->
                IF n = 0 THEN 0 ELSE Ends[n - 1] + Len(Encoded(layout[n], values[n]))]
  <2>1. \E h : h = [n \in 0..Len(values) |->
                      IF n = 0 THEN 0 ELSE h[n - 1] + Len(Encoded(layout[n], values[n]))]
    BY <1>2
  <2> QED BY <2>1, Zenon DEF Ends
<1>4. \A n \in 0..L : Ends[n] = IF n = 0 THEN 0 ELSE Ends[n - 1] + size(n)
  BY <1>3, Zenon
<1> HIDE DEF L, size
<1> DEFINE T == {n \in Nat : n <= L => Ends[n] = e[n]}
<1>5. 0 \in T
  BY <1>1, <1>4
<1>6. ASSUME NEW n \in Nat, n \in T PROVE n + 1 \in T
  <2> SUFFICES ASSUME n + 1 <= L PROVE Ends[n + 1] = e[n + 1]
    OBVIOUS
  <2>1. Ends[n] = e[n] /\ n + 1 \in 1..L /\ n + 1 \in 0..L /\ (n + 1) - 1 = n /\ n + 1 # 0
    BY <1>1, <1>6
  <2>2. Ends[n + 1] = Ends[(n + 1) - 1] + size(n + 1)
    BY <1>4, <2>1
  <2>3. e[n + 1] = e[(n + 1) - 1] + size(n + 1)
    BY <1>1, <2>1
  <2> QED BY <2>1, <2>2, <2>3
<1>7. Nat \subseteq T
  <2> HIDE DEF T
  <2> QED BY <1>5, <1>6, Induction
<1> QED BY <1>1, <1>7 DEF L

(* A packet cut short is refused when a field that its handler checks is   *)
(* not there in full, unless a string that it does not check comes before: *)
(* however the packet is laid out, wherever it is cut                      *)
(* (xptPacketbuffer.cpp:63-380, xptClientPacketHandler.cpp:7-186).         *)
THEOREM CutPacketsRefused == Spec => []CutRefused
<1>1. Inv => CutRefused
  <2> SUFFICES ASSUME Inv, stage = "done", ~writeFailed, NEW j \in CheckedFields,
                      bufferSize < FieldEnd(j),
                      \A h \in 1..(j - 1) : layout[h].kind = "string" => layout[h].check
               PROVE  verdict = "refused"
    BY DEF CutRefused
  <2>1. PICK e : EndsAt(e) /\ CutInv(e)
    BY DEF Inv
  <2>2. /\ TypeInv /\ layout \in Seq(Field) /\ Len(layout) \in Nat
        /\ Len(values) = Len(layout) /\ bufferSize \in Nat
    BY LayoutIs DEF Inv, TypeInv, Reader
  <2>3. j \in 1..Len(layout) /\ layout[j].check /\ StringsChecked(j - 1)
    BY <2>2 DEF CheckedFields, StringsChecked
  <2>4. j \in 0..Len(values) /\ FieldEnd(j) = e[j]
    BY <2>1, <2>2, <2>3, EndsAre DEF FieldEnd
  <2>5. e[j] \in Nat /\ ~(e[j] <= bufferSize)
    <3>1. e \in [0..Len(values) -> Nat]
      BY <2>1 DEF EndsAt, Written
    <3> QED BY <2>2, <2>4, <3>1
  <2>6. SUFFICES ASSUME verdict # "refused" PROVE FALSE
    OBVIOUS
  <2>7. k - 1 = Len(layout)
    BY <2>2, <2>6 DEF Inv, VerdictInv
  <2> QED BY <2>1, <2>3, <2>5, <2>6, <2>7 DEF CutInv
<1> QED BY <1>1, BufferInvariant, PTL

=============================================================================
