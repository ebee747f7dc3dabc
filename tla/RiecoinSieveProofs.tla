------------------------- MODULE RiecoinSieveProofs -------------------------
(***************************************************************************)
(* Proofs about RiecoinSieve, for every table of primes, every size of the *)
(* sieve and of its arrays, and every target: what is marked is exactly    *)
(* what some prime divides, and no index leaves its array.                 *)
(***************************************************************************)
EXTENDS RiecoinSieve, Integers, FiniteSetTheorems, WellFoundedInduction, TLAPS

-----------------------------------------------------------------------------
(* Natural numbers. *)

LEMMA Least ==
  ASSUME NEW T, T \subseteq Nat, T # {}
  PROVE  \E m \in T : \A k \in T : m <= k
<1> DEFINE R == OpToRel(<, Nat)
<1>1. IsWellFoundedOn(R, Nat)
  BY NatLessThanWellFounded
<1> HIDE DEF R
<1>2. PICK m \in T : \A k \in T : ~(<<k, m>> \in R)
  BY <1>1, WFMin
<1>3. \A k \in T : ~(k < m)
  <2> TAKE k \in T
  <2>1. <<k, m>> \in Nat \X Nat
    OBVIOUS
  <2>2. k < m => <<k, m>> \in R
    BY <2>1 DEF R, OpToRel
  <2> QED BY <1>2, <2>2
<1> QED BY <1>2, <1>3

LEMMA Induction ==
  ASSUME NEW T, 0 \in T, \A n \in Nat : n \in T => n + 1 \in T
  PROVE  Nat \subseteq T
<1> SUFFICES ASSUME Nat \ T # {} PROVE FALSE
  OBVIOUS
<1>1. PICK m \in Nat \ T : \A k \in Nat \ T : m <= k
  BY Least
<1>2. m # 0 /\ m - 1 \in Nat /\ m - 1 \in T
  BY <1>1
<1> QED BY <1>1, <1>2

(* A value and a step from each number and value to the next value. *)
Iterates(g, S, a, step) ==
  /\ g \in [Nat -> S] /\ g[0] = a
  /\ \A n \in Nat : g[n + 1] = step[<<n, g[n]>>]
StepsUpto(g, L, S, a, step) ==
  /\ g \in [0..L -> S] /\ g[0] = a
  /\ \A n \in 1..L : g[n] = step[<<n, g[n - 1]>>]

LEMMA Recursion ==
  ASSUME NEW S, NEW a \in S, NEW step \in [Nat \X S -> S]
  PROVE  \E g : Iterates(g, S, a, step)
<1> DEFINE Upto(n) == {g \in [0..n -> S] :
                         g[0] = a /\ \A m \in 0..(n - 1) : g[m + 1] = step[<<m, g[m]>>]}
           T == {n \in Nat : Upto(n) # {}}
<1>1. 0 \in T
  <2>1. [m \in 0..0 |-> a] \in Upto(0)
    OBVIOUS
  <2> QED BY <2>1
<1>2. ASSUME NEW n \in Nat, n \in T PROVE n + 1 \in T
  <2>1. PICK g \in Upto(n) : TRUE
    BY <1>2
  <2> DEFINE h == [m \in 0..(n + 1) |-> IF m = n + 1 THEN step[<<n, g[n]>>] ELSE g[m]]
  <2>2. g \in [0..n -> S] /\ g[n] \in S
    BY <2>1
  <2>3. h \in [0..(n + 1) -> S]
    BY <2>2
  <2>4. h[n + 1] = step[<<n, g[n]>>] /\ \A m \in 0..n : h[m] = g[m]
    OBVIOUS
  <2>7. h[0] = a
    BY <2>1, <2>4
  <2> HIDE DEF h
  <2>5. \A m \in 0..((n + 1) - 1) : h[m + 1] = step[<<m, h[m]>>]
    <3> SUFFICES ASSUME NEW m \in 0..n PROVE h[m + 1] = step[<<m, h[m]>>]
      OBVIOUS
    <3>1. CASE m = n
      BY <2>4, <3>1
    <3>2. CASE m # n
      <4>1. m \in 0..(n - 1) /\ h[m] = g[m] /\ h[m + 1] = g[m + 1]
        BY <2>4, <3>2
      <4>2. g[m + 1] = step[<<m, g[m]>>]
        BY <2>1, <4>1
      <4> QED BY <4>1, <4>2
    <3> QED BY <3>1, <3>2
  <2>6. h \in Upto(n + 1)
    BY <2>3, <2>7, <2>5
  <2> HIDE DEF Upto
  <2> QED BY <2>6
<1>3. Nat \subseteq T
  <2> HIDE DEF T
  <2> QED BY <1>1, <1>2, Induction
<1>4. ASSUME NEW n \in Nat, NEW m \in Nat, NEW g \in Upto(n), NEW h \in Upto(m)
      PROVE  \A k \in Nat : k <= n /\ k <= m => g[k] = h[k]
  <2> DEFINE E == {k \in Nat : k <= n /\ k <= m => g[k] = h[k]}
  <2>1. 0 \in E
    OBVIOUS
  <2>2. ASSUME NEW k \in Nat, k \in E PROVE k + 1 \in E
    <3> SUFFICES ASSUME k + 1 <= n, k + 1 <= m PROVE g[k + 1] = h[k + 1]
      OBVIOUS
    <3>1. k \in 0..(n - 1) /\ k \in 0..(m - 1) /\ g[k] = h[k]
      BY <2>2
    <3> QED BY <3>1
  <2>3. Nat \subseteq E
    <3> HIDE DEF E
    <3> QED BY <2>1, <2>2, Induction
  <2> QED BY <2>3
<1> DEFINE best(n) == CHOOSE g \in Upto(n) : TRUE
           f0 == [n \in Nat |-> best(n)[n]]
<1>5. \A n \in Nat : best(n) \in Upto(n)
  BY <1>3
<1> HIDE DEF best
<1>6. f0 \in [Nat -> S]
  BY <1>5
<1>7. f0[0] = a
  BY <1>5
<1>8. ASSUME NEW n \in Nat PROVE f0[n + 1] = step[<<n, f0[n]>>]
  <2>1. best(n) \in Upto(n) /\ best(n + 1) \in Upto(n + 1)
    BY <1>5
  <2>2. best(n + 1)[n] = best(n)[n]
    <3>1. n <= n /\ n <= n + 1 /\ n + 1 \in Nat
      OBVIOUS
    <3> HIDE DEF Upto
    <3> QED BY <1>4, <2>1, <3>1
  <2>3. best(n + 1)[n + 1] = step[<<n, best(n + 1)[n]>>]
    BY <2>1
  <2>4. f0[n + 1] = best(n + 1)[n + 1] /\ f0[n] = best(n)[n]
    OBVIOUS
  <2> QED BY <2>2, <2>3, <2>4
<1> HIDE DEF f0
<1> QED BY <1>6, <1>7, <1>8 DEF Iterates

(* The same for finitely many steps, each from what the last may be. *)
LEMMA Steps ==
  ASSUME NEW S, NEW a \in S, NEW L \in Nat, NEW step \in [(1..L) \X S -> S]
  PROVE  \E g : StepsUpto(g, L, S, a, step)
<1> DEFINE full == [q \in Nat \X S |->
                      IF q[1] + 1 \in 1..L THEN step[<<q[1] + 1, q[2]>>] ELSE q[2]]
<1>1. full \in [Nat \X S -> S]
  OBVIOUS
<1>2. PICK g : Iterates(g, S, a, full)
  <2> HIDE DEF full
  <2> QED BY <1>1, Recursion
<1> DEFINE h == [n \in 0..L |-> g[n]]
<1>3. h \in [0..L -> S] /\ h[0] = a
  BY <1>2 DEF Iterates
<1>4. ASSUME NEW n \in 1..L PROVE h[n] = step[<<n, h[n - 1]>>]
  <2>1. n - 1 \in Nat /\ (n - 1) + 1 = n /\ n \in Nat
    OBVIOUS
  <2>2. g[n - 1] \in S /\ <<n - 1, g[n - 1]>> \in Nat \X S
    BY <1>2, <2>1 DEF Iterates
  <2>3. g[n] = full[<<n - 1, g[n - 1]>>]
    <3> HIDE DEF full
    <3>1. g[(n - 1) + 1] = full[<<n - 1, g[n - 1]>>]
      BY <1>2, <2>1 DEF Iterates
    <3> QED BY <2>1, <3>1
  <2>4. full[<<n - 1, g[n - 1]>>] = step[<<n, g[n - 1]>>]
    BY <2>1, <2>2
  <2>5. h[n] = g[n] /\ h[n - 1] = g[n - 1]
    BY <2>1
  <2> HIDE DEF h, full
  <2> QED BY <2>3, <2>4, <2>5
<1> HIDE DEF h
<1> QED BY <1>3, <1>4 DEF StepsUpto

(* silly_sort_indexes only exchanges. *)
LEMMA SortKeeps ==
  ASSUME NEW s \in [1..6 -> Nat]
  PROVE  /\ silly_sort_indexes(s) \in [1..6 -> Nat]
         /\ \A x : (\E g \in 1..6 : silly_sort_indexes(s)[g] = x)
                     <=> (\E g \in 1..6 : s[g] = x)
<1> DEFINE S == {t \in [1..6 -> Nat] :
                   \A x \in Nat : (\E g \in 1..6 : t[g] = x) <=> (\E g \in 1..6 : s[g] = x)}
           left(n) == ((n - 1) \div 6) + 1
           right(n) == ((n - 1) % 6) + 1
           step == [q \in (1..36) \X S |-> Exchanged(q[2], left(q[1]), right(q[1]))]
<1>1. ASSUME NEW t \in S, NEW g \in 1..6, NEW h \in 1..6 PROVE Exchanged(t, g, h) \in S
  <2> DEFINE u == [t EXCEPT ![g] = t[h], ![h] = t[g]]
  <2>1. t \in [1..6 -> Nat] /\ u \in [1..6 -> Nat]
    OBVIOUS
  <2>2. \A x : (\E k \in 1..6 : u[k] = x) <=> (\E k \in 1..6 : t[k] = x)
    <3>1. /\ g # h => u[g] = t[h] /\ u[h] = t[g]
          /\ g = h => u[g] = t[g]
          /\ \A k \in 1..6 : k # g /\ k # h => u[k] = t[k]
      BY <2>1
    <3> HIDE DEF u
    <3> QED BY <3>1
  <2>3. u \in S
    <3> HIDE DEF u
    <3> QED BY <2>1, <2>2
  <2> QED BY <2>3 DEF Exchanged
<1>2. \A n \in 1..36 : left(n) \in 1..6 /\ right(n) \in 1..6
  OBVIOUS
<1>3. step \in [(1..36) \X S -> S]
  <2> HIDE DEF S, left, right
  <2> QED BY <1>1, <1>2
<1>4. s \in S
  OBVIOUS
<1> HIDE DEF S
<1>5. PICK g : StepsUpto(g, 36, S, s, step)
  <2> HIDE DEF step
  <2> QED BY <1>3, <1>4, Steps
<1>6. g = [n \in 0..36 |-> IF n = 0 THEN s
                           ELSE Exchanged(g[n - 1], ((n - 1) \div 6) + 1, ((n - 1) % 6) + 1)]
  <2>1. \A n \in 1..36 : g[n] = Exchanged(g[n - 1], left(n), right(n))
    <3> SUFFICES ASSUME NEW n \in 1..36
                 PROVE  g[n] = Exchanged(g[n - 1], left(n), right(n))
      OBVIOUS
    <3>1. g[n - 1] \in S /\ g[n] = step[<<n, g[n - 1]>>]
      <4> HIDE DEF step
      <4>1. g \in [0..36 -> S] /\ n - 1 \in 0..36
        BY <1>5 DEF StepsUpto
      <4>2. g[n] = step[<<n, g[n - 1]>>]
        BY <1>5 DEF StepsUpto
      <4> QED BY <4>1, <4>2
    <3>2. <<n, g[n - 1]>> \in (1..36) \X S
      BY <3>1
    <3> HIDE DEF left, right
    <3> QED BY <3>1, <3>2
  <2>2. g \in [0..36 -> S] /\ g[0] = s
    BY <1>5 DEF StepsUpto
  <2> QED BY <2>1, <2>2
<1>7. Sorting(s) = [n \in 0..36 |->
                      IF n = 0 THEN s
                      ELSE Exchanged(Sorting(s)[n - 1], ((n - 1) \div 6) + 1,
                                     ((n - 1) % 6) + 1)]
  <2>1. \E h : h = [n \in 0..36 |->
                      IF n = 0 THEN s
                      ELSE Exchanged(h[n - 1], ((n - 1) \div 6) + 1, ((n - 1) % 6) + 1)]
    BY <1>6
  <2> QED BY <2>1, Zenon DEF Sorting
<1> DEFINE T == {n \in Nat : n <= 36 => Sorting(s)[n] \in S}
<1>8. 0 \in T
  BY <1>4, <1>7
<1>9. ASSUME NEW n \in Nat, n \in T PROVE n + 1 \in T
  <2> SUFFICES ASSUME n + 1 <= 36 PROVE Sorting(s)[n + 1] \in S
    OBVIOUS
  <2>1. Sorting(s)[n] \in S /\ n + 1 \in 1..36 /\ (n + 1) - 1 = n
    BY <1>9
  <2>2. Sorting(s)[n + 1] = Exchanged(Sorting(s)[n], left(n + 1), right(n + 1))
    BY <1>7, <2>1
  <2>3. left(n + 1) \in 1..6 /\ right(n + 1) \in 1..6
    BY <1>2, <2>1
  <2> HIDE DEF left, right
  <2> QED BY <1>1, <2>1, <2>2, <2>3
<1>10. silly_sort_indexes(s) \in S
  <2> HIDE DEF T
  <2>1. 36 \in T
    BY <1>8, <1>9, Induction
  <2> QED BY <2>1 DEF T, silly_sort_indexes
<1> QED BY <1>10 DEF S

-----------------------------------------------------------------------------
(* The buckets. *)

Buckets == [0..(maxiter - 1) -> Seq(0..(riecoin_sieveSize - 1))]

(* The indexes that buckets hold. *)
Recorded(hits) ==
  {y \in 0..(max_increments - 1) :
     \E j \in DOMAIN hits[Segment(y)] : hits[Segment(y)][j] = Entry(y)}

LEMMA Sizes ==
  /\ riecoin_sieveSize \in Nat \ {0} /\ maxiter \in Nat \ {0}
  /\ PENDING_SIZE \in Nat \ {0} /\ OFFSET_STACK_SIZE \in Nat \ {0}
  /\ num_entries_per_segment \in Nat \ {0} /\ max_increments \in Nat \ {0}
  /\ max_increments = maxiter * riecoin_sieveSize
<1>1. /\ riecoin_sieveSize \in Nat \ {0} /\ maxiter \in Nat \ {0}
      /\ PENDING_SIZE \in Nat \ {0} /\ OFFSET_STACK_SIZE \in Nat \ {0}
      /\ num_entries_per_segment \in Nat \ {0}
  BY SieveAssumption
<1>2. \A a, b \in Nat \ {0} : a * b \in Nat \ {0}
  OBVIOUS
<1> QED BY <1>1, <1>2 DEF max_increments

LEMMA Segments ==
  ASSUME NEW y \in 0..(max_increments - 1)
  PROVE  /\ Segment(y) \in 0..(maxiter - 1) /\ Entry(y) \in 0..(riecoin_sieveSize - 1)
         /\ y = Segment(y) * riecoin_sieveSize + Entry(y)
<1> DEFINE N == riecoin_sieveSize
           q == y \div N
           r == y % N
<1>1. N \in Nat \ {0} /\ maxiter \in Nat \ {0} /\ y \in Nat /\ y < maxiter * N
  BY Sizes
<1>2. q \in Nat /\ r \in 0..(N - 1) /\ y = N * q + r
  <2> HIDE DEF N
  <2> QED BY <1>1
<1>3. Segment(y) = q /\ Entry(y) = y - N * q
  BY DEF Segment, Entry
<1> HIDE DEF N, q, r
<1>4. q < maxiter
  <2> SUFFICES ASSUME q >= maxiter PROVE FALSE
    BY <1>1, <1>2
  <2>1. N * q >= N * maxiter /\ N * maxiter = maxiter * N
    BY <1>1, <1>2
  <2> QED BY <1>1, <1>2, <2>1
<1>5. Entry(y) = r /\ N * q = q * N
  BY <1>1, <1>2, <1>3
<1> QED BY <1>1, <1>2, <1>3, <1>4, <1>5 DEF N

LEMMA PutKeeps ==
  ASSUME NEW hits \in Buckets, NEW y \in 0..(max_increments - 1)
  PROVE  Put(hits, y) \in Buckets /\ Recorded(Put(hits, y)) = Recorded(hits) \cup {y}
<1> DEFINE s == Segment(y)
           e == Entry(y)
           now == Put(hits, y)
<1>1. s \in 0..(maxiter - 1) /\ e \in 0..(riecoin_sieveSize - 1)
  BY Segments
<1>2. now = [hits EXCEPT ![s] = Append(@, e)]
  BY DEF Put
<1> HIDE DEF s, e, now
<1>3. /\ now \in Buckets /\ now[s] = Append(hits[s], e)
      /\ \A t \in 0..(maxiter - 1) : t # s => now[t] = hits[t]
      /\ hits[s] \in Seq(0..(riecoin_sieveSize - 1))
  BY <1>1, <1>2 DEF Buckets
<1>4. \A x : (\E j \in DOMAIN now[s] : now[s][j] = x)
               <=> x = e \/ (\E j \in DOMAIN hits[s] : hits[s][j] = x)
  <2>1. /\ DOMAIN hits[s] = 1..Len(hits[s]) /\ Len(hits[s]) \in Nat
        /\ DOMAIN now[s] = 1..(Len(hits[s]) + 1)
        /\ now[s][Len(hits[s]) + 1] = e
        /\ \A j \in 1..Len(hits[s]) : now[s][j] = hits[s][j]
    BY <1>1, <1>3
  <2>2. \A j \in DOMAIN now[s] : j \in DOMAIN hits[s] \/ j = Len(hits[s]) + 1
    BY <2>1
  <2>3. \A j \in DOMAIN hits[s] : j \in DOMAIN now[s]
    BY <2>1
  <2>4. Len(hits[s]) + 1 \in DOMAIN now[s]
    BY <2>1
  <2> QED BY <2>1, <2>2, <2>3, <2>4
<1>5. ASSUME NEW z \in 0..(max_increments - 1)
      PROVE  z \in Recorded(now) <=> z \in Recorded(hits) \/ z = y
  <2>1. Segment(z) \in 0..(maxiter - 1) /\ (Segment(z) = s /\ Entry(z) = e <=> z = y)
    BY Segments DEF s, e
  <2>2. CASE Segment(z) = s
    BY <1>4, <2>1, <2>2 DEF Recorded
  <2>3. CASE Segment(z) # s
    BY <1>3, <2>1, <2>3 DEF Recorded
  <2> QED BY <2>2, <2>3
<1>6. Recorded(now) = Recorded(hits) \cup {y}
  BY <1>5 DEF Recorded
<1> QED BY <1>3, <1>6 DEF now

LEMMA BucketsKept ==
  ASSUME segment_hits \in Buckets, offset_stack \in Seq(0..(max_increments - 1))
  PROVE  /\ NewHits \in Buckets
         /\ Recorded(NewHits)
              = Recorded(segment_hits) \cup {offset_stack[j] : j \in DOMAIN offset_stack}
<1> DEFINE L == Len(offset_stack)
           S == Buckets
           step == [q \in (1..L) \X S |-> Put(q[2], offset_stack[q[1]])]
<1>1. L \in Nat /\ DOMAIN offset_stack = 1..L
      /\ \A n \in 1..L : offset_stack[n] \in 0..(max_increments - 1)
  <2> DEFINE R == 0..(max_increments - 1)
  <2>1. offset_stack \in Seq(R)
    OBVIOUS
  <2> HIDE DEF R
  <2>2. L \in Nat /\ DOMAIN offset_stack = 1..L
    BY <2>1
  <2>3. \A n \in 1..L : offset_stack[n] \in R
    BY <2>1
  <2> QED BY <2>2, <2>3 DEF R
<1> HIDE DEF L, S
<1>2. step \in [(1..L) \X S -> S]
  BY <1>1, PutKeeps DEF S
<1>3. PICK g : StepsUpto(g, L, S, segment_hits, step)
  <2>1. segment_hits \in S
    BY DEF S
  <2> HIDE DEF step
  <2> QED BY <1>1, <1>2, <2>1, Steps
<1>4. g = [n \in 0..L |->
             IF n = 0 THEN segment_hits ELSE Put(g[n - 1], offset_stack[n])]
  <2>1. \A n \in 1..L : g[n] = Put(g[n - 1], offset_stack[n])
    <3> SUFFICES ASSUME NEW n \in 1..L PROVE g[n] = Put(g[n - 1], offset_stack[n])
      OBVIOUS
    <3>1. g \in [0..L -> S] /\ n - 1 \in 0..L
      BY <1>1, <1>3 DEF StepsUpto
    <3>2. g[n - 1] \in S /\ <<n, g[n - 1]>> \in (1..L) \X S
      BY <3>1
    <3>3. g[n] = step[<<n, g[n - 1]>>]
      <4> HIDE DEF step
      <4> QED BY <1>3 DEF StepsUpto
    <3> QED BY <3>2, <3>3
  <2>2. g \in [0..L -> S] /\ g[0] = segment_hits
    BY <1>3 DEF StepsUpto
  <2> QED BY <1>1, <2>1, <2>2
<1>5. Bucketed = [n \in 0..L |->
             IF n = 0 THEN segment_hits ELSE Put(Bucketed[n - 1], offset_stack[n])]
  <2>1. \E h : h = [n \in 0..Len(offset_stack) |->
             IF n = 0 THEN segment_hits ELSE Put(h[n - 1], offset_stack[n])]
    BY <1>4 DEF L
  <2> QED BY <2>1, Zenon DEF Bucketed, L
<1> DEFINE T == {n \in Nat : n <= L =>
                   /\ Bucketed[n] \in S
                   /\ Recorded(Bucketed[n])
                        = Recorded(segment_hits) \cup {offset_stack[j] : j \in 1..n}}
<1>6. 0 \in T
  <2>1. Bucketed[0] = segment_hits
    BY <1>1, <1>5
  <2> QED BY <2>1 DEF S
<1>7. ASSUME NEW n \in Nat, n \in T PROVE n + 1 \in T
  <2> SUFFICES ASSUME n + 1 <= L
               PROVE  /\ Bucketed[n + 1] \in S
                      /\ Recorded(Bucketed[n + 1])
                           = Recorded(segment_hits) \cup {offset_stack[j] : j \in 1..(n + 1)}
    OBVIOUS
  <2>1. /\ Bucketed[n] \in Buckets
        /\ Recorded(Bucketed[n])
             = Recorded(segment_hits) \cup {offset_stack[j] : j \in 1..n}
    BY <1>1, <1>7 DEF S
  <2>2. Bucketed[n + 1] = Put(Bucketed[n], offset_stack[n + 1])
    <3>1. n + 1 \in 0..L /\ n + 1 # 0 /\ (n + 1) - 1 = n
      BY <1>1
    <3> QED BY <1>5, <3>1
  <2>3. offset_stack[n + 1] \in 0..(max_increments - 1)
    BY <1>1
  <2>4. {offset_stack[j] : j \in 1..(n + 1)}
          = {offset_stack[j] : j \in 1..n} \cup {offset_stack[n + 1]}
    BY 1..(n + 1) = (1..n) \cup {n + 1}
  <2> QED BY <2>1, <2>2, <2>3, <2>4, PutKeeps DEF S
<1>8. L \in T
  <2> HIDE DEF T
  <2> QED BY <1>1, <1>6, <1>7, Induction
<1> QED BY <1>1, <1>8 DEF NewHits, L, S

-----------------------------------------------------------------------------
(* Remainders. *)

LEMMA Division ==
  ASSUME NEW n \in Nat, NEW d \in Nat \ {0}
  PROVE  /\ n \div d \in Nat /\ n % d \in 0..(d - 1)
         /\ n = d * (n \div d) + (n % d)
OBVIOUS

(* Congruence; what inverts answers. *)
Same(a, b, p) == a % p = b % p
Inverts(v, n, p) == (n * v) % p = 1
Divides(b, y, n, p) == (b + y * n) % p = 0
Answer(r, v, p) == ((p - r) * v) % p

LEMMA Congruent ==
  ASSUME NEW p \in Nat \ {0}, NEW a \in Nat, NEW b \in Nat
  PROVE  Same(a, b, p) <=> \E z \in Int : a = b + p * z
<1> DEFINE qa == a \div p
           qb == b \div p
           ra == a % p
           rb == b % p
<1>1. /\ qa \in Nat /\ ra \in 0..(p - 1) /\ a = p * qa + ra
      /\ qb \in Nat /\ rb \in 0..(p - 1) /\ b = p * qb + rb
  BY Division
<1> HIDE DEF qa, qb, ra, rb
<1>2. ASSUME ra = rb PROVE \E z \in Int : a = b + p * z
  <2>1. a = b + p * (qa - qb) /\ qa - qb \in Int
    BY <1>1, <1>2
  <2> QED BY <2>1
<1>3. ASSUME NEW z \in Int, a = b + p * z PROVE ra = rb
  <2> DEFINE k == (z + qb) - qa
  <2>1. k \in Int /\ p * k = (p * z + p * qb) - p * qa
    BY <1>1
  <2>2. p * z \in Int /\ p * qb \in Int /\ p * qa \in Int
    BY <1>1
  <2>3. ra - rb = p * k
    BY <1>1, <1>3, <2>1, <2>2
  <2> HIDE DEF k
  <2>4. k < 1 /\ k > -1
    <3>1. k >= 1 => p * k >= p
      BY <2>1
    <3>2. k <= -1 => p * k <= -p
      BY <2>1
    <3> QED BY <1>1, <2>1, <2>3, <3>1, <3>2
  <2>5. k = 0
    BY <2>1, <2>4
  <2> QED BY <1>1, <2>3, <2>5
<1> QED BY <1>2, <1>3 DEF Same, ra, rb

LEMMA SamePlus ==
  ASSUME NEW p \in Nat \ {0}, NEW a \in Nat, NEW c \in Nat
  PROVE  Same(a + p * c, a, p)
<1>1. a + p * c \in Nat /\ c \in Int
  OBVIOUS
<1> QED BY <1>1, Congruent

LEMMA SameNext ==
  ASSUME NEW p \in Nat \ {0}, NEW a \in Nat, NEW b \in Nat, b = a + p
  PROVE  Same(b, a, p)
<1>1. b = a + p * 1
  OBVIOUS
<1> QED BY <1>1, SamePlus

LEMMA SameShift ==
  ASSUME NEW p \in Nat \ {0}, NEW a \in Nat, NEW b \in Nat, NEW s \in Nat, NEW t \in Nat,
         s - a = t - b
  PROVE  Same(s, t, p) <=> Same(a, b, p)
<1>2. \A z \in Int : p * z \in Int
  OBVIOUS
<1>3. \A z \in Int : s = t + p * z <=> a = b + p * z
  BY <1>2
<1>4. Same(s, t, p) <=> \E z \in Int : s = t + p * z
  BY Congruent
<1>5. Same(a, b, p) <=> \E z \in Int : a = b + p * z
  BY Congruent
<1> QED BY <1>3, <1>4, <1>5

LEMMA SameGap ==
  ASSUME NEW p \in Nat \ {0}, NEW a \in Nat, NEW b \in Nat, Same(a, b, p), a < b
  PROVE  a + p <= b
<1>1. PICK z \in Int : b = a + p * z
  <2>1. Same(b, a, p)
    BY DEF Same
  <2> QED BY <2>1, Congruent
<1>2. z >= 1
  <2>1. z <= 0 => p * z <= 0
    OBVIOUS
  <2> QED BY <1>1, <2>1
<1>3. p * z >= p
  BY <1>2
<1> QED BY <1>1, <1>3

LEMMA SameSmall ==
  ASSUME NEW p \in Nat \ {0}, NEW a \in 0..(p - 1), NEW b \in 0..(p - 1), Same(a, b, p)
  PROVE  a = b
BY DEF Same

LEMMA Answers ==
  ASSUME NEW p \in Nat \ {0}, NEW n \in Nat, NEW v \in Nat, Inverts(v, n, p),
         NEW b \in Nat, NEW r \in 0..p, Same(r, b, p), NEW y \in Nat
  PROVE  Divides(b, y, n, p) <=> Same(y, Answer(r, v, p), p)
<1> DEFINE a == p - r
           s == (n * v) \div p
<1>1. a \in Nat /\ s \in Nat /\ n * v = 1 + p * s
  <2>1. n * v \in Nat
    OBVIOUS
  <2>2. s \in Nat /\ n * v = p * s + ((n * v) % p)
    BY <2>1, Division
  <2> QED BY <2>2 DEF Inverts
<1>2. PICK t \in Int : b = r + p * t
  <2>1. Same(b, r, p) /\ r \in Nat
    BY DEF Same
  <2> QED BY <2>1, Congruent
<1>3. b = (p * t + p) - a /\ r = p - a
  BY <1>2
<1> HIDE DEF a, s
<1>4. a * v \in Nat /\ b + y * n \in Nat /\ 0 \in Nat /\ 0 % p = 0
  BY <1>1
<1>5. Divides(b, y, n, p) <=> \E z \in Int : b + y * n = 0 + p * z
  <2>1. Same(b + y * n, 0, p) <=> Divides(b, y, n, p)
    BY <1>4 DEF Same, Divides
  <2> QED BY <1>4, <2>1, Congruent
<1>6. Same(y, Answer(r, v, p), p) <=> \E z \in Int : y = a * v + p * z
  <2> DEFINE c == a * v
  <2>1. c \in Nat /\ Answer(r, v, p) = c % p
    BY <1>4 DEF Answer, a
  <2> HIDE DEF c
  <2>2. (c % p) % p = c % p
    <3> DEFINE e == c % p
    <3>1. e \in 0..(p - 1)
      BY <2>1, Division
    <3> HIDE DEF e
    <3>2. e % p = e
      BY <3>1
    <3> QED BY <3>2 DEF e
  <2>3. Same(y, Answer(r, v, p), p) <=> Same(y, c, p)
    BY <2>1, <2>2 DEF Same
  <2> QED BY <2>1, <2>3, Congruent DEF c
<1>7. ASSUME NEW z \in Int, b + y * n = 0 + p * z
      PROVE  \E w \in Int : y = a * v + p * w
  <2>1. y * n = a + p * ((z - t) - 1)
    <3>1. p * ((z - t) - 1) = (p * z - p * t) - p
      OBVIOUS
    <3>2. p * z \in Int /\ p * t \in Int /\ y * n \in Int
      OBVIOUS
    <3> QED BY <1>1, <1>3, <1>7, <3>1, <3>2
  <2> DEFINE m == (z - t) - 1
  <2>2. m \in Int /\ y * n = a + p * m
    BY <2>1
  <2> HIDE DEF m
  <2>3. (y * n) * v = y * (n * v)
    OBVIOUS
  <2>4. (y * n) * v = a * v + p * (m * v)
    BY <1>1, <2>2
  <2>5. y * (n * v) = y + p * (y * s)
    BY <1>1
  <2>6. y = a * v + p * (m * v - y * s)
    <3>1. p * (m * v - y * s) = p * (m * v) - p * (y * s)
      BY <1>1, <2>2
    <3>2. p * (m * v) \in Int /\ p * (y * s) \in Int
      BY <1>1, <2>2
    <3> QED BY <1>4, <2>3, <2>4, <2>5, <3>1, <3>2
  <2>7. m * v - y * s \in Int
    BY <1>1, <2>2
  <2> QED BY <2>6, <2>7
<1>8. ASSUME NEW w \in Int, y = a * v + p * w
      PROVE  \E z \in Int : b + y * n = 0 + p * z
  <2>1. y * n = a * (n * v) + p * (w * n)
    BY <1>1, <1>8
  <2>2. a * (n * v) = a + p * (a * s)
    BY <1>1
  <2>3. b + y * n = 0 + p * (((t + 1) + a * s) + w * n)
    <3>1. p * (((t + 1) + a * s) + w * n) = ((p * t + p) + p * (a * s)) + p * (w * n)
      BY <1>1
    <3>2. p * t \in Int /\ p * (a * s) \in Int /\ p * (w * n) \in Int
      BY <1>1
    <3> QED BY <1>1, <1>3, <2>1, <2>2, <3>1, <3>2
  <2>4. ((t + 1) + a * s) + w * n \in Int
    BY <1>1
  <2> QED BY <2>3, <2>4
<1> QED BY <1>5, <1>6, <1>7, <1>8

-----------------------------------------------------------------------------
(* The primes and what they divide. *)

P(k) == primeTestTable[k]

LEMMA Primes ==
  /\ Len(primeTestTable) \in Nat /\ Indexes = 1..Len(primeTestTable)
  /\ \A k \in Indexes : /\ P(k) \in Nat \ {0, 1}
                        /\ inverts[k] \in Nat /\ Inverts(inverts[k], primorial, P(k))
  /\ \A g \in 1..6 : /\ primeTupleOffset[g] \in Nat
                     /\ \A k \in Indexes : primeTupleOffset[g] < P(k)
  /\ primorial \in Nat \ {0}
<1>1. Len(primeTestTable) \in Nat /\ Indexes = 1..Len(primeTestTable)
  BY SieveAssumption DEF Indexes
<1>2. ASSUME NEW k \in Indexes
      PROVE  /\ P(k) \in Nat \ {0, 1}
             /\ inverts[k] \in Nat /\ Inverts(inverts[k], primorial, P(k))
  <2>1. P(k) \in Nat
    <3>1. primeTestTable \in Seq(Nat)
      BY SieveAssumption
    <3> QED BY <3>1 DEF P, Indexes
  <2>2. \E v \in 0..(P(k) - 1) : (primorial * v) % P(k) = 1
    BY SieveAssumption DEF P
  <2>3. inverts[k] = CHOOSE v \in 0..(P(k) - 1) : (primorial * v) % P(k) = 1
    BY DEF inverts, P
  <2>4. inverts[k] \in 0..(P(k) - 1) /\ (primorial * inverts[k]) % P(k) = 1
    BY <2>2, <2>3
  <2>5. P(k) # 0
    BY <2>1, <2>4
  <2>6. P(k) # 1
    <3> SUFFICES ASSUME P(k) = 1 PROVE FALSE
      OBVIOUS
    <3>1. inverts[k] = 0 /\ primorial * 0 = 0
      BY <2>4, SieveAssumption
    <3> QED BY <2>4, <3>1
  <2> QED BY <2>1, <2>4, <2>5, <2>6 DEF Inverts
<1>3. \A g \in 1..6 : /\ primeTupleOffset[g] \in Nat
                      /\ \A k \in Indexes : primeTupleOffset[g] < P(k)
  BY SieveAssumption DEF P
<1>4. primorial \in Nat \ {0}
  BY SieveAssumption
<1> QED BY <1>1, <1>2, <1>3, <1>4

LEMMA Distances ==
  /\ \A g \in 1..6 : Distance[g] \in Nat
  /\ Distance[1] = primeTupleOffset[1]
  /\ \A g \in 2..6 : Distance[g] = primeTupleOffset[g] + Distance[g - 1]
<1> DEFINE o == primeTupleOffset
           d == [g \in 1..6 |->
                  CASE g = 1 -> o[1]
                    [] g = 2 -> o[2] + o[1]
                    [] g = 3 -> o[3] + (o[2] + o[1])
                    [] g = 4 -> o[4] + (o[3] + (o[2] + o[1]))
                    [] g = 5 -> o[5] + (o[4] + (o[3] + (o[2] + o[1])))
                    [] g = 6 -> o[6] + (o[5] + (o[4] + (o[3] + (o[2] + o[1]))))]
<1>1. \A g \in 1..6 : o[g] \in Nat
  BY SieveAssumption
<1> HIDE DEF o
<1>2. d = [g \in 1..6 |-> o[g] + IF g = 1 THEN 0 ELSE d[g - 1]]
  BY <1>1
<1>3. \E h : h = [g \in 1..6 |-> o[g] + IF g = 1 THEN 0 ELSE h[g - 1]]
  BY <1>2
<1>4. Distance = [g \in 1..6 |-> o[g] + IF g = 1 THEN 0 ELSE Distance[g - 1]]
  BY <1>3, Zenon DEF Distance, o
<1>5. Distance[1] = o[1] /\ \A g \in 2..6 : Distance[g] = o[g] + Distance[g - 1]
  <2>1. Distance[1] = o[1] + 0
    BY <1>4
  <2>2. ASSUME NEW g \in 2..6 PROVE Distance[g] = o[g] + Distance[g - 1]
    BY <1>4
  <2> QED BY <1>1, <2>1, <2>2
<1>6. Distance[1] \in Nat
  BY <1>1, <1>5
<1>7. Distance[2] \in Nat
  BY <1>1, <1>5, <1>6
<1>8. Distance[3] \in Nat
  BY <1>1, <1>5, <1>7
<1>9. Distance[4] \in Nat
  BY <1>1, <1>5, <1>8
<1>10. Distance[5] \in Nat
  BY <1>1, <1>5, <1>9
<1>11. Distance[6] \in Nat
  BY <1>1, <1>5, <1>10
<1>12. \A g \in 1..6 : Distance[g] \in Nat
  BY <1>6, <1>7, <1>8, <1>9, <1>10, <1>11
<1> QED BY <1>5, <1>12 DEF o

LEMMA Prefix ==
  ASSUME NEW limit \in Nat
  PROVE  \E c \in 0..Len(primeTestTable) :
           /\ \A k \in Indexes : P(k) < limit <=> k <= c
           /\ Cardinality({k \in Indexes : P(k) < limit}) = c
<1> DEFINE n == Len(primeTestTable)
<1>1. n \in Nat /\ Indexes = 1..n /\ \A k \in 1..n : P(k) \in Nat
  BY Primes
<1>2. \A k, l \in 1..n : k < l => P(k) < P(l)
  BY <1>1, SieveAssumption DEF P
<1> HIDE DEF n
<1>3. \E c \in 0..n : \A k \in 1..n : P(k) < limit <=> k <= c
  <2>1. CASE \A k \in 1..n : P(k) < limit
    BY <1>1, <2>1
  <2>2. CASE \E k \in 1..n : ~(P(k) < limit)
    <3> DEFINE T == {k \in 1..n : ~(P(k) < limit)}
    <3>1. T \subseteq Nat /\ T # {}
      BY <1>1, <2>2
    <3>2. PICK m \in T : \A k \in T : m <= k
      <4> HIDE DEF T
      <4> QED BY <3>1, Least
    <3>3. m - 1 \in 0..n /\ m \in 1..n /\ ~(P(m) < limit)
      BY <1>1
    <3>4. \A k \in 1..n : P(k) < limit <=> k <= m - 1
      <4> SUFFICES ASSUME NEW k \in 1..n PROVE P(k) < limit <=> k <= m - 1
        OBVIOUS
      <4>1. CASE k < m
        BY <1>1, <3>2, <3>3, <4>1
      <4>2. CASE k = m
        BY <1>1, <3>3, <4>2
      <4>3. CASE k > m
        <5>1. P(m) < P(k)
          BY <1>2, <3>3, <4>3
        <5> QED BY <1>1, <3>3, <4>3, <5>1
      <4> QED BY <1>1, <3>3, <4>1, <4>2, <4>3
    <3> QED BY <3>3, <3>4
  <2> QED BY <2>1, <2>2
<1>4. PICK c \in 0..n : \A k \in 1..n : P(k) < limit <=> k <= c
  BY <1>3
<1>5. {k \in Indexes : P(k) < limit} = 1..c
  BY <1>1, <1>4
<1>6. Cardinality(1..c) = c
  BY <1>1, FS_Interval
<1> QED BY <1>1, <1>4, <1>5, <1>6 DEF n

LEMMA Counts ==
  /\ n_dense \in Nat /\ n_stored \in Nat /\ n_dense <= n_stored
  /\ n_stored <= Len(primeTestTable)
  /\ \A k \in Indexes : P(k) < max_increments <=> k <= n_stored
<1>1. PICK c \in 0..Len(primeTestTable) :
         /\ \A k \in Indexes : P(k) < riecoin_denseLimit <=> k <= c
         /\ Cardinality({k \in Indexes : P(k) < riecoin_denseLimit}) = c
  BY Prefix, SieveAssumption
<1>2. PICK d \in 0..Len(primeTestTable) :
         /\ \A k \in Indexes : P(k) < max_increments <=> k <= d
         /\ Cardinality({k \in Indexes : P(k) < max_increments}) = d
  BY Prefix, Sizes
<1>3. n_dense = c /\ n_stored = d
  BY <1>1, <1>2 DEF n_dense, n_stored, P
<1>4. c <= d
  <2> SUFFICES ASSUME c > d PROVE FALSE
    BY Primes
  <2>1. c \in Indexes /\ c <= c
    BY Primes
  <2>2. P(c) < riecoin_denseLimit /\ ~(P(c) < max_increments)
    BY <1>1, <1>2, <2>1, Primes
  <2>3. P(c) \in Nat /\ max_increments \in Nat
    BY <2>1, Primes, Sizes
  <2>4. riecoin_denseLimit \in Nat /\ riecoin_denseLimit <= max_increments
    BY SieveAssumption
  <2> QED BY <2>2, <2>3, <2>4
<1> QED BY <1>2, <1>3, <1>4, Primes

-----------------------------------------------------------------------------
(* The numbers tested, and the positions that a prime divides them at. *)

Base(g) == (target + remainderPrimorial) + (IF g = 0 THEN 0 ELSE Distance[g])
Root(k, g) == Answer(Base(g) % P(k), inverts[k], P(k))

LEMMA Bases ==
  ASSUME target \in Targets
  PROVE  /\ \A g \in 0..6 : Base(g) \in Nat
         /\ \A g \in 1..6 : Base(g) = Base(g - 1) + primeTupleOffset[g]
         /\ Base(0) = target + remainderPrimorial
<1>1. target \in Nat /\ primorial_offset \in Nat
  BY SieveAssumption
<1>2. remainderPrimorial \in Nat
  <2> DEFINE r == target % primorial
  <2>1. r \in 0..(primorial - 1) /\ primorial \in Nat \ {0}
    BY <1>1, Primes, Division
  <2> HIDE DEF r
  <2>2. \A a \in Nat : a % primorial \in Nat
    BY <2>1
  <2>3. primorial - r \in Nat
    BY <2>1
  <2>4. (primorial - r) % primorial \in Nat
    BY <2>2, <2>3
  <2> QED BY <1>1, <2>4 DEF remainderPrimorial, r
<1> DEFINE t == target + remainderPrimorial
<1>3. t \in Nat
  BY <1>1, <1>2
<1> HIDE DEF t
<1>4. \A g \in 0..6 : Base(g) = t + (IF g = 0 THEN 0 ELSE Distance[g])
  BY DEF Base, t
<1>5. \A g \in 0..6 : Base(g) \in Nat
  BY <1>3, <1>4, Distances
<1>6. Base(1) = Base(0) + primeTupleOffset[1]
  <2>1. Base(0) = t + 0 /\ Base(1) = t + Distance[1]
    BY <1>4
  <2>2. Distance[1] = primeTupleOffset[1] /\ Distance[1] \in Nat
    BY Distances
  <2> QED BY <1>3, <2>1, <2>2
<1>7. ASSUME NEW g \in 2..6 PROVE Base(g) = Base(g - 1) + primeTupleOffset[g]
  <2>1. g - 1 \in 1..6 /\ g \in 1..6 /\ g - 1 # 0 /\ g # 0
    OBVIOUS
  <2>2. Base(g) = t + Distance[g] /\ Base(g - 1) = t + Distance[g - 1]
    BY <1>4, <2>1
  <2>3. primeTupleOffset[g] \in Nat /\ Distance[g - 1] \in Nat
        /\ Distance[g] = primeTupleOffset[g] + Distance[g - 1]
    BY <2>1, Distances, Primes
  <2> QED BY <1>3, <2>2, <2>3
<1>8. \A g \in 1..6 : Base(g) = Base(g - 1) + primeTupleOffset[g]
  BY <1>6, <1>7
<1>9. Base(0) = t
  BY <1>3, <1>4
<1> QED BY <1>5, <1>8, <1>9 DEF t

LEMMA Roots ==
  ASSUME target \in Targets, NEW k \in Indexes, NEW g \in 1..6
  PROVE  /\ Root(k, g) \in 0..(P(k) - 1)
         /\ \A y \in Nat : Divides(Base(g), y, primorial, P(k)) <=> Same(y, Root(k, g), P(k))
         /\ \A r \in 0..P(k) : Same(r, Base(g), P(k)) => Answer(r, inverts[k], P(k)) = Root(k, g)
<1> DEFINE p == P(k)
           v == inverts[k]
           b == Base(g)
           r0 == b % p
<1>1. p \in Nat \ {0, 1} /\ v \in Nat /\ Inverts(v, primorial, p) /\ primorial \in Nat
  BY Primes
<1>2. b \in Nat
  BY Bases
<1>3. Root(k, g) = Answer(r0, v, p)
  BY DEF Root
<1> HIDE DEF p, v, b
<1>4. r0 \in 0..p /\ Same(r0, b, p)
  BY <1>1, <1>2 DEF Same
<1> HIDE DEF r0
<1>5. \A r \in 0..p : Answer(r, v, p) \in 0..(p - 1)
  <2> SUFFICES ASSUME NEW r \in 0..p PROVE Answer(r, v, p) \in 0..(p - 1)
    OBVIOUS
  <2>1. p - r \in Nat
    BY <1>1
  <2>2. (p - r) * v \in Nat
    BY <1>1, <2>1
  <2>3. ((p - r) * v) % p \in 0..(p - 1)
    BY <1>1, <2>2, Division
  <2> QED BY <2>3 DEF Answer
<1>6. \A r \in 0..p, y \in Nat : Same(r, b, p) =>
        (Divides(b, y, primorial, p) <=> Same(y, Answer(r, v, p), p))
  <2> SUFFICES ASSUME NEW r \in 0..p, NEW y \in Nat, Same(r, b, p)
               PROVE  Divides(b, y, primorial, p) <=> Same(y, Answer(r, v, p), p)
    OBVIOUS
  <2>1. p \in Nat \ {0}
    BY <1>1
  <2> DEFINE n == primorial
  <2>2. n \in Nat /\ Inverts(v, n, p)
    BY <1>1
  <2> HIDE DEF n
  <2>3. Divides(b, y, n, p) <=> Same(y, Answer(r, v, p), p)
    BY <1>1, <1>2, <2>1, <2>2, Answers
  <2> QED BY <2>3 DEF n
<1>7. ASSUME NEW r \in 0..p, Same(r, b, p)
      PROVE  Answer(r, v, p) = Root(k, g)
  <2>1. Answer(r, v, p) \in 0..(p - 1) /\ Answer(r0, v, p) \in 0..(p - 1)
    BY <1>4, <1>5
  <2>2. Answer(r, v, p) \in Nat
    BY <2>1
  <2>3. Same(Answer(r, v, p), Answer(r, v, p), p)
    BY DEF Same
  <2>4. Divides(b, Answer(r, v, p), primorial, p)
    BY <1>6, <1>7, <2>2, <2>3
  <2>5. Same(Answer(r, v, p), Answer(r0, v, p), p)
    BY <1>4, <1>6, <2>2, <2>4
  <2> QED BY <1>1, <1>3, <2>1, <2>5, SameSmall
<1>8. Root(k, g) \in 0..(p - 1)
  BY <1>3, <1>4, <1>5
<1>9. \A y \in Nat : Divides(b, y, primorial, p) <=> Same(y, Root(k, g), p)
  BY <1>3, <1>4, <1>6
<1> QED BY <1>7, <1>8, <1>9 DEF p, v, b

-----------------------------------------------------------------------------
(* The invariant. *)

Bits == 0..(riecoin_sieveSize - 1)

SieveType ==
  /\ pc \in {"mod", "exit", "dense", "sparse", "hits", "scan"}
  /\ target \in Targets /\ i \in Nat \ {0} /\ f \in 1..6 /\ remainder \in Nat
  /\ offsets \in [1..n_stored -> [1..6 -> Nat]]
  /\ offset_stack \in Seq(0..(max_increments - 1))
  /\ Len(offset_stack) <= OFFSET_STACK_SIZE
  /\ segment_hits \in Buckets
  /\ \A s \in 0..(maxiter - 1) : Len(segment_hits[s]) <= num_entries_per_segment
  /\ loop \in 0..(maxiter - 1) /\ sieve \subseteq Bits
  /\ pending \in [0..(PENDING_SIZE - 1) -> Bits] /\ pending_pos \in 0..(PENDING_SIZE - 1)

(* The indexes of the target that are computed: all of them, once pc has   *)
(* left "mod".                                                             *)
Found(k, g) == pc = "mod" => k < i \/ (k = i /\ g < f)
Waiting == Recorded(segment_hits) \cup {offset_stack[j] : j \in DOMAIN offset_stack}

ModInv ==
  /\ pc # "mod" => offset_stack = <<>>
  /\ pc = "mod" =>
       /\ loop = 0 /\ i <= Len(primeTestTable) + 1
       /\ \A k \in 1..n_stored, g \in 1..6 : Found(k, g) => offsets[k][g] = Root(k, g)
       /\ f > 1 => /\ i <= Len(primeTestTable) /\ remainder \in 0..P(i)
                   /\ Same(remainder, Base(f - 1), P(i))
  /\ \A y \in 0..(max_increments - 1) :
       y \in Waiting <=>
         \E k \in Indexes, g \in 1..6 : k > n_stored /\ Found(k, g) /\ y = Root(k, g)

(* In a pass: the offsets that are moved to the next pass.                 *)
Passed(k, h) ==
  \/ pc \in {"hits", "scan"} \/ k < i
  \/ pc = "sparse" /\ k = i /\ h < f
Place(k, h) ==
  offsets[k][h] + (loop + IF Passed(k, h) THEN 1 ELSE 0) * riecoin_sieveSize

OffsetsInv ==
  \A k \in 1..n_stored :
    /\ \A h \in 1..6 : \E g \in 1..6 : Same(Place(k, h), Root(k, g), P(k))
    /\ \A g \in 1..6 : \E h \in 1..6 : Same(Place(k, h), Root(k, g), P(k))
    /\ \A h \in 1..6 :
         offsets[k][h] < P(k) + (IF pc = "sparse" /\ k = i /\ h = f
                                 THEN riecoin_sieveSize ELSE 0)

(* A prime divides a number of bit x; the current prime has got to bit x.  *)
At(x) == loop * riecoin_sieveSize + x
Struck(x, k) == \E g \in 1..6 : Same(At(x), Root(k, g), P(k))
Reached(x) ==
  \E k \in 1..n_stored, h \in 1..6 :
    /\ k = i /\ (h < f \/ (h = f /\ x < offsets[k][h]))
    /\ Same(At(x), Place(k, h), P(k))

Lit == sieve \cup ({pending[j] : j \in DOMAIN pending} \ {0})
Dense(x) == \E k \in 1..n_dense : Struck(x, k)

MarksInv ==
  /\ pc = "dense" =>
       /\ i <= n_dense + 1
       /\ \A x \in Bits : x \in sieve <=> \E k \in 1..n_dense : k < i /\ Struck(x, k)
  /\ pc = "sparse" =>
       /\ n_dense < i /\ i <= n_stored + 1
       /\ \A x \in Bits : x \in Lit <=>
            \/ Dense(x)
            \/ x # 0 /\ \E k \in Indexes : n_dense < k /\ k < i /\ Struck(x, k)
            \/ x # 0 /\ Reached(x)
  /\ pc = "hits" =>
       \A x \in Bits : x \in Lit <=>
         \/ Dense(x)
         \/ x # 0 /\ \E k \in Indexes : n_dense < k /\ k <= n_stored /\ Struck(x, k)
         \/ x # 0 /\ \E j \in DOMAIN segment_hits[loop] :
                       j < i /\ segment_hits[loop][j] = x
  /\ pc = "scan" =>
       \A x \in Bits : x \in sieve <=>
         \/ Dense(x)
         \/ x # 0 /\ \E k \in Indexes : n_dense < k /\ Struck(x, k)

SieveInv ==
  /\ SieveType
  /\ pc # "exit" => ModInv
  /\ pc \in {"dense", "sparse", "hits", "scan"} => OffsetsInv /\ MarksInv

-----------------------------------------------------------------------------
(* The parts of a step. *)

LEMMA TargetKept ==
  ASSUME target' = target
  PROVE  \A k, g : Base(g)' = Base(g) /\ Root(k, g)' = Root(k, g)
BY DEF Base, Root, remainderPrimorial

(* The bits that Hit takes, and where Carry goes on. *)
LEMMA Carries ==
  ASSUME NEW o \in Nat, NEW p \in Nat \ {0}
  PROVE  /\ Carry(o, p) \in Nat /\ Hit(o, p) \subseteq Bits
         /\ Same(Carry(o, p) + riecoin_sieveSize, o, p)
         /\ o < p => Carry(o, p) < p
         /\ o < p => \A x \in Bits : x \in Hit(o, p) <=> Same(x, o, p)
<1> DEFINE N == riecoin_sieveSize
           T == {j \in Nat : o + p * j >= N}
<1>1. N \in Nat \ {0}
  BY Sizes
<1>2. T \subseteq Nat /\ T # {}
  <2>1. p * N >= N /\ p * N \in Nat
    BY <1>1
  <2>2. N \in T
    BY <1>1, <2>1
  <2> QED BY <2>2
<1>3. PICK c \in T : \A j \in T : c <= j
  <2> HIDE DEF T
  <2> QED BY <1>2, Least
<1>4. c \in Nat /\ o + p * c >= N
  OBVIOUS
<1>5. \A j \in Nat : o + p * j < N <=> j < c
  <2> SUFFICES ASSUME NEW j \in Nat PROVE o + p * j < N <=> j < c
    OBVIOUS
  <2>0. p * j \in Nat /\ p * c \in Nat
    BY <1>4
  <2>1. j < c => ~(o + p * j >= N)
    <3> SUFFICES ASSUME j < c, o + p * j >= N PROVE FALSE
      OBVIOUS
    <3>1. j \in T
      OBVIOUS
    <3> HIDE DEF T
    <3>2. c <= j
      BY <1>3, <3>1
    <3> QED BY <1>4, <3>2
  <2>2. j >= c => p * j >= p * c
    BY <1>4
  <2> QED BY <1>1, <1>4, <2>0, <2>1, <2>2
<1> HIDE DEF N, T
<1>6. Hit(o, p) = {x \in 0..(N - 1) : x >= o /\ (x - o) % p = 0}
  BY DEF Hit, N
<1>7. \A x : x \in Hit(o, p) <=> \E j \in 0..(c - 1) : x = o + p * j
  <2>1. ASSUME NEW x \in Hit(o, p) PROVE \E j \in 0..(c - 1) : x = o + p * j
    <3>1. x \in Nat /\ x < N /\ x >= o /\ (x - o) % p = 0
      BY <1>1, <1>6
    <3> DEFINE d == x - o
    <3>2. d \in Nat /\ d % p = 0 /\ x = o + d
      BY <3>1
    <3> HIDE DEF d
    <3>3. d = p * (d \div p) /\ d \div p \in Nat
      <4>1. d \div p \in Nat /\ d = p * (d \div p) + (d % p)
        BY <3>2, Division
      <4>2. p * (d \div p) \in Nat
        BY <4>1
      <4> QED BY <3>2, <4>1, <4>2
    <3>4. d \div p < c
      BY <1>5, <3>1, <3>2, <3>3
    <3>5. d \div p \in 0..(c - 1)
      BY <1>4, <3>3, <3>4
    <3> QED BY <3>2, <3>3, <3>5
  <2>2. ASSUME NEW j \in 0..(c - 1) PROVE o + p * j \in Hit(o, p)
    <3>1. j \in Nat /\ j < c /\ p * j \in Nat
      BY <1>4
    <3>2. o + p * j < N /\ o + p * j >= o /\ (o + p * j) - o = p * j
      BY <1>5, <3>1
    <3>3. (p * j) % p = 0
      <4>1. Same(0 + p * j, 0, p)
        BY <3>1, SamePlus
      <4>2. 0 % p = 0 /\ 0 + p * j = p * j
        BY <3>1
      <4> QED BY <4>1, <4>2 DEF Same
    <3> QED BY <1>1, <1>6, <3>1, <3>2, <3>3
  <2> QED BY <2>1, <2>2
<1>8. Cardinality(Hit(o, p)) = c
  <2> DEFINE J == 0..(c - 1)
             b == [j \in J |-> o + p * j]
  <2>1. IsFiniteSet(J) /\ Cardinality(J) = c
    <3>1. 0 \in Int /\ c - 1 \in Int
      BY <1>4
    <3>2. IsFiniteSet(J) /\ Cardinality(J) = IF 0 > c - 1 THEN 0 ELSE ((c - 1) - 0) + 1
      BY <3>1, FS_Interval
    <3> QED BY <1>4, <3>2
  <2>2. b \in [J -> Hit(o, p)]
    BY <1>7
  <2>3. ASSUME NEW j \in J, NEW k \in J, b[j] = b[k] PROVE j = k
    <3>1. o + p * j = o + p * k /\ j \in Nat /\ k \in Nat
      BY <1>4, <2>3
    <3>2. p * j \in Nat /\ p * k \in Nat
      BY <3>1
    <3>3. p * j = p * k
      BY <3>1, <3>2
    <3> QED BY <3>1, <3>3
  <2>4. \A x \in Hit(o, p) : \E j \in J : b[j] = x
    BY <1>7
  <2>5. b \in Bijection(J, Hit(o, p))
    <3> HIDE DEF J, b
    <3> QED BY <2>2, <2>3, <2>4 DEF Bijection, Injection, Surjection, IsInjective
  <2> HIDE DEF J, b
  <2> QED BY <2>1, <2>5, FS_Bijection DEF ExistsBijection
<1>9. Carry(o, p) = (o + p * c) - N
  <2> DEFINE n == Cardinality(Hit(o, p))
  <2>1. Carry(o, p) = o + p * n - N /\ n = c
    BY <1>8 DEF Carry, N
  <2> HIDE DEF n
  <2> QED BY <1>1, <1>4, <2>1
<1>10. Carry(o, p) \in Nat /\ Carry(o, p) + N = o + p * c /\ p * c \in Nat
  BY <1>1, <1>4, <1>9
<1>11. Same(Carry(o, p) + N, o, p)
  BY <1>4, <1>10, SamePlus
<1>12. o < p => Carry(o, p) < p
  <2> SUFFICES ASSUME o < p PROVE Carry(o, p) < p
    OBVIOUS
  <2>1. CASE c = 0
    BY <1>1, <1>9, <2>1
  <2>2. CASE c # 0
    <3>1. c - 1 \in Nat /\ o + p * (c - 1) < N
      BY <1>4, <1>5, <2>2
    <3>2. p * (c - 1) = p * c - p
      BY <1>4
    <3> QED BY <1>1, <1>9, <1>10, <3>1, <3>2
  <2> QED BY <2>1, <2>2
<1>13. Hit(o, p) \subseteq Bits
  BY <1>6 DEF Bits, N
<1>14. ASSUME o < p, NEW x \in Bits PROVE x \in Hit(o, p) <=> Same(x, o, p)
  <2>1. x \in Nat /\ x \in 0..(N - 1)
    BY <1>1 DEF Bits, N
  <2>2. ~(x < o /\ Same(x, o, p))
    BY <1>14, <2>1, SameGap
  <2>3. x >= o => ((x - o) % p = 0 <=> Same(x, o, p))
    <3> SUFFICES ASSUME x >= o PROVE (x - o) % p = 0 <=> Same(x, o, p)
      OBVIOUS
    <3> DEFINE d == x - o
    <3>1. d \in Nat /\ x - d = o - 0 /\ 0 \in Nat
      BY <2>1
    <3> HIDE DEF d
    <3>2. Same(x, o, p) <=> Same(d, 0, p)
      BY <2>1, <3>1, SameShift
    <3>3. 0 % p = 0
      OBVIOUS
    <3> QED BY <3>2, <3>3 DEF d, Same
  <2> QED BY <1>6, <2>1, <2>2, <2>3
<1> QED BY <1>10, <1>11, <1>12, <1>13, <1>14 DEF N

LEMMA AddPending ==
  ASSUME SieveType, NEW ent \in Bits, add_to_pending(ent)
  PROVE  /\ sieve' \subseteq Bits /\ pending' \in [0..(PENDING_SIZE - 1) -> Bits]
         /\ pending_pos' \in 0..(PENDING_SIZE - 1)
         /\ \A x : x \in Lit' <=> x \in Lit \/ (x = ent /\ x # 0)
<1> DEFINE R == 0..(PENDING_SIZE - 1)
           q == pending_pos
<1>1. /\ pending \in [R -> Bits] /\ q \in R /\ sieve \subseteq Bits
      /\ sieve' = sieve \cup ({pending[q]} \ {0})
      /\ pending' = [pending EXCEPT ![q] = ent]
      /\ pending_pos' = (q + 1) % PENDING_SIZE
  BY DEF SieveType, add_to_pending
<1>2. pending_pos' \in R
  BY <1>1, Sizes
<1> HIDE DEF R, q
<1>3. /\ pending' \in [R -> Bits] /\ pending'[q] = ent /\ DOMAIN pending' = R
      /\ \A j \in R : j # q => pending'[j] = pending[j]
      /\ DOMAIN pending = R
  BY <1>1
<1>4. \A x : x \in Lit' <=> x \in sieve' \/ (x # 0 /\ \E j \in R : pending'[j] = x)
  BY <1>3 DEF Lit
<1>5. \A x : x \in Lit <=> x \in sieve \/ (x # 0 /\ \E j \in R : pending[j] = x)
  BY <1>3 DEF Lit
<1>6. \A x : x \in Lit' <=> x \in Lit \/ (x = ent /\ x # 0)
  BY <1>1, <1>3, <1>4, <1>5
<1> QED BY <1>1, <1>2, <1>3, <1>6 DEF R

LEMMA NoPendingType ==
  NoPending \in [0..(PENDING_SIZE - 1) -> Bits] /\ 0 \in 0..(PENDING_SIZE - 1)
BY Sizes DEF NoPending, Bits

LEMMA Flushed ==
  ASSUME FlushPending
  PROVE  sieve' = Lit
BY DEF FlushPending, Lit

LEMMA Stored ==
  /\ n_dense \in Nat /\ n_stored \in Nat /\ riecoin_sieveSize \in Nat \ {0}
  /\ \A k \in 1..n_stored : k \in Indexes /\ P(k) \in Nat \ {0}
  /\ \A k \in 1..n_dense : k \in 1..n_stored
<1>1. n_dense \in Nat /\ n_stored \in Nat /\ n_dense <= n_stored
      /\ n_stored <= Len(primeTestTable)
  BY Counts
<1>2. \A k \in 1..n_stored : k \in Indexes
  BY <1>1, Primes
<1>3. \A k \in 1..n_stored : P(k) \in Nat \ {0}
  BY <1>2, Primes
<1>4. \A k \in 1..n_dense : k \in 1..n_stored
  BY <1>1
<1> QED BY <1>1, <1>2, <1>3, <1>4, Sizes

(* Once all the indexes are computed they stay. *)
LEMMA ModKept ==
  ASSUME ModInv, pc # "mod", pc' # "mod", target' = target,
         segment_hits' = segment_hits, offset_stack' = offset_stack
  PROVE  ModInv'
<1>1. Waiting' = Waiting
  BY DEF Waiting
<1>2. \A k, g : Root(k, g)' = Root(k, g)
  BY TargetKept
<1>3. \A k, g : Found(k, g) /\ Found(k, g)'
  BY DEF Found
<1>4. \A y \in 0..(max_increments - 1) :
        y \in Waiting' <=>
          \E k \in Indexes, g \in 1..6 : k > n_stored /\ Found(k, g)' /\ y = Root(k, g)'
  <2>1. \A y \in 0..(max_increments - 1) :
          y \in Waiting <=>
            \E k \in Indexes, g \in 1..6 : k > n_stored /\ Found(k, g) /\ y = Root(k, g)
    BY DEF ModInv
  <2> QED BY <1>1, <1>2, <1>3, <2>1, Zenon
<1>5. offset_stack' = <<>>
  BY DEF ModInv
<1> QED BY <1>4, <1>5 DEF ModInv

(* Below the first index nothing is struck. *)
LEMMA NotYet ==
  ASSUME NEW p \in Nat \ {0}, NEW o \in Nat, o < p, NEW t \in Nat, NEW x \in Nat, x < o
  PROVE  ~Same(t + x, o + t, p)
<1>1. t + x \in Nat /\ o + t \in Nat /\ t + x < o + t
  OBVIOUS
<1> SUFFICES ASSUME Same(t + x, o + t, p) PROVE FALSE
  OBVIOUS
<1>2. (t + x) + p <= o + t
  BY <1>1, SameGap
<1> QED BY <1>2

(* c is a but for the entry h of its row k. *)
Tables == [1..n_stored -> [1..6 -> Nat]]
Replaces(c, a, k, h, e) == c = [a EXCEPT ![k][h] = e]

LEMMA Replaced ==
  ASSUME NEW a \in Tables, NEW k \in 1..n_stored, NEW h \in 1..6, NEW e \in Nat,
         NEW c, Replaces(c, a, k, h, e)
  PROVE  /\ c \in Tables /\ c[k][h] = e
         /\ \A l \in 1..n_stored, g \in 1..6 : ~(l = k /\ g = h) => c[l][g] = a[l][g]
<1> DEFINE S == 1..n_stored
<1>1. /\ a \in [S -> [1..6 -> Nat]] /\ k \in S /\ c = [a EXCEPT ![k][h] = e]
      /\ a[k] \in [1..6 -> Nat] /\ [a[k] EXCEPT ![h] = e] \in [1..6 -> Nat]
  BY DEF Replaces, Tables
<1> HIDE DEF S
<1>2. /\ c \in [S -> [1..6 -> Nat]] /\ c[k][h] = e
      /\ \A l \in S, g \in 1..6 : ~(l = k /\ g = h) => c[l][g] = a[l][g]
  BY <1>1
<1> QED BY <1>2 DEF S, Tables

LEMMA StartPassKeeps ==
  ASSUME SieveInv, StartPass
  PROVE  SieveInv'
<1>1. /\ SieveType /\ ModInv /\ loop = 0 /\ offset_stack = <<>> /\ i > Len(primeTestTable)
      /\ pc = "mod" /\ pc' = "dense" /\ sieve' = {} /\ i' = 1 /\ loop' = 0
      /\ target' = target /\ offsets' = offsets /\ offset_stack' = offset_stack
      /\ segment_hits' = segment_hits
  BY DEF SieveInv, StartPass, ModInv, ModDone
<1>2. SieveType'
  BY <1>1 DEF SieveType, StartPass, ring
<1>3. \A k, g : Root(k, g)' = Root(k, g)
  BY <1>1, TargetKept
<1>4. \A k \in Indexes, g \in 1..6 : Found(k, g) /\ Found(k, g)'
  BY <1>1, Primes DEF Found, SieveType
<1>5. ModInv'
  <2>1. Waiting' = Waiting
    BY <1>1 DEF Waiting
  <2>2. \A y \in 0..(max_increments - 1) :
          y \in Waiting <=>
            \E k \in Indexes, g \in 1..6 : k > n_stored /\ Found(k, g) /\ y = Root(k, g)
    BY <1>1 DEF ModInv
  <2>3. \A y \in 0..(max_increments - 1) :
          y \in Waiting' <=>
            \E k \in Indexes, g \in 1..6 : k > n_stored /\ Found(k, g)' /\ y = Root(k, g)'
    BY <1>3, <1>4, <2>1, <2>2, Zenon
  <2> QED BY <1>1, <2>3 DEF ModInv
<1>6. OffsetsInv'
  <2>1. ASSUME NEW k \in 1..n_stored, NEW h \in 1..6
        PROVE  /\ Same(Place(k, h)', Root(k, h)', P(k))
               /\ offsets'[k][h] < P(k)
    <3>1. k \in Indexes
      BY Stored
    <3>2. offsets[k][h] = Root(k, h)
      BY <1>1, <1>4, <3>1 DEF ModInv
    <3>3. Root(k, h) \in 0..(P(k) - 1) /\ P(k) \in Nat
      BY <1>1, <3>1, Roots, Primes DEF SieveType
    <3>4. ~Passed(k, h)'
      BY <1>1 DEF Passed
    <3>5. Place(k, h)' = offsets[k][h] + (0 + 0) * riecoin_sieveSize
      BY <1>1, <3>4 DEF Place
    <3>6. Place(k, h)' = Root(k, h)
      BY <3>2, <3>3, <3>5, Stored
    <3> QED BY <1>1, <1>3, <3>2, <3>3, <3>6 DEF Same
  <2> QED BY <1>1, <2>1, Stored DEF OffsetsInv
<1>7. MarksInv'
  BY <1>1, Stored DEF MarksInv
<1> QED BY <1>1, <1>2, <1>5, <1>6, <1>7 DEF SieveInv

(* Each offset keeps its class, which is that of a root. *)
LEMMA PlacesKept ==
  ASSUME OffsetsInv, target' = target,
         \A k \in 1..n_stored, h \in 1..6 : Same(Place(k, h)', Place(k, h), P(k))
  PROVE  \A k \in 1..n_stored :
           /\ \A h \in 1..6 : \E g \in 1..6 : Same(Place(k, h)', Root(k, g)', P(k))
           /\ \A g \in 1..6 : \E h \in 1..6 : Same(Place(k, h)', Root(k, g)', P(k))
<1>1. \A k \in 1..n_stored :
        /\ \A h \in 1..6 : \E g \in 1..6 : Same(Place(k, h), Root(k, g), P(k))
        /\ \A g \in 1..6 : \E h \in 1..6 : Same(Place(k, h), Root(k, g), P(k))
  BY DEF OffsetsInv
<1>2. \A k, g : Root(k, g)' = Root(k, g)
  BY TargetKept
<1> QED BY <1>1, <1>2 DEF Same

LEMMA StartSparseKeeps ==
  ASSUME SieveInv, StartSparse
  PROVE  SieveInv'
<1>1. /\ SieveType /\ ModInv /\ OffsetsInv /\ MarksInv /\ i > n_dense
      /\ pc = "dense" /\ pc' = "sparse" /\ f' = 1 /\ i' = i
      /\ pending' = NoPending /\ pending_pos' = 0
      /\ target' = target /\ remainder' = remainder /\ offsets' = offsets
      /\ offset_stack' = offset_stack /\ segment_hits' = segment_hits
      /\ loop' = loop /\ sieve' = sieve
  BY DEF SieveInv, StartSparse
<1>2. SieveType'
  BY <1>1, NoPendingType DEF SieveType
<1>3. \A k, g : Root(k, g)' = Root(k, g)
  BY <1>1, TargetKept
<1>4. ModInv'
  BY <1>1, ModKept
<1>5. i = n_dense + 1 /\ i \in Nat /\ n_dense \in Nat /\ n_stored \in Nat /\ n_dense <= n_stored
  BY <1>1, Counts DEF MarksInv, SieveType
<1>6. \A k \in 1..n_stored, h \in 1..6 : Passed(k, h) <=> k < i
  BY <1>1 DEF Passed
<1>7. \A k \in 1..n_stored, h \in 1..6 : Passed(k, h)' <=> k < i
  BY <1>1, <1>5 DEF Passed
<1>8. \A k \in 1..n_stored, h \in 1..6 : Place(k, h)' = Place(k, h)
  BY <1>1, <1>6, <1>7 DEF Place
<1>9. \A k \in 1..n_stored, h \in 1..6 : offsets[k][h] < P(k) /\ offsets[k][h] \in Nat
  <2> SUFFICES ASSUME NEW k \in 1..n_stored, NEW h \in 1..6
               PROVE  offsets[k][h] < P(k) /\ offsets[k][h] \in Nat
    OBVIOUS
  <2>1. offsets[k][h] \in Nat
    BY <1>1 DEF SieveType
  <2>2. offsets[k][h] < P(k) + 0 /\ P(k) \in Nat
    BY <1>1, Stored DEF OffsetsInv
  <2> QED BY <2>1, <2>2
<1>10. OffsetsInv'
  <2>1. \A k \in 1..n_stored, h \in 1..6 :
          offsets'[k][h] < P(k) + (IF pc' = "sparse" /\ k = i' /\ h = f'
                                   THEN riecoin_sieveSize ELSE 0)
    BY <1>1, <1>9, Stored
  <2>2. \A k \in 1..n_stored :
          /\ \A h \in 1..6 : \E g \in 1..6 : Same(Place(k, h)', Root(k, g)', P(k))
          /\ \A g \in 1..6 : \E h \in 1..6 : Same(Place(k, h)', Root(k, g)', P(k))
    BY <1>1, <1>8, PlacesKept DEF Same
  <2> QED BY <2>1, <2>2 DEF OffsetsInv
<1>11. ASSUME NEW x \in Bits PROVE ~Reached(x)'
  <2> SUFFICES ASSUME NEW k \in 1..n_stored, NEW h \in 1..6, k = i,
                      h < 1 \/ (h = 1 /\ x < offsets[k][h]),
                      Same(At(x)', Place(k, h)', P(k))
               PROVE  FALSE
    BY <1>1 DEF Reached
  <2>1. h = 1 /\ x < offsets[k][h]
    OBVIOUS
  <2> DEFINE t == loop * riecoin_sieveSize
             o == offsets[k][h]
  <2>2. t \in Nat /\ x \in Nat /\ o \in Nat /\ o < P(k) /\ P(k) \in Nat \ {0}
    BY <1>1, <1>9, <2>1, Stored DEF SieveType, Bits
  <2>3. At(x)' = t + x
    BY <1>1 DEF At
  <2>4. Place(k, h)' = o + (loop + 0) * riecoin_sieveSize
    BY <1>1, <1>5, <1>7, <2>1 DEF Place
  <2>5. (loop + 0) * riecoin_sieveSize = t
    BY <1>1, Stored DEF SieveType
  <2> HIDE DEF t, o
  <2>6. Same(t + x, o + t, P(k)) /\ x < o
    BY <2>1, <2>3, <2>4, <2>5 DEF o
  <2> QED BY <2>2, <2>6, NotYet
<1>12. Lit' = sieve
  BY <1>1 DEF Lit, NoPending
<1>13. MarksInv'
  <2>1. ASSUME NEW x \in Bits
        PROVE  /\ x \in Lit' <=> Dense(x)'
               /\ ~\E k \in Indexes : n_dense < k /\ k < i /\ Struck(x, k)'
    <3>1. \A k : Struck(x, k)' <=> Struck(x, k)
      BY <1>1, <1>3 DEF Struck, At
    <3>2. x \in sieve <=> \E k \in 1..n_dense : k < i /\ Struck(x, k)
      BY <1>1 DEF MarksInv
    <3>3. \A k \in 1..n_dense : k < i
      BY <1>5
    <3>4. x \in Lit' <=> Dense(x)'
      BY <1>12, <3>1, <3>2, <3>3 DEF Dense
    <3>5. \A k \in Indexes : ~(n_dense < k /\ k < i)
      BY <1>5, Primes
    <3> QED BY <3>4, <3>5
  <2> QED BY <1>1, <1>5, <1>11, <2>1 DEF MarksInv
<1> QED BY <1>1, <1>2, <1>4, <1>10, <1>13 DEF SieveInv

LEMMA MarkSparseKeeps ==
  ASSUME SieveInv, MarkSparse
  PROVE  SieveInv'
<1>0. PICK a \in 1..n_stored, b \in 1..6 : a = i /\ b = f
  <2>1. i \in 1..n_stored /\ f \in 1..6
    BY Stored DEF SieveInv, SieveType, MarkSparse
  <2> QED BY <2>1
<1> DEFINE o == offsets[a][b]
           N == riecoin_sieveSize
           t == loop * N
           p == P(a)
<1>1. /\ SieveType /\ ModInv /\ OffsetsInv /\ MarksInv /\ o < N /\ a = i /\ b = f
      /\ pc = "sparse" /\ pc' = "sparse" /\ f' = f /\ i' = i
      /\ add_to_pending(o) /\ Replaces(offsets', offsets, a, b, o + p)
      /\ target' = target /\ remainder' = remainder
      /\ offset_stack' = offset_stack /\ segment_hits' = segment_hits
      /\ loop' = loop
  BY <1>0 DEF SieveInv, MarkSparse, P, Replaces
<1>2. /\ o \in Nat /\ p \in Nat \ {0} /\ N \in Nat \ {0}
      /\ t \in Nat /\ offsets \in [1..n_stored -> [1..6 -> Nat]] /\ o \in Bits
  <2>1. N \in Nat \ {0} /\ p \in Nat \ {0}
    BY Stored
  <2>2. offsets \in [1..n_stored -> [1..6 -> Nat]] /\ loop \in Nat
    BY <1>1 DEF SieveType
  <2>3. o \in Nat /\ t \in Nat
    BY <2>1, <2>2
  <2>4. o \in Bits
    BY <1>1, <2>1, <2>3 DEF Bits
  <2> QED BY <2>1, <2>2, <2>3, <2>4
<1>3. /\ offsets' \in [1..n_stored -> [1..6 -> Nat]] /\ offsets'[a][b] = o + p
      /\ \A k \in 1..n_stored, h \in 1..6 :
           ~(k = a /\ h = b) => offsets'[k][h] = offsets[k][h]
  <2> DEFINE e == o + p
  <2>1. e \in Nat /\ offsets \in Tables
    BY <1>2 DEF Tables
  <2>2. Replaces(offsets', offsets, a, b, e)
    BY <1>1
  <2> HIDE DEF e
  <2>3. /\ offsets' \in Tables /\ offsets'[a][b] = e
        /\ \A k \in 1..n_stored, h \in 1..6 :
             ~(k = a /\ h = b) => offsets'[k][h] = offsets[k][h]
    BY <2>1, <2>2, Replaced
  <2> QED BY <2>3 DEF e, Tables
<1>4. SieveType' /\ \A x : x \in Lit' <=> x \in Lit \/ (x = o /\ x # 0)
  <2> HIDE DEF o
  <2>1. /\ sieve' \subseteq Bits /\ pending' \in [0..(PENDING_SIZE - 1) -> Bits]
        /\ pending_pos' \in 0..(PENDING_SIZE - 1)
        /\ \A x : x \in Lit' <=> x \in Lit \/ (x = o /\ x # 0)
    BY <1>1, <1>2, AddPending
  <2> QED BY <1>1, <1>3, <2>1 DEF SieveType
<1> HIDE DEF N, t, p
<1>5. \A k, g : Root(k, g)' = Root(k, g)
  BY <1>1, TargetKept
<1>6. ModInv'
  BY <1>1, ModKept
<1>7. \A k \in 1..n_stored, h \in 1..6 : (Passed(k, h)' <=> Passed(k, h)) /\ ~Passed(a, b)
  BY <1>1, <1>2 DEF Passed
<1>8. \A k \in 1..n_stored, h \in 1..6 : ~(k = a /\ h = b) => Place(k, h)' = Place(k, h)
  BY <1>1, <1>3, <1>7 DEF Place
<1>9. Place(a, b) = o + t /\ Place(a, b)' = (o + p) + t
  <2>1. (loop + 0) * N = t
    BY <1>1, <1>2 DEF t, SieveType
  <2>2. Place(a, b) = o + (loop + 0) * N
    BY <1>2, <1>7 DEF Place, N
  <2>3. Place(a, b)' = (o + p) + (loop + 0) * N
    BY <1>1, <1>2, <1>3, <1>7 DEF Place, N
  <2> QED BY <2>1, <2>2, <2>3
<1> HIDE DEF o
<1>10. Same(Place(a, b)', Place(a, b), p)
  <2>1. o + t \in Nat /\ (o + p) + t \in Nat /\ (o + p) + t = (o + t) + p
    BY <1>2
  <2> QED BY <1>2, <1>9, <2>1, SameNext
<1>11. \A k \in 1..n_stored, h \in 1..6 : Same(Place(k, h)', Place(k, h), P(k))
  BY <1>8, <1>10 DEF Same, p
<1>12. OffsetsInv'
  <2>1. ASSUME NEW k \in 1..n_stored, NEW h \in 1..6
        PROVE  offsets'[k][h] < P(k) + (IF pc' = "sparse" /\ k = i' /\ h = f'
                                        THEN riecoin_sieveSize ELSE 0)
    <3>1. CASE k = a /\ h = b
      <4>1. o + p < p + N
        BY <1>1, <1>2 DEF o, N
      <4> QED BY <1>1, <1>3, <3>1, <4>1 DEF N, p
    <3>2. CASE ~(k = a /\ h = b)
      BY <1>1, <1>3, <3>2 DEF OffsetsInv
    <3> QED BY <3>1, <3>2
  <2>2. \A k \in 1..n_stored :
          /\ \A h \in 1..6 : \E g \in 1..6 : Same(Place(k, h)', Root(k, g)', P(k))
          /\ \A g \in 1..6 : \E h \in 1..6 : Same(Place(k, h)', Root(k, g)', P(k))
    BY <1>1, <1>11, PlacesKept
  <2> QED BY <2>1, <2>2 DEF OffsetsInv
<1>13. ASSUME NEW x \in Bits PROVE Reached(x)' <=> Reached(x) \/ x = o
  <2>1. x \in Nat /\ At(x) = t + x /\ At(x)' = t + x
    BY <1>1, <1>2 DEF At, Bits, t, N
  <2>2. /\ Same(At(x), Place(a, b), p) <=> Same(x, o, p)
        /\ Same(At(x)', Place(a, b)', p) <=> Same(x, o, p)
    <3>1. (t + x) - x = (o + t) - o /\ t + x \in Nat /\ o + t \in Nat
      BY <1>2, <2>1
    <3>2. Same(t + x, o + t, p) <=> Same(x, o, p)
      BY <1>2, <2>1, <3>1, SameShift
    <3> QED BY <1>9, <1>10, <2>1, <3>2 DEF Same
  <2>3. x < o + p /\ Same(x, o, p) <=> (x < o /\ Same(x, o, p)) \/ x = o
    <3>1. o < x /\ Same(x, o, p) => o + p <= x
      <4>1. Same(x, o, p) => Same(o, x, p)
        BY DEF Same
      <4> QED BY <1>2, <2>1, <4>1, SameGap
    <3>2. Same(o, o, p)
      BY DEF Same
    <3> QED BY <1>2, <2>1, <3>1, <3>2
  <2>4. Reached(x) <=> \/ \E h \in 1..6 : h < b /\ Same(At(x), Place(a, h), p)
                       \/ x < o /\ Same(x, o, p)
    BY <1>1, <1>2, <2>2 DEF Reached, o, p
  <2>5. Reached(x)' <=> \/ \E h \in 1..6 : h < b /\ Same(At(x)', Place(a, h)', p)
                        \/ x < o + p /\ Same(x, o, p)
    BY <1>1, <1>2, <1>3, <2>2 DEF Reached, p
  <2>6. \A h \in 1..6 : h < b => Place(a, h)' = Place(a, h)
    BY <1>2, <1>8
  <2> QED BY <2>1, <2>3, <2>4, <2>5, <2>6
<1>14. MarksInv'
  <2>1. ASSUME NEW x \in Bits
        PROVE  x \in Lit' <=>
            \/ Dense(x)'
            \/ x # 0 /\ \E k \in Indexes : n_dense < k /\ k < i /\ Struck(x, k)'
            \/ x # 0 /\ Reached(x)'
    <3>1. \A k : Struck(x, k)' <=> Struck(x, k)
      BY <1>1, <1>5 DEF Struck, At
    <3>2. x \in Lit <=>
            \/ Dense(x)
            \/ x # 0 /\ \E k \in Indexes : n_dense < k /\ k < i /\ Struck(x, k)
            \/ x # 0 /\ Reached(x)
      BY <1>1 DEF MarksInv
    <3>3. Dense(x)' <=> Dense(x)
      BY <3>1 DEF Dense
    <3> QED BY <1>4, <1>13, <3>1, <3>2, <3>3
  <2>2. n_dense < i /\ i <= n_stored + 1
    BY <1>1 DEF MarksInv
  <2> QED BY <1>1, <2>1, <2>2 DEF MarksInv
<1> QED BY <1>1, <1>4, <1>6, <1>12, <1>14 DEF SieveInv

LEMMA NextSparseKeeps ==
  ASSUME SieveInv, NextSparse
  PROVE  SieveInv'
<1>0. PICK a \in 1..n_stored, b \in 1..6 : a = i /\ b = f
  <2>1. i \in 1..n_stored /\ f \in 1..6
    BY Stored DEF SieveInv, SieveType, NextSparse
  <2> QED BY <2>1
<1> DEFINE o == offsets[a][b]
           N == riecoin_sieveSize
           t == loop * N
           p == P(a)
           rest == o - N
<1>1. /\ SieveType /\ ModInv /\ OffsetsInv /\ MarksInv /\ o >= N /\ a = i /\ b = f
      /\ pc = "sparse" /\ pc' = "sparse"
      /\ f' = (f % 6) + 1 /\ i' = (IF f = 6 THEN i + 1 ELSE i)
      /\ Replaces(offsets', offsets, a, b, rest)
      /\ target' = target /\ remainder' = remainder
      /\ offset_stack' = offset_stack /\ segment_hits' = segment_hits
      /\ loop' = loop /\ sieve' = sieve /\ pending' = pending /\ pending_pos' = pending_pos
  BY <1>0 DEF SieveInv, NextSparse, Replaces, ring
<1>2. /\ o \in Nat /\ p \in Nat \ {0} /\ N \in Nat \ {0} /\ t \in Nat /\ offsets \in Tables
      /\ rest \in Nat /\ loop \in Nat
  <2>1. N \in Nat \ {0} /\ p \in Nat \ {0}
    BY Stored
  <2>2. offsets \in Tables /\ loop \in Nat
    BY <1>1 DEF SieveType, Tables
  <2>3. o \in Nat /\ t \in Nat
    BY <2>1, <2>2 DEF Tables
  <2>4. rest \in Nat
    BY <1>1, <2>1, <2>3
  <2> QED BY <2>1, <2>2, <2>3, <2>4
<1>3. /\ offsets' \in Tables /\ offsets'[a][b] = rest
      /\ \A k \in 1..n_stored, h \in 1..6 :
           ~(k = a /\ h = b) => offsets'[k][h] = offsets[k][h]
  <2> HIDE DEF rest
  <2> QED BY <1>1, <1>2, Replaced
<1>4. /\ i \in Nat /\ f \in Nat
      /\ b < 6 => f' = b + 1 /\ i' = a
      /\ b = 6 => f' = 1 /\ i' = a + 1
      /\ f' \in 1..6 /\ i' \in Nat \ {0}
  BY <1>1
<1> HIDE DEF N, t, p
<1>5. SieveType'
  BY <1>1, <1>3, <1>4 DEF SieveType, Tables
<1>6. \A k, g : Root(k, g)' = Root(k, g)
  BY <1>1, TargetKept
<1>7. ModInv'
  BY <1>1, ModKept
<1>8. ASSUME NEW k \in 1..n_stored, NEW h \in 1..6
      PROVE  /\ Passed(k, h) <=> k < a \/ (k = a /\ h < b)
             /\ Passed(k, h)' <=> k < a \/ (k = a /\ h <= b)
  <2>1. Passed(k, h) <=> k < a \/ (k = a /\ h < b)
    BY <1>1 DEF Passed
  <2>2. Passed(k, h)' <=> k < i' \/ (k = i' /\ h < f')
    BY <1>1 DEF Passed
  <2>3. CASE b < 6
    BY <1>4, <2>1, <2>2, <2>3
  <2>4. CASE b = 6
    <3>1. k < a + 1 \/ (k = a + 1 /\ h < 1) <=> k < a \/ k = a
      BY Stored
    <3> QED BY <1>4, <2>1, <2>2, <2>4, <3>1
  <2> QED BY <2>3, <2>4
<1>9. Place(a, b)' = Place(a, b) /\ Place(a, b) = o + t
  <2>1. (loop + 0) * N = t /\ (loop + 1) * N = t + N
    BY <1>2 DEF t
  <2>2. Place(a, b) = o + (loop + 0) * N
    BY <1>2, <1>8 DEF Place, N
  <2>3. Place(a, b)' = rest + (loop + 1) * N
    BY <1>1, <1>2, <1>3, <1>8 DEF Place, N
  <2> QED BY <1>2, <2>1, <2>2, <2>3
<1>10. \A k \in 1..n_stored, h \in 1..6 : Place(k, h)' = Place(k, h)
  <2> SUFFICES ASSUME NEW k \in 1..n_stored, NEW h \in 1..6, ~(k = a /\ h = b)
               PROVE  Place(k, h)' = Place(k, h)
    BY <1>9
  <2>1. Passed(k, h)' <=> Passed(k, h)
    BY <1>8
  <2>2. offsets'[k][h] = offsets[k][h]
    BY <1>3
  <2> QED BY <1>1, <2>1, <2>2 DEF Place
<1>11. ASSUME NEW k \in 1..n_stored, NEW h \in 1..6 PROVE offsets'[k][h] < P(k)
  <2>1. CASE k = a /\ h = b
    <3>1. o < p + N
      BY <1>1 DEF OffsetsInv, N, p
    <3>2. rest < p
      BY <1>2, <3>1
    <3> HIDE DEF rest
    <3> QED BY <1>3, <2>1, <3>2 DEF p
  <2>2. CASE ~(k = a /\ h = b)
    <3>1. offsets[k][h] < P(k) + 0 /\ P(k) \in Nat
      BY <1>1, <2>2, Stored DEF OffsetsInv
    <3>2. offsets[k][h] \in Nat
      BY <1>2 DEF Tables
    <3> QED BY <1>3, <2>2, <3>1, <3>2
  <2> QED BY <2>1, <2>2
<1>12. OffsetsInv'
  <2>1. ASSUME NEW k \in 1..n_stored, NEW h \in 1..6
        PROVE  offsets'[k][h] < P(k) + (IF pc' = "sparse" /\ k = i' /\ h = f'
                                        THEN riecoin_sieveSize ELSE 0)
    <3>1. offsets'[k][h] < P(k) /\ offsets'[k][h] \in Nat /\ P(k) \in Nat
          /\ riecoin_sieveSize \in Nat
      BY <1>3, <1>11, Stored DEF Tables
    <3> QED BY <3>1
  <2>2. \A k \in 1..n_stored :
          /\ \A h \in 1..6 : \E g \in 1..6 : Same(Place(k, h)', Root(k, g)', P(k))
          /\ \A g \in 1..6 : \E h \in 1..6 : Same(Place(k, h)', Root(k, g)', P(k))
    BY <1>1, <1>10, PlacesKept DEF Same
  <2> QED BY <2>1, <2>2 DEF OffsetsInv
<1>13. ASSUME NEW x \in Bits
       PROVE  Reached(x) <=> \E h \in 1..6 : h <= b /\ Same(At(x), Place(a, h), p)
  <2>1. x < o
    BY <1>1, <1>2 DEF Bits, N
  <2> QED BY <1>1, <2>1 DEF Reached, o, p
<1>14. ASSUME NEW x \in Bits, NEW k \in 1..n_stored, NEW h \in 1..6,
              ~Passed(k, h)', x < offsets'[k][h]
       PROVE  ~Same(At(x)', Place(k, h)', P(k))
  <2> DEFINE u == offsets'[k][h]
  <2>1. u \in Nat /\ u < P(k) /\ P(k) \in Nat \ {0} /\ x \in Nat
    <3>1. u \in Nat
      BY <1>3 DEF Tables
    <3>2. u < P(k) /\ P(k) \in Nat \ {0}
      BY <1>11, Stored
    <3>3. x \in Nat
      BY DEF Bits
    <3> QED BY <3>1, <3>2, <3>3
  <2>2. At(x)' = t + x
    BY <1>1 DEF At, t, N
  <2>3. Place(k, h)' = u + (loop + 0) * N /\ (loop + 0) * N = t
    BY <1>1, <1>2, <1>14 DEF Place, N, t
  <2> HIDE DEF u
  <2>4. ~Same(t + x, u + t, P(k))
    BY <1>2, <1>14, <2>1, NotYet DEF u
  <2> QED BY <2>2, <2>3, <2>4
<1>15. ASSUME NEW x \in Bits
       PROVE  /\ b < 6 => (Reached(x)' <=> Reached(x))
              /\ b = 6 => ~Reached(x)' /\ (Reached(x) <=> Struck(x, a))
  <2>1. At(x)' = At(x)
    BY <1>1 DEF At
  <2>2. ASSUME b < 6 PROVE Reached(x)' <=> Reached(x)
    <3>1. f' = b + 1 /\ i' = a
      BY <1>4, <2>2
    <3>2. Reached(x)' <=> \E h \in 1..6 :
             /\ h < b + 1 \/ (h = b + 1 /\ x < offsets'[a][h])
             /\ Same(At(x)', Place(a, h)', p)
      BY <3>1 DEF Reached, p
    <3>3. \A h \in 1..6 : h < b + 1 <=> h <= b
      OBVIOUS
    <3>4. \A h \in 1..6 : h = b + 1 /\ x < offsets'[a][h] => ~Same(At(x)', Place(a, h)', p)
      <4> SUFFICES ASSUME NEW h \in 1..6, h = b + 1, x < offsets'[a][h]
                   PROVE  ~Same(At(x)', Place(a, h)', p)
        OBVIOUS
      <4>1. ~Passed(a, h)'
        BY <1>8
      <4> QED BY <1>14, <4>1 DEF p
    <3>5. \A h \in 1..6 : Same(At(x)', Place(a, h)', p) <=> Same(At(x), Place(a, h), p)
      BY <1>10, <2>1
    <3> QED BY <1>13, <3>2, <3>3, <3>4, <3>5
  <2>3. ASSUME b = 6 PROVE ~Reached(x)'
    <3> SUFFICES ASSUME NEW k \in 1..n_stored, NEW h \in 1..6, k = a + 1,
                        h < 1 \/ (h = 1 /\ x < offsets'[k][h]),
                        Same(At(x)', Place(k, h)', P(k))
                 PROVE  FALSE
      BY <1>4, <2>3 DEF Reached
    <3>1. ~Passed(k, h)' /\ x < offsets'[k][h]
      BY <1>8
    <3> QED BY <1>14, <3>1
  <2>4. ASSUME b = 6 PROVE Reached(x) <=> Struck(x, a)
    <3>1. Reached(x) <=> \E h \in 1..6 : Same(At(x), Place(a, h), p)
      BY <1>13, <2>4
    <3>2. /\ \A h \in 1..6 : \E g \in 1..6 : Same(Place(a, h), Root(a, g), p)
          /\ \A g \in 1..6 : \E h \in 1..6 : Same(Place(a, h), Root(a, g), p)
      BY <1>1 DEF OffsetsInv, p
    <3> QED BY <3>1, <3>2 DEF Struck, Same, p
  <2> QED BY <2>2, <2>3, <2>4
<1>16. MarksInv'
  <2>1. n_dense < a /\ a <= n_stored /\ n_dense \in Nat /\ n_stored \in Nat
    BY <1>1, Stored DEF MarksInv
  <2>2. ASSUME NEW x \in Bits
        PROVE  x \in Lit' <=>
            \/ Dense(x)'
            \/ x # 0 /\ \E k \in Indexes : n_dense < k /\ k < i' /\ Struck(x, k)'
            \/ x # 0 /\ Reached(x)'
    <3>1. \A k : Struck(x, k)' <=> Struck(x, k)
      BY <1>1, <1>6 DEF Struck, At
    <3>2. x \in Lit <=>
            \/ Dense(x)
            \/ x # 0 /\ \E k \in Indexes : n_dense < k /\ k < a /\ Struck(x, k)
            \/ x # 0 /\ Reached(x)
      BY <1>1 DEF MarksInv
    <3>3. (Dense(x)' <=> Dense(x)) /\ Lit' = Lit
      BY <1>1, <3>1 DEF Dense, Lit
    <3>4. CASE b < 6
      BY <1>4, <1>15, <3>1, <3>2, <3>3, <3>4
    <3>5. CASE b = 6
      <4>1. a \in Indexes /\ \A k \in Indexes : k < a + 1 <=> k < a \/ k = a
        BY Stored, Primes
      <4>2. (\E k \in Indexes : n_dense < k /\ k < a + 1 /\ Struck(x, k))
              <=> (\E k \in Indexes : n_dense < k /\ k < a /\ Struck(x, k)) \/ Struck(x, a)
        BY <2>1, <4>1
      <4> QED BY <1>4, <1>15, <3>1, <3>2, <3>3, <3>5, <4>2
    <3> QED BY <3>4, <3>5
  <2>3. n_dense < i' /\ i' <= n_stored + 1
    BY <1>4, <2>1
  <2> QED BY <1>1, <2>2, <2>3 DEF MarksInv
<1> QED BY <1>1, <1>5, <1>7, <1>12, <1>16 DEF SieveInv

LEMMA EndSparseKeeps ==
  ASSUME SieveInv, EndSparse
  PROVE  SieveInv'
<1>1. /\ SieveType /\ ModInv /\ OffsetsInv /\ MarksInv /\ i > n_stored
      /\ pc = "sparse" /\ pc' = "hits" /\ f' = f /\ i' = 1 /\ FlushPending
      /\ pending' = NoPending /\ pending_pos' = 0
      /\ target' = target /\ remainder' = remainder /\ offsets' = offsets
      /\ offset_stack' = offset_stack /\ segment_hits' = segment_hits
      /\ loop' = loop
  BY DEF SieveInv, EndSparse
<1>2. Lit \subseteq Bits /\ sieve' = Lit
  BY <1>1, Flushed DEF Lit, SieveType
<1>3. SieveType'
  BY <1>1, <1>2, NoPendingType DEF SieveType
<1>4. \A k, g : Root(k, g)' = Root(k, g)
  BY <1>1, TargetKept
<1>5. ModInv'
  BY <1>1, ModKept
<1>6. i \in Nat /\ n_stored \in Nat /\ n_dense \in Nat
  BY <1>1, Stored DEF SieveType
<1>7. \A k \in 1..n_stored, h \in 1..6 : Place(k, h)' = Place(k, h)
  <2>1. \A k \in 1..n_stored, h \in 1..6 : Passed(k, h) /\ Passed(k, h)'
    BY <1>1, <1>6 DEF Passed
  <2> QED BY <1>1, <2>1 DEF Place
<1>8. OffsetsInv'
  <2>1. ASSUME NEW k \in 1..n_stored, NEW h \in 1..6 PROVE offsets'[k][h] < P(k) + 0
    <3>1. ~(k = i)
      BY <1>1, <1>6
    <3> QED BY <1>1, <3>1 DEF OffsetsInv
  <2>2. \A k \in 1..n_stored :
          /\ \A h \in 1..6 : \E g \in 1..6 : Same(Place(k, h)', Root(k, g)', P(k))
          /\ \A g \in 1..6 : \E h \in 1..6 : Same(Place(k, h)', Root(k, g)', P(k))
    BY <1>1, <1>7, PlacesKept DEF Same
  <2> QED BY <1>1, <2>1, <2>2 DEF OffsetsInv
<1>9. MarksInv'
  <2>1. ASSUME NEW x \in Bits
        PROVE  x \in Lit' <=>
            \/ Dense(x)'
            \/ x # 0 /\ \E k \in Indexes : n_dense < k /\ k <= n_stored /\ Struck(x, k)'
    <3>1. \A k : Struck(x, k)' <=> Struck(x, k)
      BY <1>1, <1>4 DEF Struck, At
    <3>2. x \in Lit <=>
            \/ Dense(x)
            \/ x # 0 /\ \E k \in Indexes : n_dense < k /\ k < i /\ Struck(x, k)
            \/ x # 0 /\ Reached(x)
      BY <1>1 DEF MarksInv
    <3>3. Dense(x)' <=> Dense(x)
      BY <3>1 DEF Dense
    <3>4. ~Reached(x)
      BY <1>1, <1>6 DEF Reached
    <3>5. i = n_stored + 1 /\ \A k \in Indexes : k < n_stored + 1 <=> k <= n_stored
      <4>1. i = n_stored + 1
        BY <1>1, <1>6 DEF MarksInv
      <4>2. \A k \in Indexes : k \in Nat
        BY Primes
      <4> QED BY <1>6, <4>1, <4>2
    <3>6. Lit' = Lit
      BY <1>1, <1>2 DEF Lit, NoPending
    <3> QED BY <3>1, <3>2, <3>3, <3>4, <3>5, <3>6
  <2>2. ~\E j \in DOMAIN segment_hits'[loop'] : j < i'
    BY <1>1, <1>3 DEF SieveType, Buckets
  <2> QED BY <1>1, <2>1, <2>2 DEF MarksInv
<1> QED BY <1>1, <1>3, <1>5, <1>8, <1>9 DEF SieveInv

LEMMA MarkHitKeeps ==
  ASSUME SieveInv, MarkHit
  PROVE  SieveInv'
<1>0. PICK a \in Nat \ {0} : a = i
  BY DEF SieveInv, SieveType
<1> DEFINE hits == segment_hits[loop]
           ent == hits[a]
<1>1. /\ SieveType /\ ModInv /\ OffsetsInv /\ MarksInv /\ a = i /\ a <= Len(hits)
      /\ pc = "hits" /\ pc' = "hits" /\ f' = f /\ i' = a + 1
      /\ add_to_pending(ent)
      /\ target' = target /\ remainder' = remainder /\ offsets' = offsets
      /\ offset_stack' = offset_stack /\ segment_hits' = segment_hits
      /\ loop' = loop
  BY <1>0 DEF SieveInv, MarkHit
<1>2. hits \in Seq(Bits)
  BY <1>1 DEF SieveType, Buckets, Bits
<1> HIDE DEF hits
<1>3. ent \in Bits /\ DOMAIN hits = 1..Len(hits) /\ Len(hits) \in Nat /\ a \in DOMAIN hits
  BY <1>1, <1>2
<1> HIDE DEF ent
<1>4. SieveType' /\ \A x : x \in Lit' <=> x \in Lit \/ (x = ent /\ x # 0)
  <2>1. /\ sieve' \subseteq Bits /\ pending' \in [0..(PENDING_SIZE - 1) -> Bits]
        /\ pending_pos' \in 0..(PENDING_SIZE - 1)
        /\ \A x : x \in Lit' <=> x \in Lit \/ (x = ent /\ x # 0)
    BY <1>1, <1>3, AddPending
  <2>2. i' \in Nat \ {0}
    BY <1>1
  <2> QED BY <1>1, <2>1, <2>2 DEF SieveType
<1>5. \A k, g : Root(k, g)' = Root(k, g)
  BY <1>1, TargetKept
<1>6. ModInv'
  BY <1>1, ModKept
<1>7. \A k \in 1..n_stored, h \in 1..6 : Place(k, h)' = Place(k, h)
  <2>1. \A k \in 1..n_stored, h \in 1..6 : Passed(k, h) /\ Passed(k, h)'
    BY <1>1 DEF Passed
  <2> QED BY <1>1, <2>1 DEF Place
<1>8. OffsetsInv'
  <2>1. ASSUME NEW k \in 1..n_stored, NEW h \in 1..6 PROVE offsets'[k][h] < P(k) + 0
    BY <1>1 DEF OffsetsInv
  <2>2. \A k \in 1..n_stored :
          /\ \A h \in 1..6 : \E g \in 1..6 : Same(Place(k, h)', Root(k, g)', P(k))
          /\ \A g \in 1..6 : \E h \in 1..6 : Same(Place(k, h)', Root(k, g)', P(k))
    BY <1>1, <1>7, PlacesKept DEF Same
  <2> QED BY <1>1, <2>1, <2>2 DEF OffsetsInv
<1>9. MarksInv'
  <2>1. ASSUME NEW x \in Bits
        PROVE  x \in Lit' <=>
            \/ Dense(x)'
            \/ x # 0 /\ \E k \in Indexes : n_dense < k /\ k <= n_stored /\ Struck(x, k)'
            \/ x # 0 /\ \E j \in DOMAIN hits : j < a + 1 /\ hits[j] = x
    <3>1. \A k : Struck(x, k)' <=> Struck(x, k)
      BY <1>1, <1>5 DEF Struck, At
    <3>2. x \in Lit <=>
            \/ Dense(x)
            \/ x # 0 /\ \E k \in Indexes : n_dense < k /\ k <= n_stored /\ Struck(x, k)
            \/ x # 0 /\ \E j \in DOMAIN hits : j < a /\ hits[j] = x
      BY <1>1 DEF MarksInv, hits
    <3>3. Dense(x)' <=> Dense(x)
      BY <3>1 DEF Dense
    <3>4. (\E j \in DOMAIN hits : j < a + 1 /\ hits[j] = x)
            <=> (\E j \in DOMAIN hits : j < a /\ hits[j] = x) \/ x = ent
      <4>1. \A j \in DOMAIN hits : j < a + 1 <=> j < a \/ j = a
        BY <1>3
      <4> QED BY <1>3, <4>1 DEF ent
    <3> QED BY <1>4, <3>1, <3>2, <3>3, <3>4
  <2> QED BY <1>1, <2>1 DEF MarksInv, hits
<1> QED BY <1>1, <1>4, <1>6, <1>8, <1>9 DEF SieveInv

(* A bit of a pass is an index of that pass's bucket. *)
LEMMA Passes ==
  ASSUME NEW l \in 0..(maxiter - 1), NEW x \in Bits
  PROVE  /\ l * riecoin_sieveSize + x \in 0..(max_increments - 1)
         /\ Segment(l * riecoin_sieveSize + x) = l /\ Entry(l * riecoin_sieveSize + x) = x
<1> DEFINE N == riecoin_sieveSize
           y == l * N + x
<1>1. /\ N \in Nat \ {0} /\ maxiter \in Nat \ {0} /\ l \in Nat /\ l <= maxiter - 1
      /\ max_increments = maxiter * N /\ x \in 0..(N - 1)
  BY Sizes DEF Bits
<1> HIDE DEF N
<1>2. (maxiter - 1) * N = maxiter * N - N
  BY <1>1
<1>3. l * N <= (maxiter - 1) * N
  BY <1>1
<1>4. l * N \in Nat /\ maxiter * N \in Nat
  BY <1>1
<1>5. y \in 0..(max_increments - 1)
  BY <1>1, <1>2, <1>3, <1>4
<1>6. y \div N = l
  <2> DEFINE q == y \div N
             r == y % N
  <2>1. y \in Nat
    BY <1>1, <1>4
  <2>2. q \in Nat /\ r \in 0..(N - 1) /\ y = N * q + r
    <3> HIDE DEF y
    <3> QED BY <1>1, <2>1, Division
  <2> HIDE DEF q, r
  <2>3. l * N + x = N * q + r
    BY <2>2
  <2>4. ~(q < l)
    <3> SUFFICES ASSUME q < l PROVE FALSE
      OBVIOUS
    <3>1. N * q + N = N * (q + 1) /\ N * (q + 1) <= N * l /\ N * l = l * N
      BY <1>1, <2>2
    <3>2. N * q \in Nat
      BY <1>1, <2>2
    <3> QED BY <1>1, <1>4, <2>2, <2>3, <3>1, <3>2
  <2>5. ~(q > l)
    <3> SUFFICES ASSUME q > l PROVE FALSE
      OBVIOUS
    <3>1. l * N + N = N * (l + 1) /\ N * (l + 1) <= N * q
      BY <1>1, <2>2
    <3>2. N * q \in Nat
      BY <1>1, <2>2
    <3> QED BY <1>1, <1>4, <2>2, <2>3, <3>1, <3>2
  <2>6. q = l
    BY <1>1, <2>2, <2>4, <2>5
  <2> QED BY <2>6 DEF q
<1>7. Segment(y) = l
  BY <1>6 DEF Segment, N
<1>8. Entry(y) = y - N * l
  BY <1>7 DEF Entry, N
<1>9. y - N * l = x
  <2>1. N * l = l * N
    BY <1>1
  <2> QED BY <1>1, <1>4, <2>1
<1> HIDE DEF y
<1>10. Entry(y) = x
  BY <1>8, <1>9
<1> QED BY <1>5, <1>7, <1>10 DEF y, N

LEMMA EndHitsKeeps ==
  ASSUME SieveInv, EndHits
  PROVE  SieveInv'
<1> DEFINE hits == segment_hits[loop]
<1>1. /\ SieveType /\ ModInv /\ OffsetsInv /\ MarksInv /\ i > Len(hits)
      /\ pc = "hits" /\ pc' = "scan" /\ f' = f /\ i' = i /\ FlushPending
      /\ pending' = pending /\ pending_pos' = pending_pos
      /\ target' = target /\ remainder' = remainder /\ offsets' = offsets
      /\ offset_stack' = offset_stack /\ segment_hits' = segment_hits
      /\ loop' = loop
  BY DEF SieveInv, EndHits, ring
<1>2. Lit \subseteq Bits /\ sieve' = Lit
  BY <1>1, Flushed DEF Lit, SieveType
<1>3. SieveType'
  BY <1>1, <1>2 DEF SieveType
<1>4. \A k, g : Root(k, g)' = Root(k, g)
  BY <1>1, TargetKept
<1>5. ModInv'
  BY <1>1, ModKept
<1>6. \A k \in 1..n_stored, h \in 1..6 : Place(k, h)' = Place(k, h)
  <2>1. \A k \in 1..n_stored, h \in 1..6 : Passed(k, h) /\ Passed(k, h)'
    BY <1>1 DEF Passed
  <2> QED BY <1>1, <2>1 DEF Place
<1>7. OffsetsInv'
  <2>1. ASSUME NEW k \in 1..n_stored, NEW h \in 1..6 PROVE offsets'[k][h] < P(k) + 0
    BY <1>1 DEF OffsetsInv
  <2>2. \A k \in 1..n_stored :
          /\ \A h \in 1..6 : \E g \in 1..6 : Same(Place(k, h)', Root(k, g)', P(k))
          /\ \A g \in 1..6 : \E h \in 1..6 : Same(Place(k, h)', Root(k, g)', P(k))
    BY <1>1, <1>6, PlacesKept DEF Same
  <2> QED BY <1>1, <2>1, <2>2 DEF OffsetsInv
<1>8. DOMAIN hits = 1..Len(hits) /\ Len(hits) \in Nat /\ i \in Nat /\ loop \in 0..(maxiter - 1)
  <2>1. hits \in Seq(Bits)
    BY <1>1 DEF SieveType, Buckets, Bits
  <2> HIDE DEF hits
  <2>2. DOMAIN hits = 1..Len(hits) /\ Len(hits) \in Nat
    BY <2>1
  <2> QED BY <1>1, <2>2 DEF SieveType
<1>9. ASSUME NEW x \in Bits
      PROVE  (\E j \in DOMAIN hits : hits[j] = x)
               <=> \E k \in Indexes : k > n_stored /\ Struck(x, k)
  <2> DEFINE y == At(x)
  <2>1. y \in 0..(max_increments - 1) /\ Segment(y) = loop /\ Entry(y) = x
    BY <1>8, Passes DEF At
  <2> HIDE DEF y
  <2>2. (\E j \in DOMAIN hits : hits[j] = x) <=> y \in Recorded(segment_hits)
    BY <2>1 DEF Recorded
  <2>3. y \in Waiting <=> y \in Recorded(segment_hits)
    <3>1. offset_stack = <<>>
      BY <1>1 DEF ModInv
    <3> QED BY <3>1 DEF Waiting
  <2>4. y \in Waiting <=>
          \E k \in Indexes, g \in 1..6 : k > n_stored /\ Found(k, g) /\ y = Root(k, g)
    BY <1>1, <2>1 DEF ModInv
  <2>5. \A k \in Indexes, g \in 1..6 : Found(k, g)
    BY <1>1 DEF Found
  <2>6. ASSUME NEW k \in Indexes, NEW g \in 1..6, k > n_stored
        PROVE  y = Root(k, g) <=> Same(y, Root(k, g), P(k))
    <3>1. Root(k, g) \in 0..(P(k) - 1) /\ P(k) \in Nat \ {0}
      BY <1>1, Roots, Primes DEF SieveType
    <3>2. ~(k <= n_stored)
      BY <2>6, Stored, Primes
    <3>3. P(k) >= max_increments
      BY <3>1, <3>2, Counts, Sizes
    <3>4. y \in 0..(P(k) - 1)
      BY <2>1, <3>1, <3>3, Sizes
    <3>5. Same(y, y, P(k))
      BY DEF Same
    <3> HIDE DEF Root
    <3> QED BY <3>1, <3>4, <3>5, SameSmall
  <2> QED BY <2>2, <2>3, <2>4, <2>5, <2>6 DEF Struck, y
<1>10. MarksInv'
  <2>1. ASSUME NEW x \in Bits
        PROVE  x \in sieve' <=>
            \/ Dense(x)'
            \/ x # 0 /\ \E k \in Indexes : n_dense < k /\ Struck(x, k)'
    <3>1. \A k : Struck(x, k)' <=> Struck(x, k)
      BY <1>1, <1>4 DEF Struck, At
    <3>2. x \in Lit <=>
            \/ Dense(x)
            \/ x # 0 /\ \E k \in Indexes : n_dense < k /\ k <= n_stored /\ Struck(x, k)
            \/ x # 0 /\ \E j \in DOMAIN hits : j < i /\ hits[j] = x
      BY <1>1 DEF MarksInv
    <3>3. Dense(x)' <=> Dense(x)
      BY <3>1 DEF Dense
    <3>4. \A j \in DOMAIN hits : j < i
      BY <1>1, <1>8
    <3>5. \A k \in Indexes : n_dense < k <=> (n_dense < k /\ k <= n_stored) \/ k > n_stored
      BY Counts, Primes
    <3> QED BY <1>2, <1>9, <3>1, <3>2, <3>3, <3>4, <3>5
  <2> QED BY <1>1, <2>1 DEF MarksInv
<1> QED BY <1>1, <1>3, <1>5, <1>7, <1>10 DEF SieveInv

LEMMA NextPassKeeps ==
  ASSUME SieveInv, NextPass
  PROVE  SieveInv'
<1>1. /\ SieveType /\ ModInv /\ OffsetsInv /\ loop + 1 < maxiter
      /\ pc = "scan" /\ pc' = "dense" /\ f' = f /\ i' = 1 /\ sieve' = {}
      /\ pending' = pending /\ pending_pos' = pending_pos
      /\ target' = target /\ remainder' = remainder /\ offsets' = offsets
      /\ offset_stack' = offset_stack /\ segment_hits' = segment_hits
      /\ loop' = loop + 1
  BY DEF SieveInv, NextPass, ring
<1>2. loop \in Nat /\ loop' \in 0..(maxiter - 1)
  BY <1>1, Sizes DEF SieveType
<1>3. SieveType'
  BY <1>1, <1>2 DEF SieveType
<1>4. \A k, g : Root(k, g)' = Root(k, g)
  BY <1>1, TargetKept
<1>5. ModInv'
  BY <1>1, ModKept
<1>6. \A k \in 1..n_stored, h \in 1..6 : Place(k, h)' = Place(k, h)
  <2> SUFFICES ASSUME NEW k \in 1..n_stored, NEW h \in 1..6
               PROVE  Place(k, h)' = Place(k, h)
    OBVIOUS
  <2>1. Passed(k, h) /\ ~Passed(k, h)'
    BY <1>1, Stored DEF Passed
  <2>2. Place(k, h) = offsets[k][h] + (loop + 1) * riecoin_sieveSize
    BY <2>1 DEF Place
  <2>3. Place(k, h)' = offsets[k][h] + ((loop + 1) + 0) * riecoin_sieveSize
    BY <1>1, <2>1 DEF Place
  <2>4. (loop + 1) + 0 = loop + 1
    BY <1>2
  <2> QED BY <2>2, <2>3, <2>4
<1>7. OffsetsInv'
  <2>1. ASSUME NEW k \in 1..n_stored, NEW h \in 1..6 PROVE offsets'[k][h] < P(k) + 0
    BY <1>1 DEF OffsetsInv
  <2>2. \A k \in 1..n_stored :
          /\ \A h \in 1..6 : \E g \in 1..6 : Same(Place(k, h)', Root(k, g)', P(k))
          /\ \A g \in 1..6 : \E h \in 1..6 : Same(Place(k, h)', Root(k, g)', P(k))
    BY <1>1, <1>6, PlacesKept DEF Same
  <2> QED BY <1>1, <2>1, <2>2 DEF OffsetsInv
<1>8. MarksInv'
  BY <1>1, Stored DEF MarksInv
<1> QED BY <1>1, <1>3, <1>5, <1>7, <1>8 DEF SieveInv

LEMMA NextHeaderKeeps ==
  ASSUME SieveInv, NextHeader
  PROVE  SieveInv'
<1>1. /\ SieveType /\ ModInv /\ pc = "scan" /\ pc' = "mod" /\ f' = 1 /\ i' = 1 /\ loop' = 0
      /\ pending' = pending /\ pending_pos' = pending_pos /\ sieve' = sieve
      /\ target' \in Targets /\ remainder' = remainder /\ offsets' = offsets
      /\ offset_stack' = offset_stack
      /\ segment_hits' = [s \in DOMAIN segment_hits |-> <<>>]
      /\ offset_stack = <<>>
  BY DEF SieveInv, NextHeader, ModInv, ring
<1>2. segment_hits' = [s \in 0..(maxiter - 1) |-> <<>>]
  BY <1>1 DEF SieveType, Buckets
<1>3. SieveType'
  <2>1. segment_hits' \in Buckets
        /\ \A s \in 0..(maxiter - 1) : Len(segment_hits'[s]) <= num_entries_per_segment
    BY <1>2, Sizes DEF Buckets
  <2>2. loop' \in 0..(maxiter - 1)
    BY <1>1, Sizes
  <2>3. /\ offset_stack' \in Seq(0..(max_increments - 1))
        /\ Len(offset_stack') <= OFFSET_STACK_SIZE
    BY <1>1 DEF SieveType
  <2>4. /\ pc' = "mod" /\ target' \in Targets /\ i' = 1 /\ f' = 1 /\ remainder' \in Nat
        /\ offsets' \in [1..n_stored -> [1..6 -> Nat]] /\ sieve' \subseteq Bits
        /\ pending' \in [0..(PENDING_SIZE - 1) -> Bits]
        /\ pending_pos' \in 0..(PENDING_SIZE - 1)
    BY <1>1 DEF SieveType
  <2> QED BY <2>1, <2>2, <2>3, <2>4 DEF SieveType
<1>4. \A k \in Indexes, g \in 1..6 : ~Found(k, g)'
  BY <1>1, Primes DEF Found
<1>5. ASSUME NEW y \in 0..(max_increments - 1) PROVE y \notin Waiting'
  <2>1. Segment(y) \in 0..(maxiter - 1)
    BY Segments
  <2>2. segment_hits'[Segment(y)] = <<>>
    BY <1>2, <2>1
  <2>3. y \notin Recorded(segment_hits')
    BY <2>2 DEF Recorded
  <2> QED BY <1>1, <2>3 DEF Waiting
<1>6. ModInv'
  <2>1. \A k \in 1..n_stored, g \in 1..6 : ~Found(k, g)'
    BY <1>4, Stored
  <2> QED BY <1>1, <1>4, <1>5, <2>1, Primes DEF ModInv
<1> QED BY <1>1, <1>3, <1>6 DEF SieveInv

LEMMA BucketOverflowKeeps ==
  ASSUME SieveInv, BucketOverflow
  PROVE  SieveInv'
BY DEF SieveInv, SieveType, BucketOverflow, ring

LEMMA PutOffsetsKeeps ==
  ASSUME SieveInv, PutOffsets
  PROVE  SieveInv'
<1>1. /\ SieveType /\ ModInv /\ pc = "mod" /\ pc' = "mod" /\ f' = f /\ i' = i /\ loop' = loop
      /\ pending' = pending /\ pending_pos' = pending_pos /\ sieve' = sieve
      /\ target' = target /\ remainder' = remainder /\ offsets' = offsets
      /\ offset_stack' = <<>> /\ segment_hits' = NewHits /\ ~Overflows
  BY DEF SieveInv, PutOffsets, ring
<1>2. /\ NewHits \in Buckets
      /\ Recorded(NewHits)
           = Recorded(segment_hits) \cup {offset_stack[j] : j \in DOMAIN offset_stack}
  BY <1>1, BucketsKept DEF SieveType
<1>3. SieveType'
  <2>1. DOMAIN NewHits = 0..(maxiter - 1)
    BY <1>2 DEF Buckets
  <2>2. ASSUME NEW s \in 0..(maxiter - 1) PROVE Len(NewHits[s]) <= num_entries_per_segment
    <3>1. ~(Len(NewHits[s]) > num_entries_per_segment)
      BY <1>1, <2>1 DEF Overflows
    <3>2. Len(NewHits[s]) \in Nat
      BY <1>2 DEF Buckets
    <3> QED BY <3>1, <3>2, Sizes
  <2>3. /\ offset_stack' \in Seq(0..(max_increments - 1))
        /\ Len(offset_stack') <= OFFSET_STACK_SIZE
    BY <1>1, Sizes
  <2> QED BY <1>1, <1>2, <2>2, <2>3 DEF SieveType
<1>4. Waiting' = Waiting
  <2>1. Recorded(segment_hits') \cup {offset_stack'[j] : j \in DOMAIN offset_stack'}
          = Recorded(NewHits)
    BY <1>1
  <2> QED BY <1>1, <1>2, <2>1 DEF Waiting
<1>5. \A k, g : Root(k, g)' = Root(k, g) /\ Base(g)' = Base(g) /\ (Found(k, g)' <=> Found(k, g))
  BY <1>1, TargetKept DEF Found
<1>6. ModInv'
  <2>1. /\ loop' = 0 /\ i' <= Len(primeTestTable) + 1
        /\ \A k \in 1..n_stored, g \in 1..6 : Found(k, g)' => offsets'[k][g] = Root(k, g)'
    BY <1>1, <1>5 DEF ModInv
  <2>2. f' > 1 => /\ i' <= Len(primeTestTable) /\ remainder' \in 0..P(i')
                  /\ Same(remainder', Base(f - 1)', P(i'))
    <3>1. f > 1 => /\ i <= Len(primeTestTable) /\ remainder \in 0..P(i)
                   /\ Same(remainder, Base(f - 1), P(i))
      BY <1>1 DEF ModInv
    <3>2. Base(f - 1)' = Base(f - 1)
      BY <1>1 DEF Base, remainderPrimorial
    <3> QED BY <1>1, <3>1, <3>2
  <2>3. \A y \in 0..(max_increments - 1) :
          y \in Waiting' <=>
            \E k \in Indexes, g \in 1..6 : k > n_stored /\ Found(k, g)' /\ y = Root(k, g)'
    BY <1>1, <1>4, <1>5 DEF ModInv
  <2> QED BY <1>1, <2>1, <2>2, <2>3 DEF ModInv
<1> QED BY <1>1, <1>3, <1>6 DEF SieveInv

LEMMA SieveDenseKeeps ==
  ASSUME SieveInv, SieveDense
  PROVE  SieveInv'
<1>0. PICK a \in 1..n_dense : a = i
  BY Stored DEF SieveInv, SieveType, SieveDense
<1> DEFINE p == P(a)
           N == riecoin_sieveSize
           t == loop * N
           s == silly_sort_indexes(offsets[a])
           row == [g \in 1..6 |-> Carry(s[g], p)]
<1>1. /\ SieveType /\ ModInv /\ OffsetsInv /\ MarksInv /\ a = i
      /\ pc = "dense" /\ pc' = "dense" /\ f' = f /\ i' = a + 1
      /\ sieve' = sieve \cup UNION {Hit(s[g], p) : g \in 1..6}
      /\ offsets' = [offsets EXCEPT ![a] = row]
      /\ pending' = pending /\ pending_pos' = pending_pos
      /\ target' = target /\ remainder' = remainder
      /\ offset_stack' = offset_stack /\ segment_hits' = segment_hits
      /\ loop' = loop
  BY <1>0 DEF SieveInv, SieveDense, P, ring
<1>2. /\ a \in 1..n_stored /\ p \in Nat \ {0} /\ N \in Nat \ {0} /\ loop \in Nat /\ t \in Nat
      /\ offsets \in [1..n_stored -> [1..6 -> Nat]]
  <2>1. a \in 1..n_stored /\ p \in Nat \ {0} /\ N \in Nat \ {0}
    BY Stored
  <2>2. loop \in Nat /\ offsets \in [1..n_stored -> [1..6 -> Nat]]
    BY <1>1 DEF SieveType
  <2> QED BY <2>1, <2>2
<1> HIDE DEF p, N, t, s, row
<1>3. /\ s \in [1..6 -> Nat]
      /\ \A x : (\E g \in 1..6 : s[g] = x) <=> (\E g \in 1..6 : offsets[a][g] = x)
  <2>1. offsets[a] \in [1..6 -> Nat]
    BY <1>2
  <2> QED BY <2>1, SortKeeps DEF s
<1>4. \A g \in 1..6 : offsets[a][g] < p /\ s[g] < p
  <2>1. \A g \in 1..6 : offsets[a][g] < p + 0
    BY <1>1, <1>2 DEF OffsetsInv, p
  <2>2. \A g \in 1..6 : offsets[a][g] < p
    BY <1>2, <2>1
  <2>3. ASSUME NEW g \in 1..6 PROVE s[g] < p
    <3>1. PICK h \in 1..6 : offsets[a][h] = s[g]
      BY <1>3
    <3> QED BY <2>2, <3>1
  <2> QED BY <2>2, <2>3
<1>5. ASSUME NEW g \in 1..6
      PROVE  /\ row[g] \in Nat /\ row[g] < p /\ Hit(s[g], p) \subseteq Bits
             /\ Same(row[g] + N, s[g], p)
             /\ \A x \in Bits : x \in Hit(s[g], p) <=> Same(x, s[g], p)
  <2> DEFINE o == s[g]
  <2>1. o \in Nat /\ o < p /\ row[g] = Carry(o, p)
    BY <1>3, <1>4 DEF row
  <2> HIDE DEF o
  <2>2. /\ Carry(o, p) \in Nat /\ Hit(o, p) \subseteq Bits
        /\ Same(Carry(o, p) + riecoin_sieveSize, o, p)
        /\ o < p => Carry(o, p) < p
        /\ o < p => \A x \in Bits : x \in Hit(o, p) <=> Same(x, o, p)
    BY <1>2, <2>1, Carries
  <2> QED BY <2>1, <2>2 DEF o, N
<1>6. row \in [1..6 -> Nat]
  <2>1. row = [g \in 1..6 |-> Carry(s[g], p)]
    BY DEF row
  <2> QED BY <1>5, <2>1
<1>7. /\ offsets' \in [1..n_stored -> [1..6 -> Nat]] /\ offsets'[a] = row
      /\ \A k \in 1..n_stored : k # a => offsets'[k] = offsets[k]
  BY <1>1, <1>2, <1>6
<1>8. SieveType'
  <2>1. sieve' \subseteq Bits
    BY <1>1, <1>5 DEF SieveType
  <2>2. i' \in Nat \ {0}
    BY <1>1
  <2> QED BY <1>1, <1>7, <2>1, <2>2 DEF SieveType
<1>9. \A k, g : Root(k, g)' = Root(k, g)
  BY <1>1, TargetKept
<1>10. ModInv'
  BY <1>1, ModKept
<1>11. \A k \in 1..n_stored, h \in 1..6 :
         (Passed(k, h) <=> k < a) /\ (Passed(k, h)' <=> k < a \/ k = a)
  BY <1>1, Stored DEF Passed
<1>12. \A k \in 1..n_stored, h \in 1..6 : k # a => Place(k, h)' = Place(k, h)
  BY <1>1, <1>7, <1>11 DEF Place
<1>13. ASSUME NEW h \in 1..6
       PROVE  /\ Place(a, h) = offsets[a][h] + t
              /\ Same(Place(a, h)', s[h] + t, p)
  <2>1. (loop + 0) * N = t /\ (loop + 1) * N = t + N
    BY <1>2 DEF t
  <2>2. Place(a, h) = offsets[a][h] + (loop + 0) * N
    BY <1>2, <1>11 DEF Place, N
  <2>3. Place(a, h)' = row[h] + (loop + 1) * N
    BY <1>1, <1>2, <1>7, <1>11 DEF Place, N
  <2>4. row[h] \in Nat /\ s[h] \in Nat /\ Same(row[h] + N, s[h], p)
    BY <1>3, <1>5
  <2> DEFINE c == row[h] + (t + N)
             d == s[h] + t
             e == row[h] + N
  <2>5. c - e = d - s[h] /\ c \in Nat /\ d \in Nat /\ e \in Nat
    <3> DEFINE y == row[h]
               z == s[h]
    <3>1. y \in Nat /\ z \in Nat /\ t \in Nat /\ N \in Nat
      BY <1>2, <2>4
    <3> HIDE DEF y, z
    <3>2. (y + (t + N)) - (y + N) = (z + t) - z
      BY <3>1
    <3>3. y + (t + N) \in Nat /\ z + t \in Nat /\ y + N \in Nat
      BY <3>1
    <3> QED BY <3>2, <3>3 DEF y, z
  <2> HIDE DEF c, d
  <2>6. Same(c, d, p)
    <3> HIDE DEF e
    <3>1. Same(e, s[h], p)
      BY <2>4 DEF e
    <3> QED BY <1>2, <2>4, <2>5, <3>1, SameShift
  <2> QED BY <2>1, <2>2, <2>3, <2>6 DEF c, d
<1>14. /\ \A h \in 1..6 : \E g \in 1..6 : Same(s[h] + t, Root(a, g), p)
       /\ \A g \in 1..6 : \E h \in 1..6 : Same(s[h] + t, Root(a, g), p)
  <2>1. /\ \A h \in 1..6 : \E g \in 1..6 : Same(offsets[a][h] + t, Root(a, g), p)
        /\ \A g \in 1..6 : \E h \in 1..6 : Same(offsets[a][h] + t, Root(a, g), p)
    <3>1. /\ \A h \in 1..6 : \E g \in 1..6 : Same(Place(a, h), Root(a, g), p)
          /\ \A g \in 1..6 : \E h \in 1..6 : Same(Place(a, h), Root(a, g), p)
      BY <1>1, <1>2 DEF OffsetsInv, p
    <3> QED BY <1>13, <3>1
  <2>2. ASSUME NEW h \in 1..6 PROVE \E g \in 1..6 : Same(s[h] + t, Root(a, g), p)
    <3>1. PICK j \in 1..6 : offsets[a][j] = s[h]
      BY <1>3
    <3> QED BY <2>1, <3>1
  <2>3. ASSUME NEW g \in 1..6 PROVE \E h \in 1..6 : Same(s[h] + t, Root(a, g), p)
    <3>1. PICK j \in 1..6 : Same(offsets[a][j] + t, Root(a, g), p)
      BY <2>1
    <3>2. PICK h \in 1..6 : s[h] = offsets[a][j]
      BY <1>3
    <3> QED BY <3>1, <3>2
  <2> QED BY <2>2, <2>3
<1>15. OffsetsInv'
  <2>1. ASSUME NEW k \in 1..n_stored, NEW h \in 1..6 PROVE offsets'[k][h] < P(k) + 0
    <3>1. CASE k = a
      <4>1. row[h] < p + 0
        <5>1. row[h] \in Nat /\ row[h] < p
          BY <1>5
        <5> QED BY <1>2, <5>1
      <4> QED BY <1>7, <3>1, <4>1 DEF p
    <3>2. CASE k # a
      BY <1>1, <1>7, <3>2 DEF OffsetsInv
    <3> QED BY <3>1, <3>2
  <2>2. ASSUME NEW k \in 1..n_stored
        PROVE  /\ \A h \in 1..6 : \E g \in 1..6 : Same(Place(k, h)', Root(k, g)', P(k))
               /\ \A g \in 1..6 : \E h \in 1..6 : Same(Place(k, h)', Root(k, g)', P(k))
    <3>1. CASE k = a
      <4>1. /\ \A h \in 1..6 : \E g \in 1..6 : Same(Place(a, h)', Root(a, g), p)
            /\ \A g \in 1..6 : \E h \in 1..6 : Same(Place(a, h)', Root(a, g), p)
        <5>1. \A h \in 1..6 : Same(Place(a, h)', s[h] + t, p)
          BY <1>13
        <5>2. \A x, y, z : Same(x, y, p) => (Same(x, z, p) <=> Same(y, z, p))
          BY DEF Same
        <5> QED BY <1>14, <5>1, <5>2
      <4> QED BY <1>9, <3>1, <4>1 DEF p
    <3>2. CASE k # a
      <4>1. /\ \A h \in 1..6 : \E g \in 1..6 : Same(Place(k, h), Root(k, g), P(k))
            /\ \A g \in 1..6 : \E h \in 1..6 : Same(Place(k, h), Root(k, g), P(k))
        BY <1>1 DEF OffsetsInv
      <4> QED BY <1>9, <1>12, <3>2, <4>1
    <3> QED BY <3>1, <3>2
  <2> QED BY <1>1, <2>1, <2>2 DEF OffsetsInv
<1>16. ASSUME NEW x \in Bits
       PROVE  (\E h \in 1..6 : x \in Hit(s[h], p)) <=> Struck(x, a)
  <2>1. x \in Nat /\ At(x) = t + x
    BY DEF Bits, At, t, N
  <2>2. ASSUME NEW h \in 1..6
        PROVE  x \in Hit(s[h], p) <=> Same(At(x), s[h] + t, p)
    <3> DEFINE o == s[h]
               c == t + x
               d == o + t
    <3>1. o \in Nat
      BY <1>3
    <3> HIDE DEF o
    <3>2. c \in Nat /\ d \in Nat /\ c - x = d - o
      BY <1>2, <2>1, <3>1
    <3> HIDE DEF c, d
    <3>3. Same(c, d, p) <=> Same(x, o, p)
      BY <1>2, <2>1, <3>1, <3>2, SameShift
    <3> QED BY <1>5, <2>1, <3>3 DEF c, d, o
  <2> QED BY <1>14, <2>2 DEF Struck, Same, p
<1>17. MarksInv'
  <2>1. ASSUME NEW x \in Bits
        PROVE  x \in sieve' <=> \E k \in 1..n_dense : k < a + 1 /\ Struck(x, k)'
    <3>1. \A k : Struck(x, k)' <=> Struck(x, k)
      BY <1>1, <1>9 DEF Struck, At
    <3>2. x \in sieve <=> \E k \in 1..n_dense : k < a /\ Struck(x, k)
      BY <1>1 DEF MarksInv
    <3>3. x \in sieve' <=> x \in sieve \/ Struck(x, a)
      BY <1>1, <1>16
    <3>4. \A k \in 1..n_dense : k < a + 1 <=> k < a \/ k = a
      BY Stored
    <3> QED BY <3>1, <3>2, <3>3, <3>4
  <2>2. i' <= n_dense + 1
    BY <1>1, Stored
  <2> QED BY <1>1, <2>1, <2>2 DEF MarksInv
<1> QED BY <1>1, <1>8, <1>10, <1>15, <1>17 DEF SieveInv

LEMMA UpdateRemainderKeeps ==
  ASSUME SieveInv, UpdateRemainder
  PROVE  SieveInv'
<1>0. PICK a \in Indexes, b \in 1..6 : a = i /\ b = f
  <2>1. i \in Indexes /\ f \in 1..6
    BY Primes DEF SieveInv, SieveType, UpdateRemainder, ModDone
  <2> QED BY <2>1
<1> DEFINE p == P(a)
           v == inverts[a]
           c == primeTupleOffset[b]
           r == remainder'
           before == IF b = 1 THEN (target + remainderPrimorial) % p ELSE remainder
           index == Answer(r, v, p)
<1>1. /\ SieveType /\ ModInv /\ a = i /\ b = f /\ ~StackFull
      /\ pc = "mod" /\ pc' = "mod" /\ loop' = loop /\ sieve' = sieve
      /\ pending' = pending /\ pending_pos' = pending_pos
      /\ target' = target /\ segment_hits' = segment_hits
      /\ f' = (f % 6) + 1 /\ i' = (IF f = 6 THEN i + 1 ELSE i)
      /\ r = Reduce(before + c, p)
      /\ IF p < max_increments
         THEN Replaces(offsets', offsets, a, b, index) /\ offset_stack' = offset_stack
         ELSE /\ offset_stack' = IF index < max_increments
                                 THEN Append(offset_stack, index) ELSE offset_stack
              /\ offsets' = offsets
  BY <1>0 DEF SieveInv, UpdateRemainder, P, Replaces, Answer, ring
<1>2. /\ p \in Nat \ {0, 1} /\ v \in Nat /\ c \in Nat /\ c < p /\ b - 1 \in 0..6
      /\ Base(b - 1) \in Nat /\ Base(b) = Base(b - 1) + c
  <2>1. p \in Nat \ {0, 1} /\ v \in Nat /\ c \in Nat /\ c < p
    BY Primes
  <2>2. b - 1 \in 0..6 /\ target \in Targets
    BY <1>1 DEF SieveType
  <2>3. Base(b - 1) \in Nat /\ Base(b) = Base(b - 1) + c
    BY <2>2, Bases
  <2> QED BY <2>1, <2>2, <2>3
<1> HIDE DEF p, v, c, r, before, index
<1>3. before \in 0..p /\ Same(before, Base(b - 1), p)
  <2>1. CASE b = 1
    <3> DEFINE e == Base(0)
    <3>1. before = e % p /\ e \in Nat /\ b - 1 = 0
      BY <1>1, <2>1, Bases DEF before, SieveType
    <3> HIDE DEF e
    <3>2. e % p \in 0..(p - 1)
      BY <1>2, <3>1, Division
    <3>3. \A z \in 0..(p - 1) : z % p = z /\ z \in 0..p
      BY <1>2
    <3> QED BY <3>1, <3>2, <3>3 DEF Same, e
  <2>2. CASE b # 1
    BY <1>1, <2>2 DEF ModInv, before, p
  <2> QED BY <2>1, <2>2
<1>4. r \in 0..p /\ Same(r, Base(b), p)
  <2> DEFINE z == before + c
             e == Base(b - 1)
             d == Base(b)
  <2>1. /\ z \in Nat /\ e \in Nat /\ d \in Nat /\ z - before = d - e /\ before \in Nat
        /\ z < p + p /\ Same(before, e, p)
    BY <1>2, <1>3
  <2>2. r = IF z > p THEN z - p ELSE z
    BY <1>1 DEF Reduce
  <2> HIDE DEF z, e, d
  <2>3. Same(z, d, p)
    BY <1>2, <2>1, SameShift
  <2>4. CASE z > p
    <3>1. r \in 0..p /\ z = r + p /\ r \in Nat
      BY <1>2, <2>1, <2>2, <2>4
    <3>2. Same(z, r, p)
      BY <1>2, <2>1, <3>1, SameNext
    <3> QED BY <2>3, <3>1, <3>2 DEF Same, d
  <2>5. CASE ~(z > p)
    BY <1>2, <2>1, <2>2, <2>3, <2>5 DEF d
  <2> QED BY <2>4, <2>5
<1>5. index = Root(a, b) /\ index \in 0..(p - 1)
  <2>1. target \in Targets
    BY <1>1 DEF SieveType
  <2>2. Root(a, b) \in 0..(P(a) - 1)
    BY <2>1, Roots
  <2>3. Answer(r, inverts[a], P(a)) = Root(a, b)
    BY <1>4, <2>1, Roots DEF p
  <2> QED BY <2>2, <2>3 DEF index, p, v
<1>6. \A k, g : Root(k, g)' = Root(k, g)
  BY <1>1, TargetKept
<1>7. /\ i \in Nat /\ a \in Nat /\ a <= Len(primeTestTable) /\ Len(primeTestTable) \in Nat
      /\ b < 6 => f' = b + 1 /\ i' = a
      /\ b = 6 => f' = 1 /\ i' = a + 1
      /\ f' \in 1..6 /\ i' \in Nat \ {0}
  <2>1. a \in Nat \ {0} /\ a <= Len(primeTestTable) /\ Len(primeTestTable) \in Nat
    BY Primes
  <2> QED BY <1>1, <2>1
<1>8. ASSUME NEW k \in Indexes, NEW g \in 1..6
      PROVE  Found(k, g)' <=> Found(k, g) \/ (k = a /\ g = b)
  <2>1. k \in Nat /\ (Found(k, g) <=> k < a \/ (k = a /\ g < b))
    BY <1>1, Primes DEF Found
  <2>2. Found(k, g)' <=> k < i' \/ (k = i' /\ g < f')
    BY <1>1 DEF Found
  <2>3. CASE b < 6
    BY <1>7, <2>1, <2>2, <2>3
  <2>4. CASE b = 6
    <3>1. k < a + 1 \/ (k = a + 1 /\ g < 1) <=> k < a \/ k = a
      BY <1>7, <2>1
    <3> QED BY <1>7, <2>1, <2>2, <2>4, <3>1
  <2> QED BY <2>3, <2>4
<1>9. \A y \in 0..(max_increments - 1) :
        y \in Waiting <=>
          \E k \in Indexes, g \in 1..6 : k > n_stored /\ Found(k, g) /\ y = Root(k, g)
  BY <1>1 DEF ModInv
<1>10. \A k \in 1..n_stored, g \in 1..6 : Found(k, g) => offsets[k][g] = Root(k, g)
  BY <1>1 DEF ModInv
<1>11. /\ offsets' \in [1..n_stored -> [1..6 -> Nat]]
       /\ offset_stack' \in Seq(0..(max_increments - 1))
       /\ Len(offset_stack') <= OFFSET_STACK_SIZE
       /\ \A k \in 1..n_stored, g \in 1..6 : Found(k, g)' => offsets'[k][g] = Root(k, g)
       /\ \A y \in 0..(max_increments - 1) :
            y \in Waiting' <=>
              \E k \in Indexes, g \in 1..6 : k > n_stored /\ Found(k, g)' /\ y = Root(k, g)
  <2>1. /\ offsets \in Tables /\ offset_stack \in Seq(0..(max_increments - 1))
        /\ Len(offset_stack) <= OFFSET_STACK_SIZE
    BY <1>1 DEF SieveType, Tables
  <2>2. CASE p < max_increments
    <3>1. a \in 1..n_stored /\ index \in Nat
      BY <1>2, <1>5, <1>7, <2>2, Primes, Counts DEF p
    <3>2. Replaces(offsets', offsets, a, b, index) /\ offset_stack' = offset_stack
      BY <1>1, <2>2
    <3>3. /\ offsets' \in Tables /\ offsets'[a][b] = index
          /\ \A k \in 1..n_stored, g \in 1..6 :
               ~(k = a /\ g = b) => offsets'[k][g] = offsets[k][g]
      <4>1. offsets \in Tables /\ Replaces(offsets', offsets, a, b, index)
        BY <2>1, <3>2
      <4> QED BY <3>1, <4>1, Replaced
    <3>4. \A k \in 1..n_stored, g \in 1..6 : Found(k, g)' => offsets'[k][g] = Root(k, g)
      BY <1>5, <1>8, <1>10, <3>3, Stored
    <3>5. \A k \in Indexes, g \in 1..6 : k > n_stored => (Found(k, g)' <=> Found(k, g))
      BY <1>8, <3>1, Stored
    <3>6. Waiting' = Waiting
      BY <1>1, <3>2 DEF Waiting
    <3> QED BY <1>9, <2>1, <3>2, <3>3, <3>4, <3>5, <3>6 DEF Tables
  <2>3. CASE ~(p < max_increments)
    <3>1. a > n_stored /\ offsets' = offsets
      <4>1. ~(a <= n_stored)
        BY <2>3, Counts DEF p
      <4> QED BY <1>1, <1>7, <2>3, <4>1, Stored
    <3>2. \A k \in 1..n_stored, g \in 1..6 : Found(k, g)' => offsets'[k][g] = Root(k, g)
      BY <1>8, <1>10, <3>1, Stored
    <3>3. /\ offset_stack' \in Seq(0..(max_increments - 1))
          /\ Len(offset_stack') <= OFFSET_STACK_SIZE
          /\ \A y \in 0..(max_increments - 1) : y \in Waiting' <=> y \in Waiting \/ y = index
      <4>1. CASE index < max_increments
        <5>1. index \in 0..(max_increments - 1)
          BY <1>2, <1>5, <4>1, Sizes
        <5>2. offset_stack' = Append(offset_stack, index)
          BY <1>1, <2>3, <4>1
        <5> DEFINE R == 0..(max_increments - 1)
                   L == Len(offset_stack)
        <5>3. offset_stack \in Seq(R) /\ index \in R /\ L < OFFSET_STACK_SIZE /\ L \in Nat
          BY <1>1, <2>1, <5>1, Sizes DEF StackFull
        <5> HIDE DEF R, L
        <5>4. /\ offset_stack' \in Seq(R) /\ Len(offset_stack') = L + 1
              /\ DOMAIN offset_stack' = 1..(L + 1) /\ DOMAIN offset_stack = 1..L
              /\ offset_stack'[L + 1] = index
              /\ \A j \in 1..L : offset_stack'[j] = offset_stack[j]
          BY <5>2, <5>3 DEF L
        <5>5. \A y : (\E j \in DOMAIN offset_stack' : offset_stack'[j] = y)
                       <=> (\E j \in DOMAIN offset_stack : offset_stack[j] = y) \/ y = index
          BY <5>3, <5>4
        <5>6. L + 1 <= OFFSET_STACK_SIZE
          BY <5>3, Sizes
        <5>7. \A y : y \in Waiting' <=> y \in Waiting \/ y = index
          BY <1>1, <5>5 DEF Waiting
        <5> QED BY <5>4, <5>6, <5>7 DEF R
      <4>2. CASE ~(index < max_increments)
        <5>1. offset_stack' = offset_stack
          BY <1>1, <2>3, <4>2
        <5>2. Waiting' = Waiting
          BY <1>1, <5>1 DEF Waiting
        <5>3. \A y \in 0..(max_increments - 1) : y # index
          BY <4>2, Sizes
        <5> QED BY <2>1, <5>1, <5>2, <5>3
      <4> QED BY <4>1, <4>2
    <3>4. ASSUME NEW y
          PROVE  (\E k \in Indexes, g \in 1..6 : k > n_stored /\ Found(k, g)' /\ y = Root(k, g))
                   <=> \/ \E k \in Indexes, g \in 1..6 :
                            k > n_stored /\ Found(k, g) /\ y = Root(k, g)
                       \/ y = index
      BY <1>5, <1>8, <3>1
    <3>5. ASSUME NEW y \in 0..(max_increments - 1)
          PROVE  y \in Waiting' <=>
                   \E k \in Indexes, g \in 1..6 : k > n_stored /\ Found(k, g)' /\ y = Root(k, g)
      <4>1. y \in Waiting' <=> y \in Waiting \/ y = index
        BY <3>3
      <4>2. y \in Waiting <=>
              \E k \in Indexes, g \in 1..6 : k > n_stored /\ Found(k, g) /\ y = Root(k, g)
        BY <1>9
      <4> QED BY <3>4, <4>1, <4>2
    <3>6. offsets' \in [1..n_stored -> [1..6 -> Nat]]
      BY <2>1, <3>1 DEF Tables
    <3> QED BY <3>2, <3>3, <3>5, <3>6
  <2> QED BY <2>2, <2>3
<1>12. SieveType'
  <2>1. remainder' \in Nat
    BY <1>4 DEF r
  <2> QED BY <1>1, <1>7, <1>11, <2>1 DEF SieveType
<1>13. ModInv'
  <2>1. loop' = 0 /\ i' <= Len(primeTestTable) + 1
    BY <1>1, <1>7 DEF ModInv
  <2>2. f' > 1 => /\ i' <= Len(primeTestTable) /\ remainder' \in 0..P(i')
                  /\ Same(remainder', Base(f - 1)', P(i'))
    <3> SUFFICES ASSUME f' > 1
                 PROVE  /\ i' <= Len(primeTestTable) /\ remainder' \in 0..P(i')
                        /\ Same(remainder', Base(f - 1)', P(i'))
      OBVIOUS
    <3>1. b < 6 /\ f' = b + 1 /\ i' = a
      BY <1>7
    <3>2. f' - 1 = b
      BY <3>1
    <3>3. Base(f - 1)' = Base(b)
      BY <1>1, <3>2 DEF Base, remainderPrimorial
    <3> QED BY <1>4, <1>7, <3>1, <3>3 DEF p, r
  <2> QED BY <1>1, <1>6, <1>11, <2>1, <2>2 DEF ModInv
<1> QED BY <1>1, <1>12, <1>13 DEF SieveInv

LEMMA InitHolds ==
  ASSUME Init
  PROVE  SieveInv
<1>1. /\ pc = "mod" /\ target \in Targets /\ i = 1 /\ f = 1 /\ remainder = 0
      /\ offsets = [k \in 1..n_stored |-> <<0, 0, 0, 0, 0, 0>>]
      /\ offset_stack = <<>>
      /\ segment_hits = [s \in 0..(maxiter - 1) |-> <<>>]
      /\ loop = 0 /\ sieve = {} /\ pending = NoPending /\ pending_pos = 0
  BY DEF Init
<1>2. SieveType
  <2>1. <<0, 0, 0, 0, 0, 0>> \in [1..6 -> Nat]
    OBVIOUS
  <2>2. offsets \in [1..n_stored -> [1..6 -> Nat]]
    BY <1>1, <2>1
  <2>3. segment_hits \in Buckets
        /\ \A s \in 0..(maxiter - 1) : Len(segment_hits[s]) <= num_entries_per_segment
    BY <1>1, Sizes DEF Buckets
  <2>4. loop \in 0..(maxiter - 1) /\ Len(offset_stack) <= OFFSET_STACK_SIZE
        /\ offset_stack \in Seq(0..(max_increments - 1))
    BY <1>1, Sizes
  <2>5. /\ pending \in [0..(PENDING_SIZE - 1) -> Bits]
        /\ pending_pos \in 0..(PENDING_SIZE - 1)
    BY <1>1, NoPendingType
  <2>6. sieve \subseteq Bits /\ i \in Nat \ {0} /\ f \in 1..6 /\ remainder \in Nat
    BY <1>1
  <2> QED BY <1>1, <2>2, <2>3, <2>4, <2>5, <2>6 DEF SieveType
<1>3. ASSUME NEW y \in 0..(max_increments - 1) PROVE y \notin Waiting
  <2>1. Segment(y) \in 0..(maxiter - 1)
    BY Segments
  <2>2. segment_hits[Segment(y)] = <<>>
    BY <1>1, <2>1
  <2>3. y \notin Recorded(segment_hits)
    BY <2>2 DEF Recorded
  <2> QED BY <1>1, <2>3 DEF Waiting
<1>4. \A k \in Indexes, g \in 1..6 : ~Found(k, g)
  BY <1>1, Primes DEF Found
<1>5. ModInv
  <2>1. \A k \in 1..n_stored, g \in 1..6 : ~Found(k, g)
    BY <1>4, Stored
  <2>2. Len(primeTestTable) \in Nat
    BY Primes
  <2>3. \A y \in 0..(max_increments - 1) :
          y \in Waiting <=>
            \E k \in Indexes, g \in 1..6 : k > n_stored /\ Found(k, g) /\ y = Root(k, g)
    BY <1>3, <1>4
  <2> QED BY <1>1, <2>1, <2>2, <2>3 DEF ModInv
<1> QED BY <1>1, <1>2, <1>5 DEF SieveInv

(* Every reachable state: the indexes found so far are those at which the  *)
(* table's primes divide the numbers of the tuple, offsets[k] holds the    *)
(* six of prime k moved to the pass it is at, the buckets and the stack    *)
(* hold those of the primes that hit once, and the bits set or waiting in  *)
(* the ring are exactly those the marking has got to                       *)
(* (riecoinMiner.cpp:235-370, 700-790).                                    *)
THEOREM SieveInvariant == Spec => []SieveInv
<1>1. Init => SieveInv
  BY InitHolds
<1>2. SieveInv /\ [Next]_vars => SieveInv'
  <2> SUFFICES ASSUME SieveInv, [Next]_vars PROVE SieveInv'
    OBVIOUS
  <2>1. CASE UpdateRemainder
    BY <2>1, UpdateRemainderKeeps
  <2>2. CASE PutOffsets
    BY <2>2, PutOffsetsKeeps
  <2>3. CASE BucketOverflow
    BY <2>3, BucketOverflowKeeps
  <2>4. CASE StartPass
    BY <2>4, StartPassKeeps
  <2>5. CASE SieveDense
    BY <2>5, SieveDenseKeeps
  <2>6. CASE StartSparse
    BY <2>6, StartSparseKeeps
  <2>7. CASE MarkSparse
    BY <2>7, MarkSparseKeeps
  <2>8. CASE NextSparse
    BY <2>8, NextSparseKeeps
  <2>9. CASE EndSparse
    BY <2>9, EndSparseKeeps
  <2>10. CASE MarkHit
    BY <2>10, MarkHitKeeps
  <2>11. CASE EndHits
    BY <2>11, EndHitsKeeps
  <2>12. CASE NextPass
    BY <2>12, NextPassKeeps
  <2>13. CASE NextHeader
    BY <2>13, NextHeaderKeeps
  <2>14. CASE UNCHANGED vars
    <3>1. /\ pc' = pc /\ target' = target /\ i' = i /\ f' = f /\ remainder' = remainder
          /\ offsets' = offsets /\ offset_stack' = offset_stack
          /\ segment_hits' = segment_hits /\ loop' = loop /\ sieve' = sieve
          /\ pending' = pending /\ pending_pos' = pending_pos
      BY <2>14 DEF vars, ring
    <3>2. SieveType' <=> SieveType
      BY <3>1 DEF SieveType
    <3>3. ModInv' <=> ModInv
      BY <3>1 DEF ModInv, Found, Waiting, Root, Base, remainderPrimorial
    <3>4. OffsetsInv' <=> OffsetsInv
      BY <3>1 DEF OffsetsInv, Place, Passed, Root, Base, remainderPrimorial
    <3>5. MarksInv' <=> MarksInv
      BY <3>1 DEF MarksInv, Struck, At, Reached, Lit, Dense, Place, Passed, Root, Base,
                  remainderPrimorial
    <3> QED BY <3>1, <3>2, <3>3, <3>4, <3>5 DEF SieveInv
  <2> QED BY <2>1, <2>2, <2>3, <2>4, <2>5, <2>6, <2>7, <2>8, <2>9, <2>10, <2>11, <2>12,
             <2>13, <2>14 DEF Next
<1> QED BY <1>1, <1>2, PTL DEF Spec

(* Every entry of the ring, the buckets and the stack is in bounds, in     *)
(* every reachable state, whatever the sizes of the arrays and the tables: *)
(* the assertions of riecoinMiner.cpp:261, 366 and 745.                    *)
THEOREM IndexesStayInBounds == Spec => []IndexesInBounds
<1>1. SieveInv => IndexesInBounds
  <2> SUFFICES ASSUME SieveType PROVE IndexesInBounds
    BY DEF SieveInv
  <2>1. ASSUME NEW k \in DOMAIN pending PROVE pending[k] < riecoin_sieveSize
    <3>1. pending[k] \in Bits
      BY DEF SieveType
    <3> QED BY <3>1, Sizes DEF Bits
  <2>2. ASSUME NEW s \in DOMAIN segment_hits
        PROVE  /\ Len(segment_hits[s]) <= num_entries_per_segment
               /\ \A k \in DOMAIN segment_hits[s] : segment_hits[s][k] < riecoin_sieveSize
    <3> DEFINE h == segment_hits[s]
    <3>1. s \in 0..(maxiter - 1) /\ h \in Seq(Bits)
      BY DEF SieveType, Buckets, Bits
    <3>2. Len(h) <= num_entries_per_segment
      BY <3>1 DEF SieveType
    <3> HIDE DEF h
    <3>3. \A k \in DOMAIN h : h[k] \in Bits
      BY <3>1
    <3>4. \A x \in Bits : x < riecoin_sieveSize
      BY Sizes DEF Bits
    <3> QED BY <3>2, <3>3, <3>4 DEF h
  <2>3. Len(offset_stack) <= OFFSET_STACK_SIZE
    BY DEF SieveType
  <2> QED BY <2>1, <2>2, <2>3 DEF IndexesInBounds
<1> QED BY <1>1, SieveInvariant, PTL

(* The numbers tested for a bit of the pass. *)
LEMMA TestedDivides ==
  ASSUME SieveType, NEW x \in Bits, NEW k \in Indexes, NEW g \in 1..6
  PROVE  Tested(x, g) % primeTestTable[k] = 0 <=> Same(At(x), Root(k, g), P(k))
<1> DEFINE b == target + remainderPrimorial
           m == At(x) * primorial
           d == Distance[g]
<1>1. /\ b \in Nat /\ d \in Nat /\ m \in Nat /\ At(x) \in Nat
  <2>1. target \in Targets /\ loop \in Nat /\ x \in Nat
    BY DEF SieveType, Bits
  <2>2. b \in Nat
    <3>1. Base(0) = b /\ Base(0) \in Nat
      BY <2>1, Bases
    <3> QED BY <3>1
  <2>3. At(x) \in Nat
    BY <2>1, Sizes DEF At
  <2>4. m \in Nat
    <3> DEFINE y == At(x)
    <3>1. y \in Nat /\ primorial \in Nat
      BY <2>3, Primes
    <3> HIDE DEF y
    <3>2. y * primorial \in Nat
      BY <3>1
    <3> QED BY <3>2 DEF y
  <2> QED BY <2>2, <2>3, <2>4, Distances
<1>2. Tested(x, g) = (b + m) + d
  BY DEF Tested, At
<1>3. Base(g) = b + d
  BY DEF Base
<1>4. Base(g) + m = Tested(x, g)
  <2> HIDE DEF b, m, d
  <2> QED BY <1>1, <1>2, <1>3
<1>5. Tested(x, g) % P(k) = 0 <=> Divides(Base(g), At(x), primorial, P(k))
  BY <1>4 DEF Divides
<1>6. Divides(Base(g), At(x), primorial, P(k)) <=> Same(At(x), Root(k, g), P(k))
  BY <1>1, Roots DEF SieveType
<1> QED BY <1>5, <1>6 DEF P

(* When a pass is scanned the set bits are those of the numbers that some  *)
(* prime of the table divides (bit 0: some dense prime), for every table,  *)
(* every target, every size of the sieve, of the ring, of the stack and of *)
(* the buckets, and after any number of headers (riecoinMiner.cpp:235-370, *)
(* 700-790).                                                               *)
THEOREM SieveIsExact == Spec => []SieveExact
<1>1. SieveInv => SieveExact
  <2> SUFFICES ASSUME SieveInv, pc = "scan"
               PROVE  sieve = {x \in 0..(riecoin_sieveSize - 1) :
                                 Divided(x, IF x = 0 THEN 1..n_dense ELSE Indexes)}
    BY DEF SieveExact
  <2>1. SieveType /\ MarksInv /\ sieve \subseteq Bits
    BY DEF SieveInv, SieveType
  <2>2. ASSUME NEW x \in Bits
        PROVE  x \in sieve <=> Divided(x, IF x = 0 THEN 1..n_dense ELSE Indexes)
    <3>1. \A k \in Indexes :
            Struck(x, k) <=> \E g \in 1..6 : Tested(x, g) % primeTestTable[k] = 0
      BY <2>1, TestedDivides DEF Struck
    <3>2. x \in sieve <=>
            \/ Dense(x)
            \/ x # 0 /\ \E k \in Indexes : n_dense < k /\ Struck(x, k)
      BY <2>1 DEF MarksInv
    <3>3. \A k \in 1..n_dense : k \in Indexes
      BY Stored
    <3>4. \A k \in Indexes : k \in 1..n_dense \/ n_dense < k
      BY Stored, Primes
    <3>5. CASE x = 0
      <4>1. Dense(x) <=> Divided(x, 1..n_dense)
        BY <3>1, <3>3 DEF Dense, Divided
      <4> QED BY <3>2, <3>5, <4>1
    <3>6. CASE x # 0
      <4>1. Dense(x) \/ (\E k \in Indexes : n_dense < k /\ Struck(x, k))
              <=> \E k \in Indexes : Struck(x, k)
        BY <3>3, <3>4 DEF Dense
      <4>2. (\E k \in Indexes : Struck(x, k)) <=> Divided(x, Indexes)
        BY <3>1 DEF Divided
      <4> QED BY <3>2, <3>6, <4>1, <4>2
    <3> QED BY <3>5, <3>6
  <2> QED BY <2>1, <2>2 DEF Bits
<1> QED BY <1>1, SieveInvariant, PTL
=============================================================================
