-------------------------- MODULE MerkleRootProofs --------------------------
(***************************************************************************)
(* Proofs about MerkleRoot: for any number of hashes and layers, the array *)
(* is large enough and read where it was written, and the root is that of  *)
(* the reference tree.                                                     *)
(***************************************************************************)
EXTENDS MerkleRoot, FiniteSetTheorems, WellFoundedInduction, TLAPS

(* The hashes of a layer of n, with the last one duplicated. *)
PaddedSize(n) == IF Odd(n) /\ n > 1 THEN n + 1 ELSE n
Unread == Len(hashData) - hashReadIndex

TypeOK ==
  /\ pc \in {"layer", "pair", "done"}
  /\ numberOfTxHashes \in Nat
  /\ \E S : hashData \in Seq(S)
  /\ hashReadIndex \in Nat
  /\ layerSize \in [0..(SizeLimit - 1) -> Nat]
  /\ f \in 0..Layers /\ i \in Nat

(* What is unread is the layer, or the rest of it and the next one so far. *)
LayersLaid ==
  /\ pc = "layer" =>
       /\ layerSize[f] > 0
       /\ Unread = PaddedSize(layerSize[f])
       /\ \A g \in (f + 1)..(SizeLimit - 1) : layerSize[g] = 0
  /\ pc = "pair" =>
       /\ f < Layers /\ layerSize[f] > 1
       /\ i = 2 * layerSize[f + 1] /\ i <= PaddedSize(layerSize[f])
       /\ Unread = PaddedSize(layerSize[f]) - i + layerSize[f + 1]
       /\ \A g \in (f + 2)..(SizeLimit - 1) : layerSize[g] = 0

(* A pair reads two hashes and writes one; a duplicate is written once per *)
(* layer.                                                                  *)
Written == /\ hashReadIndex <= Len(hashData)
           /\ 2 * Len(hashData) <= hashReadIndex + 2 * (numberOfTxHashes + 1) + 2 * f

Safe == TypeOK /\ LayersLaid /\ Written

LEMMA Appended ==
  ASSUME NEW S, NEW s \in Seq(S), NEW x
  PROVE  /\ \E T : Append(s, x) \in Seq(T)
         /\ Len(Append(s, x)) = Len(s) + 1 /\ Len(s) \in Nat
<1> DEFINE T == S \cup {x}
<1>1. s \in Seq(T)
  OBVIOUS
<1>2. Append(s, x) \in Seq(T) /\ Len(Append(s, x)) = Len(s) + 1
  BY <1>1
<1> QED BY <1>2

LEMMA LeavesSeq ==
  ASSUME NEW n \in Nat
  PROVE  /\ Leaves(n) \in Seq({Leaf(k) : k \in 1..n})
         /\ Len(Leaves(n)) = n
BY DEF Leaves

LEMMA Padding ==
  ASSUME NEW n \in Nat
  PROVE  /\ PaddedSize(n) \in Nat /\ n <= PaddedSize(n) /\ PaddedSize(n) <= n + 1
         /\ n = 1 => PaddedSize(n) = 1
         /\ \A m \in Nat : n > 1 /\ 2 * m >= n => 2 * m >= PaddedSize(n)
         /\ \A m \in Nat : n > 1 /\ 2 * m < n => 2 * m + 2 <= PaddedSize(n)
BY DEF PaddedSize, Odd

LEMMA SafeInit == Init => Safe
<1> SUFFICES ASSUME Init PROVE Safe
  OBVIOUS
<1> DEFINE n == numberOfTxHashes
<1>1. n \in Nat /\ Layers \in Nat \ {0} /\ SizeLimit \in Nat /\ 0 < SizeLimit /\ Layers < SizeLimit
  BY MerkleAssumption DEF Init
<1>2. /\ \E S : hashData \in Seq(S)
      /\ Len(hashData) = PaddedSize(n)
  <2>1. CASE Odd(n) /\ n > 1
    BY <1>1, <2>1, LeavesSeq, Appended DEF Init, PaddedSize, Duplicated
  <2>2. CASE ~(Odd(n) /\ n > 1)
    BY <1>1, <2>2, LeavesSeq DEF Init, PaddedSize
  <2> QED BY <2>1, <2>2
<1>3. pc \in {"layer", "done"} /\ f = 0 /\ i = 0 /\ hashReadIndex = 0
  BY DEF Init
<1>4. layerSize = [k \in 0..(SizeLimit - 1) |-> IF k > 0 THEN 0 ELSE PaddedSize(n)]
  BY DEF Init, PaddedSize
<1>5. PaddedSize(n) \in Nat /\ PaddedSize(n) <= n + 1 /\ PaddedSize(PaddedSize(n)) = PaddedSize(n)
  BY <1>1 DEF PaddedSize, Odd
<1>6. pc = "layer" => PaddedSize(n) > 0
  BY <1>1 DEF Init, PaddedSize
<1>7. TypeOK
  BY <1>1, <1>2, <1>3, <1>4, <1>5 DEF TypeOK
<1>8. LayersLaid
  BY <1>1, <1>2, <1>3, <1>4, <1>5, <1>6 DEF LayersLaid, Unread
<1>9. Written
  BY <1>1, <1>2, <1>3, <1>5 DEF Written
<1> QED BY <1>7, <1>8, <1>9 DEF Safe

LEMMA SafeNext == Safe /\ [Next]_vars => Safe'
<1> SUFFICES ASSUME Safe, [Next]_vars PROVE Safe'
  OBVIOUS
<1>0. Layers \in Nat \ {0} /\ SizeLimit \in Nat /\ Layers < SizeLimit
  BY MerkleAssumption
<1>t. TypeOK /\ LayersLaid /\ Written
  BY DEF Safe
<1>l. Len(hashData) \in Nat
  BY <1>t DEF TypeOK
<1>1. CASE Found
  BY <1>0, <1>t, <1>1 DEF Found, Safe, TypeOK, LayersLaid, Written
<1>2. CASE OutOfLayers
  BY <1>0, <1>t, <1>2 DEF OutOfLayers, Safe, TypeOK, LayersLaid, Written
<1>3. CASE StartLayer
  <2>1. /\ pc = "layer" /\ f < Layers /\ layerSize[f] > 1 /\ pc' = "pair" /\ i' = 0
        /\ UNCHANGED <<numberOfTxHashes, hashData, hashReadIndex, layerSize, f, merkleRoot>>
    BY <1>3 DEF StartLayer
  <2>2. TypeOK' /\ Written'
    BY <1>t, <2>1 DEF TypeOK, Written
  <2>3. f \in 0..(SizeLimit - 1) /\ f + 1 \in (f + 1)..(SizeLimit - 1)
    BY <1>0, <1>t, <2>1 DEF TypeOK
  <2>4. /\ layerSize[f] \in Nat /\ layerSize[f + 1] = 0
        /\ Unread = PaddedSize(layerSize[f])
        /\ \A g \in (f + 1)..(SizeLimit - 1) : layerSize[g] = 0
    BY <1>t, <2>1, <2>3 DEF TypeOK, LayersLaid
  <2>5. PaddedSize(layerSize[f]) \in Nat
    BY <2>4, Padding
  <2>6. Unread' = PaddedSize(layerSize[f]) - 0 + 0
    BY <2>1, <2>4, <2>5 DEF Unread
  <2>7. \A g \in (f + 2)..(SizeLimit - 1) : layerSize[g] = 0
    BY <2>3, <2>4
  <2>8. LayersLaid'
    BY <2>1, <2>4, <2>5, <2>6, <2>7 DEF LayersLaid
  <2> QED BY <2>2, <2>8 DEF Safe
<1>4. CASE Pair
  <2>1. PICK S : hashData \in Seq(S)
    BY <1>t DEF TypeOK
  <2>2. (\E T : hashData' \in Seq(T)) /\ Len(hashData') = Len(hashData) + 1
    BY <1>4, <2>1, Appended DEF Pair
  <2>3. /\ hashReadIndex' = hashReadIndex + 2 /\ i' = i + 2
        /\ pc = "pair" /\ i < layerSize[f]
        /\ UNCHANGED <<pc, numberOfTxHashes, f, merkleRoot>>
    BY <1>4 DEF Pair
  <2>4. f + 1 \in 0..(SizeLimit - 1) /\ f \in 0..(SizeLimit - 1)
    BY <1>0, <1>t, <2>3 DEF TypeOK, LayersLaid
  <2>5. /\ layerSize' \in [0..(SizeLimit - 1) -> Nat]
        /\ layerSize'[f + 1] = layerSize[f + 1] + 1 /\ layerSize'[f] = layerSize[f]
        /\ \A g \in (f + 2)..(SizeLimit - 1) : layerSize'[g] = layerSize[g]
    <3>1. /\ layerSize \in [0..(SizeLimit - 1) -> Nat]
          /\ layerSize' = [layerSize EXCEPT ![f + 1] = layerSize[f + 1] + 1]
          /\ f \in Nat /\ SizeLimit \in Nat
      BY <1>0, <1>t, <1>4 DEF Pair, TypeOK
    <3>2. layerSize[f + 1] + 1 \in Nat
      BY <2>4, <3>1
    <3> QED BY <2>4, <3>1, <3>2
  <2>6. i + 2 <= PaddedSize(layerSize[f]) /\ PaddedSize(layerSize[f]) \in Nat
    BY <1>t, <2>3, <2>4, Padding DEF TypeOK, LayersLaid
  <2>7. TypeOK'
    BY <1>t, <2>2, <2>3, <2>5 DEF TypeOK
  <2>8. LayersLaid'
    <3>1. /\ layerSize[f + 1] \in Nat /\ layerSize[f] \in Nat /\ hashReadIndex \in Nat
          /\ f \in Nat /\ i \in Nat
      BY <1>t, <2>4 DEF TypeOK
    <3>2. /\ f < Layers /\ layerSize[f] > 1 /\ i = 2 * layerSize[f + 1]
          /\ Unread = PaddedSize(layerSize[f]) - i + layerSize[f + 1]
          /\ \A g \in (f + 2)..(SizeLimit - 1) : layerSize[g] = 0
      BY <1>t, <2>3 DEF LayersLaid
    <3>3. Unread' = PaddedSize(layerSize[f]) - (i + 2) + (layerSize[f + 1] + 1)
      <4> DEFINE size == PaddedSize(layerSize[f])
                 done == layerSize[f + 1]
      <4>1. size \in Nat /\ done \in Nat /\ Len(hashData) - hashReadIndex = size - i + done
        BY <2>6, <3>1, <3>2 DEF Unread
      <4>2. Unread' = Len(hashData) + 1 - (hashReadIndex + 2)
        BY <2>2, <2>3 DEF Unread
      <4> HIDE DEF size, done
      <4>3. Unread' = size - (i + 2) + (done + 1)
        BY <1>l, <3>1, <4>1, <4>2
      <4> QED BY <4>3 DEF size, done
    <3>4. layerSize'[f'] = layerSize[f] /\ layerSize'[f' + 1] = layerSize[f + 1] + 1
      BY <2>3, <2>5
    <3>5. i' = 2 * layerSize'[f' + 1] /\ i' <= PaddedSize(layerSize'[f'])
      BY <2>3, <2>6, <3>1, <3>2, <3>4
    <3>6. \A g \in (f' + 2)..(SizeLimit - 1) : layerSize'[g] = 0
      BY <2>3, <2>5, <3>2
    <3> QED BY <2>3, <3>2, <3>3, <3>4, <3>5, <3>6 DEF LayersLaid
  <2>9. hashReadIndex + 2 <= Len(hashData)
    <3> DEFINE size == PaddedSize(layerSize[f])
               done == layerSize[f + 1]
    <3>1. /\ size \in Nat /\ done \in Nat /\ i \in Nat /\ i + 2 <= size
          /\ hashReadIndex \in Nat /\ Len(hashData) - hashReadIndex = size - i + done
      BY <1>t, <2>3, <2>4, <2>6 DEF TypeOK, LayersLaid, Unread
    <3> HIDE DEF size, done
    <3> QED BY <1>l, <3>1
  <2>10. Written'
    BY <1>l, <1>t, <2>2, <2>3, <2>9 DEF TypeOK, Written
  <2> QED BY <2>7, <2>8, <2>10 DEF Safe
<1>5. CASE EndLayer
  <2>1. PICK S : hashData \in Seq(S)
    BY <1>t DEF TypeOK
  <2>2. /\ pc = "pair" /\ i >= layerSize[f] /\ pc' = "layer" /\ f' = f + 1
        /\ UNCHANGED <<numberOfTxHashes, hashReadIndex, layerSize, i, merkleRoot>>
    BY <1>5 DEF EndLayer
  <2> DEFINE next == layerSize[f + 1]
  <2>3. f + 1 \in 0..Layers /\ next \in Nat /\ layerSize[f] \in Nat
    BY <1>0, <1>t, <2>2 DEF TypeOK, LayersLaid
  <2>4. i = PaddedSize(layerSize[f]) /\ Unread = next /\ next > 0
    <3>1. /\ i = 2 * next /\ i <= PaddedSize(layerSize[f]) /\ layerSize[f] > 1
          /\ Unread = PaddedSize(layerSize[f]) - i + next
      BY <1>t, <2>2 DEF LayersLaid
    <3> DEFINE size == PaddedSize(layerSize[f])
    <3>2. size \in Nat /\ 2 * next >= size /\ size > 1
      BY <2>2, <2>3, <3>1, Padding
    <3>3. i = 2 * next /\ i <= size /\ Unread = size - i + next /\ next \in Nat
      BY <2>3, <3>1
    <3> HIDE DEF size, next
    <3>4. i = size /\ Unread = next /\ next > 0
      BY <3>2, <3>3
    <3> QED BY <3>4 DEF size, next
  <2>5. /\ \E T : hashData' \in Seq(T)
        /\ Len(hashData') - Len(hashData) = PaddedSize(next) - next
        /\ Len(hashData') \in Nat
    <3>1. CASE Odd(next) /\ next > 1
      <4>1. hashData' = Append(hashData, hashData[Len(hashData)])
        BY <1>5, <3>1 DEF EndLayer, Duplicated
      <4>2. PaddedSize(next) = next + 1
        BY <3>1 DEF PaddedSize
      <4>3. (\E T : hashData' \in Seq(T)) /\ Len(hashData') = Len(hashData) + 1
        BY <2>1, <4>1, Appended
      <4> QED BY <1>l, <2>3, <4>2, <4>3
    <3>2. CASE ~(Odd(next) /\ next > 1)
      BY <1>5, <1>l, <2>1, <2>3, <3>2 DEF EndLayer, PaddedSize
    <3> QED BY <3>1, <3>2
  <2>6. PaddedSize(next) \in next..(next + 1)
    BY <2>3, Padding
  <2>7. TypeOK'
    BY <1>t, <2>2, <2>3, <2>5 DEF TypeOK
  <2>8. LayersLaid'
    <3>1. hashReadIndex \in Nat /\ f \in Nat
      BY <1>t DEF TypeOK
    <3>2. Unread' = PaddedSize(next)
      BY <1>l, <2>2, <2>3, <2>4, <2>5, <2>6, <3>1 DEF Unread
    <3>3. layerSize'[f'] = next
      BY <2>2
    <3>4. \A g \in (f' + 1)..(SizeLimit - 1) : layerSize'[g] = 0
      BY <1>0, <1>t, <2>2, <3>1 DEF LayersLaid
    <3> QED BY <2>2, <2>4, <3>2, <3>3, <3>4 DEF LayersLaid
  <2>9. Written'
    <3>1. /\ hashReadIndex \in Nat /\ numberOfTxHashes \in Nat /\ f \in Nat
          /\ hashReadIndex <= Len(hashData)
          /\ 2 * Len(hashData) <= hashReadIndex + 2 * (numberOfTxHashes + 1) + 2 * f
      BY <1>t DEF TypeOK, Written
    <3>2. Len(hashData') \in {Len(hashData), Len(hashData) + 1}
      BY <1>l, <2>3, <2>5, <2>6
    <3>3. 2 * Len(hashData') <= 2 * Len(hashData) + 2 /\ Len(hashData) <= Len(hashData')
      BY <1>l, <3>2
    <3> QED BY <1>l, <2>2, <2>5, <3>1, <3>3 DEF Written
  <2> QED BY <2>7, <2>8, <2>9 DEF Safe
<1>6. CASE UNCHANGED vars
  BY <1>t, <1>6 DEF vars, Safe, TypeOK, LayersLaid, Written, Unread
<1> QED BY <1>1, <1>2, <1>3, <1>4, <1>5, <1>6 DEF Next

(* The array of the merkle tree holds all layers of any number of hashes,  *)
(* with their duplicates, and no pair or root is read beyond what was      *)
(* written (transaction.cpp:77-136).                                       *)
THEOREM TreeFits == Spec => []ArrayInBounds
<1>1. Safe => ArrayInBounds
  <2> SUFFICES ASSUME Safe PROVE ArrayInBounds
    OBVIOUS
  <2>0. Layers \in Nat /\ SizeLimit \in Nat /\ Slack \in Nat /\ 2 * Layers <= Slack
    BY MerkleAssumption
  <2>1. TypeOK /\ LayersLaid /\ Written /\ Len(hashData) \in Nat
    BY DEF Safe, TypeOK
  <2>2. Len(hashData) <= 2 * (numberOfTxHashes + 1) + Slack
    BY <2>0, <2>1 DEF TypeOK, Written
  <2>3. pc = "layer" => layerSize[f] > 0 /\ hashReadIndex < Len(hashData)
    BY <2>0, <2>1, MerkleAssumption DEF TypeOK, LayersLaid, Unread, PaddedSize
  <2>4. pc = "pair" /\ i < layerSize[f] => hashReadIndex + 2 <= Len(hashData)
    <3> SUFFICES ASSUME pc = "pair", i < layerSize[f] PROVE hashReadIndex + 2 <= Len(hashData)
      OBVIOUS
    <3>1. f \in 0..(SizeLimit - 1) /\ f + 1 \in 0..(SizeLimit - 1)
      BY <2>0, <2>1, MerkleAssumption DEF TypeOK, LayersLaid
    <3>2. i + 2 <= PaddedSize(layerSize[f]) /\ PaddedSize(layerSize[f]) \in Nat
      BY <2>1, <3>1, Padding DEF TypeOK, LayersLaid
    <3> DEFINE size == PaddedSize(layerSize[f])
               done == layerSize[f + 1]
    <3>3. /\ size \in Nat /\ done \in Nat /\ i \in Nat /\ i + 2 <= size
          /\ hashReadIndex \in Nat /\ Len(hashData) - hashReadIndex = size - i + done
      BY <2>1, <3>1, <3>2 DEF TypeOK, LayersLaid, Unread
    <3> HIDE DEF size, done
    <3> QED BY <2>1, <3>3
  <2> QED BY <2>2, <2>3, <2>4 DEF ArrayInBounds
<1> QED BY <1>1, SafeInit, SafeNext, PTL DEF Spec

-----------------------------------------------------------------------------
(* Natural numbers. *)

LEMMA Least ==
  ASSUME NEW T, T \subseteq Nat, T # {}
  PROVE  \E m \in T : \A k \in T : m <= k
<1> DEFINE R == OpToRel(<, Nat)
<1>1. IsWellFoundedOn(R, Nat)
  BY NatLessThanWellFounded
<1> HIDE DEF R
<1>2. PICK m \in T : \A k \in T : ~(<<k, m>> \in R)
  BY <1>1, WFMin
<1>3. \A k \in T : ~(k < m)
  <2> TAKE k \in T
  <2>1. <<k, m>> \in Nat \X Nat
    OBVIOUS
  <2>2. k < m => <<k, m>> \in R
    BY <2>1 DEF R, OpToRel
  <2> QED BY <1>2, <2>2
<1> QED BY <1>2, <1>3

LEMMA Induction ==
  ASSUME NEW T, 0 \in T, \A n \in Nat : n \in T => n + 1 \in T
  PROVE  Nat \subseteq T
<1> SUFFICES ASSUME Nat \ T # {} PROVE FALSE
  OBVIOUS
<1>1. PICK m \in Nat \ T : \A k \in Nat \ T : m <= k
  BY Least
<1>2. m # 0 /\ m - 1 \in Nat /\ m - 1 \in T
  BY <1>1
<1> QED BY <1>1, <1>2

(* Powers of 2 as numbers of subsets. *)
LEMMA Power ==
  ASSUME NEW n \in Nat
  PROVE  /\ 2^n \in Nat \ {0}
         /\ IsFiniteSet(SUBSET (1..n)) /\ Cardinality(SUBSET (1..n)) = 2^n
<1>1. IsFiniteSet(1..n) /\ Cardinality(1..n) = n
  BY FS_Interval
<1>2. IsFiniteSet(SUBSET (1..n)) /\ Cardinality(SUBSET (1..n)) = 2^n
  BY <1>1, FS_SUBSET
<1>3. 2^n \in Nat
  BY <1>2, FS_CardinalityType
<1>4. 2^n # 0
  BY <1>2, FS_EmptySet
<1> QED BY <1>2, <1>3, <1>4

(* A subset of 1..(a + b) is a subset of 1..a and one of 1..b. *)
LEMMA PowerSum ==
  ASSUME NEW a \in Nat, NEW b \in Nat
  PROVE  2^(a + b) = 2^a * 2^b
<1> DEFINE S == SUBSET (1..a)
           T == SUBSET (1..b)
           U == SUBSET (1..(a + b))
           g == [p \in S \X T |-> p[1] \cup {x \in 1..(a + b) : x - a \in p[2]}]
<1>1. IsFiniteSet(S \X T) /\ Cardinality(S \X T) = 2^a * 2^b
  <2>1. IsFiniteSet(S) /\ Cardinality(S) = 2^a
    BY Power
  <2>2. IsFiniteSet(T) /\ Cardinality(T) = 2^b
    BY Power
  <2> HIDE DEF S, T
  <2> QED BY <2>1, <2>2, FS_Product
<1>2. IsFiniteSet(U) /\ Cardinality(U) = 2^(a + b)
  BY Power
<1>3. g \in [S \X T -> U]
  <2> SUFFICES ASSUME NEW p \in S \X T PROVE g[p] \in U
    OBVIOUS
  <2>1. p[1] \subseteq 1..a
    OBVIOUS
  <2> QED BY <2>1
<1>4. ASSUME NEW p \in S \X T, NEW q \in S \X T, g[p] = g[q]
      PROVE  p = q
  <2>1. \A x \in 1..a : (x \in p[1] <=> x \in g[p]) /\ (x \in q[1] <=> x \in g[q])
    OBVIOUS
  <2>2. \A x \in 1..b : x \in p[2] <=> x + a \in g[p]
    OBVIOUS
  <2>3. \A x \in 1..b : x \in q[2] <=> x + a \in g[q]
    OBVIOUS
  <2>4. p[1] = q[1]
    BY <1>4, <2>1
  <2>5. p[2] = q[2]
    BY <1>4, <2>2, <2>3
  <2> QED BY <2>4, <2>5
<1>5. ASSUME NEW u \in U PROVE \E p \in S \X T : g[p] = u
  <2> DEFINE p == <<u \cap (1..a), {x \in 1..b : x + a \in u}>>
  <2>1. p \in S \X T
    OBVIOUS
  <2>2. g[p] = p[1] \cup {x \in 1..(a + b) : x - a \in p[2]}
    BY <2>1
  <2>3. \A x \in 1..(a + b) : x \in g[p] <=> x \in u
    <3> SUFFICES ASSUME NEW x \in 1..(a + b) PROVE x \in g[p] <=> x \in u
      OBVIOUS
    <3>1. CASE x <= a
      BY <2>2, <3>1
    <3>2. CASE x > a
      <4>1. x - a \in 1..b /\ (x - a) + a = x
        BY <3>2
      <4> QED BY <2>2, <3>2, <4>1
    <3> QED BY <3>1, <3>2
  <2>4. g[p] = u
    BY <1>3, <2>1, <2>3
  <2> QED BY <2>1, <2>4
<1>6. g \in Bijection(S \X T, U)
  BY <1>3, <1>4, <1>5 DEF Bijection, Injection, Surjection, IsInjective
<1> HIDE DEF S, T, U, g
<1>7. Cardinality(S \X T) = Cardinality(U)
  BY <1>1, <1>2, <1>6, FS_Bijection DEF ExistsBijection
<1> QED BY <1>1, <1>2, <1>7

LEMMA PowerNext ==
  ASSUME NEW n \in Nat
  PROVE  2^(n + 1) = 2 * 2^n
<1>1. 2^(n + 1) = 2^n * 2^1
  BY PowerSum
<1>2. 2^1 = 2
  BY SMT
<1>3. 2^n \in Nat
  BY Power
<1>4. 2^n * 2^1 = 2 * 2^n
  BY <1>2, <1>3
<1> QED BY <1>1, <1>4

LEMMA PowerGrows ==
  ASSUME NEW a \in Nat, NEW b \in Nat, a <= b
  PROVE  2^a <= 2^b
<1>1. PICK c \in Nat : a + c = b
  <2>1. b - a \in Nat /\ a + (b - a) = b
    OBVIOUS
  <2> QED BY <2>1
<1>2. 2^(a + c) = 2^a * 2^c
  BY PowerSum
<1>3. 2^a \in Nat /\ 2^c \in Nat \ {0}
  BY Power
<1>4. \A x \in Nat, y \in Nat \ {0} : x <= x * y
  OBVIOUS
<1> QED BY <1>1, <1>2, <1>3, <1>4

-----------------------------------------------------------------------------
(* The reference. *)

Above(x) == IF Len(x) <= 1 THEN x ELSE Halved(x)

(* The layers from n leaves up to the m-th. *)
Tower(g, n, m) == g = [k \in 0..m |-> IF k = 0 THEN Leaves(n) ELSE Above(g[k - 1])]

LEMMA TowerIs ==
  ASSUME NEW g, NEW n, NEW m \in Nat, Tower(g, n, m)
  PROVE  g[0] = Leaves(n) /\ \A k \in 0..m : k # 0 => g[k] = Above(g[k - 1])
<1>1. \A k \in 0..m : g[k] = IF k = 0 THEN Leaves(n) ELSE Above(g[k - 1])
  BY Zenon DEF Tower
<1> QED BY <1>1

LEMMA TowerExists ==
  ASSUME NEW n, NEW m \in Nat
  PROVE  \E g : Tower(g, n, m)
<1> DEFINE T == {l \in Nat : \E g : Tower(g, n, l)}
<1>1. 0 \in T
  <2> DEFINE g == [k \in 0..0 |-> Leaves(n)]
  <2>1. g = [k \in 0..0 |-> IF k = 0 THEN Leaves(n) ELSE Above(g[k - 1])]
    OBVIOUS
  <2> HIDE DEF g
  <2>2. Tower(g, n, 0)
    BY <2>1 DEF Tower
  <2> QED BY <2>2
<1>2. ASSUME NEW l \in Nat, l \in T PROVE l + 1 \in T
  <2>1. PICK g : Tower(g, n, l)
    BY <1>2
  <2> DEFINE h == [k \in 0..(l + 1) |-> IF k = l + 1 THEN Above(g[l]) ELSE g[k]]
  <2>2. h[l + 1] = Above(g[l]) /\ \A k \in 0..l : h[k] = g[k]
    OBVIOUS
  <2>3. h = [k \in 0..(l + 1) |-> h[k]]
    OBVIOUS
  <2> HIDE DEF h
  <2>4. g[0] = Leaves(n) /\ \A k \in 0..l : k # 0 => g[k] = Above(g[k - 1])
    BY <2>1, TowerIs
  <2>5. ASSUME NEW k \in 0..(l + 1)
        PROVE  h[k] = IF k = 0 THEN Leaves(n) ELSE Above(h[k - 1])
    <3>1. CASE k = l + 1
      <4>1. k # 0 /\ k - 1 = l /\ l \in 0..l
        BY <3>1
      <4>2. h[l] = g[l]
        BY <2>2, <4>1
      <4> QED BY <2>2, <3>1, <4>1, <4>2
    <3>2. CASE k = 0
      BY <2>2, <2>4, <3>2
    <3>3. CASE k # l + 1 /\ k # 0
      <4>1. k \in 0..l /\ k - 1 \in 0..l
        BY <3>3
      <4>2. h[k] = g[k] /\ h[k - 1] = g[k - 1] /\ g[k] = Above(g[k - 1])
        BY <2>2, <2>4, <3>3, <4>1
      <4> QED BY <3>3, <4>2
    <3> QED BY <3>1, <3>2, <3>3
  <2>6. Tower(h, n, l + 1)
    BY <2>3, <2>5 DEF Tower
  <2> QED BY <2>6
<1>3. Nat \subseteq T
  <2> HIDE DEF T
  <2> QED BY <1>1, <1>2, Induction
<1> QED BY <1>3

LEMMA TowersAgree ==
  ASSUME NEW n, NEW m \in Nat, NEW g, NEW h, Tower(g, n, m), Tower(h, n, m + 1)
  PROVE  g[m] = h[m]
<1>1. g[0] = Leaves(n) /\ \A k \in 0..m : k # 0 => g[k] = Above(g[k - 1])
  BY TowerIs
<1>2. h[0] = Leaves(n) /\ \A k \in 0..(m + 1) : k # 0 => h[k] = Above(h[k - 1])
  <2>1. m + 1 \in Nat
    OBVIOUS
  <2> QED BY <2>1, TowerIs
<1> DEFINE T == {k \in Nat : k <= m => g[k] = h[k]}
<1>3. 0 \in T
  BY <1>1, <1>2
<1>4. ASSUME NEW k \in Nat, k \in T PROVE k + 1 \in T
  <2> SUFFICES ASSUME k + 1 <= m PROVE g[k + 1] = h[k + 1]
    OBVIOUS
  <2>1. /\ k + 1 \in 0..m /\ k + 1 \in 0..(m + 1) /\ k + 1 # 0 /\ (k + 1) - 1 = k
        /\ g[k] = h[k]
    BY <1>4
  <2>2. g[k + 1] = Above(g[(k + 1) - 1]) /\ h[k + 1] = Above(h[(k + 1) - 1])
    BY <1>1, <1>2, <2>1
  <2> QED BY <2>1, <2>2
<1>5. Nat \subseteq T
  <2> HIDE DEF T
  <2> QED BY <1>3, <1>4, Induction
<1> QED BY <1>5

LEMMA LayersAre ==
  ASSUME NEW n
  PROVE  /\ LayersOf(n)[0] = Leaves(n)
         /\ \A k \in Nat : LayersOf(n)[k + 1] = Above(LayersOf(n)[k])
<1> DEFINE best(m) == CHOOSE g : Tower(g, n, m)
           all == [m \in Nat |-> best(m)[m]]
<1>1. \A m \in Nat : Tower(best(m), n, m)
  BY TowerExists
<1> HIDE DEF best
<1>2. ASSUME NEW k \in Nat
      PROVE  all[k] = IF k = 0 THEN Leaves(n) ELSE Above(all[k - 1])
  <2>1. all[k] = best(k)[k]
    OBVIOUS
  <2>2. CASE k = 0
    BY <1>1, <2>1, <2>2, TowerIs
  <2>3. CASE k # 0
    <3> DEFINE j == k - 1
    <3>1. j \in Nat /\ j + 1 = k
      BY <2>3
    <3> HIDE DEF j
    <3>2. Tower(best(j), n, j) /\ Tower(best(k), n, j + 1)
      BY <1>1, <3>1
    <3>3. best(j)[j] = best(k)[j]
      BY <3>1, <3>2, TowersAgree
    <3>4. best(k)[k] = Above(best(k)[k - 1])
      <4>1. Tower(best(k), n, k) /\ k \in 0..k
        BY <1>1
      <4> QED BY <2>3, <4>1, TowerIs
    <3>5. all[j] = best(j)[j]
      BY <3>1
    <3> HIDE DEF all
    <3>6. k - 1 = j
      BY DEF j
    <3> QED BY <2>1, <2>3, <3>3, <3>4, <3>5, <3>6
  <2> QED BY <2>2, <2>3
<1>3. all = [k \in Nat |-> all[k]]
  OBVIOUS
<1> HIDE DEF all
<1>4. all = [k \in Nat |-> IF k = 0 THEN Leaves(n) ELSE Above(all[k - 1])]
  BY <1>2, <1>3
<1>5. LayersOf(n) = [k \in Nat |->
                       IF k = 0 THEN Leaves(n)
                       ELSE LET below == LayersOf(n)[k - 1]
                            IN IF Len(below) <= 1 THEN below ELSE Halved(below)]
  <2>1. \E h : h = [k \in Nat |->
                      IF k = 0 THEN Leaves(n)
                      ELSE LET below == h[k - 1]
                           IN IF Len(below) <= 1 THEN below ELSE Halved(below)]
    BY <1>4 DEF Above
  <2> QED BY <2>1, Zenon DEF LayersOf
<1>6. \A k \in Nat : LayersOf(n)[k] = IF k = 0 THEN Leaves(n)
                                      ELSE Above(LayersOf(n)[k - 1])
  BY <1>5, Zenon DEF Above
<1>7. ASSUME NEW k \in Nat PROVE LayersOf(n)[k + 1] = Above(LayersOf(n)[k])
  <2>1. k + 1 \in Nat /\ k + 1 # 0 /\ (k + 1) - 1 = k
    OBVIOUS
  <2>2. LayersOf(n)[k + 1] = Above(LayersOf(n)[(k + 1) - 1])
    BY <1>6, <2>1
  <2> QED BY <2>1, <2>2
<1> QED BY <1>6, <1>7

(* From the layer of one hash on, the layers are the same. *)
LEMMA LayersEnd ==
  ASSUME NEW n, NEW k \in Nat, NEW m \in Nat, k <= m, Len(LayersOf(n)[k]) = 1
  PROVE  LayersOf(n)[m] = LayersOf(n)[k]
<1> DEFINE T == {l \in Nat : LayersOf(n)[k + l] = LayersOf(n)[k]}
<1>1. 0 \in T
  <2>1. k + 0 = k
    OBVIOUS
  <2> QED BY <2>1
<1>2. ASSUME NEW l \in Nat, l \in T PROVE l + 1 \in T
  <2>1. k + l \in Nat /\ k + (l + 1) = (k + l) + 1 /\ LayersOf(n)[k + l] = LayersOf(n)[k]
    BY <1>2
  <2>2. LayersOf(n)[(k + l) + 1] = Above(LayersOf(n)[k + l])
    BY <2>1, LayersAre
  <2>3. Above(LayersOf(n)[k]) = LayersOf(n)[k]
    BY DEF Above
  <2> QED BY <2>1, <2>2, <2>3
<1>3. m - k \in Nat /\ k + (m - k) = m
  OBVIOUS
<1>4. m - k \in T
  <2> HIDE DEF T
  <2> QED BY <1>1, <1>2, <1>3, Induction
<1> QED BY <1>3, <1>4

(* The layer above one of several hashes. *)
LEMMA HalvedIs ==
  ASSUME NEW S, NEW s \in Seq(S), Len(s) > 1
  PROVE  /\ Len(Even(s)) = PaddedSize(Len(s)) /\ Len(Even(s)) \in Nat
         /\ 2 * Len(Halved(s)) = Len(Even(s)) /\ Len(Halved(s)) \in Nat
         /\ \E T : Halved(s) \in Seq(T)
         /\ \A k \in 1..Len(Halved(s)) :
              Halved(s)[k] = Hash(Even(s)[2 * k - 1], Even(s)[2 * k])
<1> DEFINE e == Even(s)
           h == Halved(s)
           half == Len(e) \div 2
<1>1. Len(s) \in Nat
  OBVIOUS
<1>2. Len(e) = PaddedSize(Len(s)) /\ Len(e) \in Nat
  <2>1. CASE Odd(Len(s))
    BY <1>1, <2>1, Appended DEF Even, PaddedSize
  <2>2. CASE ~Odd(Len(s))
    BY <1>1, <2>2 DEF Even, PaddedSize
  <2> QED BY <2>1, <2>2
<1>3. half \in Nat /\ 2 * half = Len(e)
  <2>1. \A m \in Nat : PaddedSize(m + 2) \div 2 \in Nat
                       /\ 2 * (PaddedSize(m + 2) \div 2) = PaddedSize(m + 2)
    BY DEF PaddedSize, Odd
  <2>2. Len(s) - 2 \in Nat /\ (Len(s) - 2) + 2 = Len(s)
    BY <1>1
  <2> HIDE DEF e
  <2> QED BY <1>2, <2>1, <2>2
<1>4. h = [k \in 1..half |-> Hash(e[2 * k - 1], e[2 * k])]
  BY DEF Halved
<1> HIDE DEF e, h, half
<1>5. h \in Seq({Hash(e[2 * k - 1], e[2 * k]) : k \in 1..half}) /\ Len(h) = half
  <2> DEFINE T == {Hash(e[2 * k - 1], e[2 * k]) : k \in 1..half}
  <2>1. \A k \in 1..half : Hash(e[2 * k - 1], e[2 * k]) \in T
    OBVIOUS
  <2>2. h \in [1..half -> T]
    BY <1>4, <2>1
  <2> HIDE DEF T
  <2>3. h \in Seq(T) /\ Len(h) = half
    BY <1>3, <2>2
  <2> QED BY <2>3 DEF T
<1>6. \A k \in 1..half : h[k] = Hash(e[2 * k - 1], e[2 * k])
  BY <1>4
<1>7. /\ Len(e) = PaddedSize(Len(s)) /\ Len(e) \in Nat
      /\ 2 * Len(h) = Len(e) /\ Len(h) \in Nat /\ \E T : h \in Seq(T)
      /\ \A k \in 1..Len(h) : h[k] = Hash(e[2 * k - 1], e[2 * k])
  BY <1>2, <1>3, <1>5, <1>6
<1> QED BY <1>7 DEF e, h

-----------------------------------------------------------------------------
(* The layers in the array are those of the reference. *)

Layer == LayersOf(numberOfTxHashes)[f]
Padded(s) == IF Len(s) > 1 THEN Even(s) ELSE s

(* l hashes are left of n after g layers, and no fewer before. *)
Sized(n, g, l) ==
  /\ l \in Nat /\ l >= 1 /\ g + l <= n
  /\ n <= l * 2^g /\ (l - 1) * 2^g < n
  /\ g > 0 => 2^(g - 1) < n

(* n hashes from d[r + 1] on are those of s from s[g + 1] on. *)
Same(d, r, s, g, n) == \A k \in 1..n : d[r + k] = s[g + k]

(* The rest of e, from e[j + 1] on, is at r, and m hashes of h follow at q. *)
Paired(d, r, q, e, j, h, m) == Same(d, r, e, j, q - r) /\ Same(d, q, h, 0, m)

RootInv ==
  /\ pc # "done" =>
       /\ merkleRoot = <<>>
       /\ \E S : Layer \in Seq(S)
       /\ Sized(numberOfTxHashes, f, Len(Layer))
       /\ PaddedSize(layerSize[f]) = PaddedSize(Len(Layer))
       /\ layerSize[f] = 1 <=> Len(Layer) = 1
  /\ pc = "layer" => Same(hashData, hashReadIndex, Padded(Layer), 0, PaddedSize(Len(Layer)))
  /\ pc = "pair" =>
       Paired(hashData, hashReadIndex, hashReadIndex + (Len(Even(Layer)) - i),
              Even(Layer), i, Halved(Layer), layerSize[f + 1])
  /\ pc = "done" => RootIsReference

LEMMA Products ==
  ASSUME NEW a \in Nat, NEW b \in Nat, NEW c \in Nat, a <= b
  PROVE  a * c \in Nat /\ b * c \in Nat /\ a * c <= b * c
<1>1. b - a \in Nat /\ b * c = a * c + (b - a) * c
  OBVIOUS
<1>2. \A x \in Nat, y \in Nat : x * y \in Nat
  OBVIOUS
<1>3. (b - a) * c \in Nat /\ a * c \in Nat
  BY <1>1, <1>2
<1> QED BY <1>1, <1>2, <1>3

LEMMA SizedFirst ==
  ASSUME NEW n \in Nat, n >= 1
  PROVE  Sized(n, 0, n)
<1>1. 2^0 = 1
  BY SMT
<1>2. n * 1 = n /\ (n - 1) * 1 = n - 1
  OBVIOUS
<1> QED BY <1>1, <1>2 DEF Sized

LEMMA SizedNext ==
  ASSUME NEW n \in Nat, NEW g \in Nat, NEW l, Sized(n, g, l), l > 1,
         NEW m \in Nat, 2 * m = PaddedSize(l)
  PROVE  Sized(n, g + 1, m) /\ m < l
<1> DEFINE p == 2^g
           q == 2^(g + 1)
<1>1. p \in Nat /\ q \in Nat /\ q = 2 * p /\ (g + 1) - 1 = g
  <2>1. g + 1 \in Nat /\ (g + 1) - 1 = g
    OBVIOUS
  <2>2. p \in Nat
    BY Power
  <2>3. q = 2 * p
    BY PowerNext
  <2> HIDE DEF p, q
  <2> QED BY <2>1, <2>2, <2>3
<1>2. l \in Nat /\ g + l <= n /\ n <= l * p /\ (l - 1) * p < n
  BY DEF Sized
<1> HIDE DEF p, q
<1>3. m >= 1 /\ l <= 2 * m /\ 2 * m <= l + 1 /\ m < l
  <2>1. PaddedSize(l) \in {l, l + 1}
    BY DEF PaddedSize
  <2> QED BY <1>2, <2>1
<1>4. m * q = (2 * m) * p /\ (m - 1) * q = (2 * (m - 1)) * p
  <2>1. \A x \in Nat, y \in Nat : x * (2 * y) = (2 * x) * y
    OBVIOUS
  <2>2. m - 1 \in Nat
    BY <1>3
  <2> QED BY <1>1, <2>1, <2>2
<1>5. l * p <= (2 * m) * p /\ l * p \in Nat /\ (2 * m) * p \in Nat
  BY <1>1, <1>2, <1>3, Products
<1>6. (2 * (m - 1)) * p <= (l - 1) * p /\ (l - 1) * p \in Nat /\ (2 * (m - 1)) * p \in Nat
  <2> DEFINE a == 2 * (m - 1)
             b == l - 1
  <2>1. a \in Nat /\ b \in Nat /\ a <= b
    BY <1>2, <1>3
  <2> HIDE DEF a, b
  <2>2. a * p <= b * p /\ b * p \in Nat /\ a * p \in Nat
    BY <1>1, <2>1, Products
  <2> QED BY <2>2 DEF a, b
<1>7. n <= m * q /\ (m - 1) * q < n
  BY <1>2, <1>4, <1>5, <1>6
<1>8. p < n
  <2>1. 1 * p <= (l - 1) * p
    <3> DEFINE b == l - 1
    <3>1. b \in Nat /\ 1 <= b
      BY <1>2
    <3> HIDE DEF b
    <3>2. 1 * p <= b * p
      BY <1>1, <3>1, Products
    <3> QED BY <3>2 DEF b
  <2> QED BY <1>1, <1>2, <1>6, <2>1
<1>9. (g + 1) + m <= n
  BY <1>2, <1>3
<1>10. /\ n <= m * 2^(g + 1) /\ (m - 1) * 2^(g + 1) < n /\ 2^((g + 1) - 1) < n
  BY <1>1, <1>7, <1>8 DEF p, q
<1> QED BY <1>3, <1>9, <1>10 DEF Sized

LEMMA PaddedIs ==
  ASSUME NEW S, NEW s \in Seq(S), Len(s) >= 1
  PROVE  /\ Padded(s) = IF Odd(Len(s)) /\ Len(s) > 1 THEN Append(s, s[Len(s)]) ELSE s
         /\ \A k \in 1..Len(s) : Padded(s)[k] = s[k]
         /\ PaddedSize(Len(s)) = Len(s) + 1 => Padded(s)[Len(s) + 1] = s[Len(s)]
<1>1. Padded(s) = IF Odd(Len(s)) /\ Len(s) > 1 THEN Append(s, s[Len(s)]) ELSE s
  BY DEF Padded, Even
<1>2. Len(s) \in Nat
  OBVIOUS
<1>3. \A k \in 1..Len(s) : Padded(s)[k] = s[k]
  BY <1>1, <1>2
<1>4. PaddedSize(Len(s)) = Len(s) + 1 => Padded(s)[Len(s) + 1] = s[Len(s)]
  <2>1. PaddedSize(Len(s)) = Len(s) + 1 => Odd(Len(s)) /\ Len(s) > 1
    BY <1>2 DEF PaddedSize
  <2> QED BY <1>1, <1>2, <2>1
<1> QED BY <1>1, <1>3, <1>4

LEMMA RootInit == Init => RootInv
<1> SUFFICES ASSUME Init PROVE RootInv
  OBVIOUS
<1> DEFINE n == numberOfTxHashes
<1>1. n \in Nat /\ Layers \in Nat \ {0} /\ f = 0 /\ SizeLimit \in Nat \ {0}
  BY MerkleAssumption DEF Init
<1>2. /\ Layer = Leaves(n) /\ Leaves(n) \in Seq({Leaf(k) : k \in 1..n})
      /\ Len(Leaves(n)) = n
  BY <1>1, LayersAre, LeavesSeq DEF Layer
<1>3. CASE n >= 2
  <2>1. /\ pc = "layer" /\ merkleRoot = <<>> /\ hashReadIndex = 0
        /\ hashData = IF Odd(n) /\ n > 1 THEN Duplicated(Leaves(n)) ELSE Leaves(n)
        /\ layerSize[f] = PaddedSize(n)
    BY <1>1, <1>3 DEF Init, PaddedSize
  <2>2. Sized(n, f, Len(Layer))
    BY <1>1, <1>2, <1>3, SizedFirst
  <2>3. PaddedSize(PaddedSize(n)) = PaddedSize(n) /\ PaddedSize(n) # 1
    BY <1>1, <1>3 DEF PaddedSize, Odd
  <2>4. hashData = Padded(Layer)
    BY <1>2, <1>3, <2>1, PaddedIs DEF Duplicated
  <2>5. Same(hashData, hashReadIndex, Padded(Layer), 0, PaddedSize(n))
    BY <2>1, <2>4 DEF Same
  <2> QED BY <1>1, <1>2, <1>3, <2>1, <2>2, <2>3, <2>5 DEF RootInv
<1>4. CASE n = 1
  <2>1. pc = "done" /\ merkleRoot = Leaf(1)
    BY <1>4 DEF Init
  <2>2. Reference(1) = Leaf(1)
    <3>1. LayersOf(1)[0] = Leaves(1)
      BY LayersAre
    <3>2. Len(Leaves(1)) = 1 /\ Leaves(1)[1] = Leaf(1)
      BY DEF Leaves
    <3>3. LayersOf(1)[1] = LayersOf(1)[0]
      BY <3>1, <3>2, LayersEnd
    <3> QED BY <3>1, <3>2, <3>3 DEF Reference
  <2>3. 1 <= 2^(Layers - 1)
    <3>1. Layers - 1 \in Nat
      BY <1>1
    <3>2. 2^(Layers - 1) \in Nat \ {0}
      BY <3>1, Power
    <3> QED BY <3>2
  <2> QED BY <1>4, <2>1, <2>2, <2>3 DEF RootInv, RootIsReference
<1>5. CASE n = 0
  BY <1>5 DEF Init, RootInv, RootIsReference
<1> QED BY <1>1, <1>3, <1>4, <1>5

LEMMA RootFound ==
  ASSUME Safe, RootInv, Found
  PROVE  RootInv'
<1> DEFINE n == numberOfTxHashes
<1>1. /\ pc = "layer" /\ f < Layers /\ layerSize[f] = 1 /\ pc' = "done"
      /\ merkleRoot' = hashData[hashReadIndex + 1]
      /\ numberOfTxHashes' = numberOfTxHashes
  BY DEF Found
<1>2. n \in Nat /\ f \in Nat /\ Layers \in Nat \ {0} /\ f <= Layers - 1
  BY <1>1, MerkleAssumption DEF Safe, TypeOK
<1>3. Len(Layer) = 1 /\ Sized(n, f, 1)
  BY <1>1 DEF RootInv
<1>4. merkleRoot' = Layer[1]
  <2>1. PaddedSize(Len(Layer)) = 1 /\ Padded(Layer) = Layer
    BY <1>3 DEF PaddedSize, Padded
  <2>2. Same(hashData, hashReadIndex, Padded(Layer), 0, 1)
    BY <1>1, <2>1 DEF RootInv
  <2>3. hashData[hashReadIndex + 1] = Padded(Layer)[0 + 1]
    BY <2>2 DEF Same
  <2> QED BY <1>1, <2>1, <2>3
<1>5. f <= n /\ n <= 2^f
  <2>1. 2^f \in Nat
    BY <1>2, Power
  <2> QED BY <1>2, <1>3, <2>1 DEF Sized
<1>6. Reference(n) = Layer[1]
  <2>1. LayersOf(n)[n] = LayersOf(n)[f]
    BY <1>2, <1>3, <1>5, LayersEnd DEF Layer
  <2> QED BY <2>1 DEF Reference, Layer
<1>7. n <= 2^(Layers - 1)
  <2> DEFINE top == Layers - 1
  <2>1. top \in Nat /\ f <= top
    BY <1>2
  <2> HIDE DEF top
  <2>2. 2^f <= 2^top /\ 2^f \in Nat /\ 2^top \in Nat
    BY <1>2, <2>1, PowerGrows, Power
  <2>3. n <= 2^top
    BY <1>2, <1>5, <2>2
  <2> QED BY <2>3 DEF top
<1>8. RootIsReference'
  BY <1>1, <1>4, <1>6, <1>7 DEF RootIsReference
<1> QED BY <1>1, <1>8 DEF RootInv

LEMMA RootMissing ==
  ASSUME Safe, RootInv, OutOfLayers
  PROVE  RootInv'
<1> DEFINE n == numberOfTxHashes
           top == Layers - 1
<1>1. /\ pc = "layer" /\ f = Layers /\ pc' = "done" /\ merkleRoot = <<>>
      /\ merkleRoot' = merkleRoot /\ numberOfTxHashes' = numberOfTxHashes
  BY DEF OutOfLayers, RootInv
<1>2. n \in Nat /\ Layers \in Nat \ {0}
  BY MerkleAssumption DEF Safe, TypeOK
<1>3. Sized(n, Layers, Len(Layer))
  BY <1>1 DEF RootInv
<1>4. 2^top < n
  BY <1>2, <1>3 DEF Sized
<1>5. ~(n <= 2^top)
  <2>1. top \in Nat
    BY <1>2
  <2>2. 2^top \in Nat
    <3> HIDE DEF top
    <3> QED BY <2>1, Power
  <2> HIDE DEF top
  <2> QED BY <1>2, <1>4, <2>2
<1>6. RootIsReference'
  BY <1>1, <1>5 DEF RootIsReference
<1> QED BY <1>1, <1>6 DEF RootInv

(* What Safe says of the hashes in the array. *)
LEMMA Indexes ==
  ASSUME Safe
  PROVE  /\ numberOfTxHashes \in Nat /\ f \in Nat /\ i \in Nat /\ hashReadIndex \in Nat
         /\ Len(hashData) \in Nat /\ \E S : hashData \in Seq(S)
         /\ pc # "done" => layerSize[f] \in Nat /\ PaddedSize(layerSize[f]) \in Nat
         /\ pc = "layer" =>
              /\ f < Layers => layerSize[f + 1] = 0
              /\ Len(hashData) = hashReadIndex + PaddedSize(layerSize[f])
         /\ pc = "pair" =>
              /\ layerSize[f + 1] \in Nat /\ layerSize[f] > 1
              /\ i = 2 * layerSize[f + 1] /\ i <= PaddedSize(layerSize[f])
              /\ Len(hashData) = hashReadIndex + (PaddedSize(layerSize[f]) - i)
                                   + layerSize[f + 1]
              /\ i < layerSize[f] => i + 2 <= PaddedSize(layerSize[f])
              /\ i >= layerSize[f] => i = PaddedSize(layerSize[f])
<1>1. TypeOK /\ LayersLaid
  BY DEF Safe
<1>2. /\ numberOfTxHashes \in Nat /\ f \in 0..Layers /\ i \in Nat /\ hashReadIndex \in Nat
      /\ Len(hashData) \in Nat /\ \E S : hashData \in Seq(S)
      /\ layerSize \in [0..(SizeLimit - 1) -> Nat]
      /\ Layers \in Nat /\ SizeLimit \in Nat /\ Layers < SizeLimit
  BY <1>1, MerkleAssumption DEF TypeOK
<1>3. layerSize[f] \in Nat
  BY <1>2
<1>4. PaddedSize(layerSize[f]) \in Nat
  BY <1>3, Padding
<1> DEFINE size == PaddedSize(layerSize[f])
<1>5. ASSUME pc = "layer"
      PROVE  /\ f < Layers => layerSize[f + 1] = 0
             /\ Len(hashData) = hashReadIndex + size
  <2>1. Len(hashData) - hashReadIndex = size
    BY <1>1, <1>5 DEF LayersLaid, Unread
  <2>2. f < Layers => f + 1 \in (f + 1)..(SizeLimit - 1)
    BY <1>2
  <2>3. f < Layers => layerSize[f + 1] = 0
    BY <1>1, <1>5, <2>2 DEF LayersLaid
  <2> HIDE DEF size
  <2> QED BY <1>2, <2>1, <2>3
<1>6. ASSUME pc = "pair"
      PROVE  /\ layerSize[f + 1] \in Nat /\ layerSize[f] > 1
             /\ i = 2 * layerSize[f + 1] /\ i <= size
             /\ Len(hashData) = hashReadIndex + (size - i) + layerSize[f + 1]
             /\ i < layerSize[f] => i + 2 <= size
             /\ i >= layerSize[f] => i = size
  <2> DEFINE done == layerSize[f + 1]
  <2>1. /\ f < Layers /\ layerSize[f] > 1 /\ i = 2 * done /\ i <= size
        /\ Len(hashData) - hashReadIndex = size - i + done
    BY <1>1, <1>6 DEF LayersLaid, Unread
  <2>2. done \in Nat
    <3>1. f + 1 \in 0..(SizeLimit - 1)
      BY <1>2, <2>1
    <3> QED BY <1>2, <3>1
  <2>3. /\ 2 * done >= layerSize[f] => 2 * done >= size
        /\ 2 * done < layerSize[f] => 2 * done + 2 <= size
    <3> HIDE DEF done
    <3> QED BY <1>3, <2>1, <2>2, Padding
  <2> HIDE DEF size, done
  <2>4. size \in Nat
    BY <1>4 DEF size
  <2>5. /\ Len(hashData) = hashReadIndex + (size - i) + done
        /\ i < layerSize[f] => i + 2 <= size
        /\ i >= layerSize[f] => i = size
    BY <1>2, <1>3, <2>1, <2>2, <2>3, <2>4
  <2> QED BY <2>1, <2>2, <2>5 DEF done
<1> QED BY <1>2, <1>3, <1>4, <1>5, <1>6

LEMMA LayerIs ==
  ASSUME Safe, RootInv, pc # "done", layerSize[f] > 1
  PROVE  Len(Layer) \in Nat /\ Len(Layer) > 1
<1>1. layerSize[f] # 1
  <2>1. layerSize[f] \in Nat
    BY Indexes
  <2> QED BY <2>1
<1>2. PICK l : l = Len(Layer)
  OBVIOUS
<1>3. l # 1 /\ l >= 1 /\ l \in Nat
  BY <1>1, <1>2 DEF RootInv, Sized
<1>4. l > 1
  BY <1>3
<1> QED BY <1>2, <1>3, <1>4

LEMMA RootStart ==
  ASSUME Safe, RootInv, StartLayer
  PROVE  RootInv'
<1>1. /\ pc = "layer" /\ f < Layers /\ layerSize[f] > 1 /\ pc' = "pair" /\ i' = 0
      /\ UNCHANGED <<numberOfTxHashes, hashData, hashReadIndex, layerSize, f, merkleRoot>>
  BY DEF StartLayer
<1>2. Layer' = Layer
  BY <1>1 DEF Layer
<1>3. PICK S : Layer \in Seq(S)
  BY <1>1 DEF RootInv
<1>4. Len(Layer) > 1
  BY <1>1, LayerIs
<1>5. Padded(Layer) = Even(Layer) /\ Len(Even(Layer)) = PaddedSize(Len(Layer))
  BY <1>3, <1>4, HalvedIs DEF Padded
<1>6. PICK d, r, e, z : /\ d = hashData /\ r = hashReadIndex /\ e = Even(Layer)
                        /\ z = Len(Even(Layer))
  OBVIOUS
<1>7. z \in Nat /\ r \in Nat /\ layerSize[f + 1] = 0 /\ Same(d, r, e, 0, z)
  <2>1. z \in Nat
    BY <1>3, <1>4, <1>6, HalvedIs
  <2> QED BY <1>1, <1>5, <1>6, <2>1, Indexes DEF RootInv
<1>8. Paired(d, r, r + (z - 0), e, 0, Halved(Layer), 0)
  <2>1. r + (z - 0) = r + z /\ (r + z) - r = z
    BY <1>7
  <2>2. \A k \in 1..0 : FALSE
    OBVIOUS
  <2>3. Same(d, r + z, Halved(Layer), 0, 0)
    BY <2>2 DEF Same
  <2>4. Paired(d, r, r + z, e, 0, Halved(Layer), 0)
    BY <1>7, <2>1, <2>3 DEF Paired
  <2> QED BY <2>1, <2>4
<1> QED BY <1>1, <1>2, <1>6, <1>7, <1>8 DEF RootInv

LEMMA AppendedAt ==
  ASSUME NEW S, NEW s, s \in Seq(S), NEW x, NEW t, t = Append(s, x)
  PROVE  t[Len(s) + 1] = x
<1> DEFINE T == S \cup {x}
<1>1. s \in Seq(T) /\ x \in T
  OBVIOUS
<1> HIDE DEF T
<1> QED BY <1>1

LEMMA AppendedBefore ==
  ASSUME NEW S, NEW s, s \in Seq(S), NEW x, NEW k \in 1..Len(s)
  PROVE  Append(s, x)[k] = s[k]
<1> DEFINE T == S \cup {x}
<1>1. s \in Seq(T) /\ x \in T
  OBVIOUS
<1> HIDE DEF T
<1> QED BY <1>1

(* A pair is read and its hash written after what is there. *)
LEMMA PairWritten ==
  ASSUME NEW S, NEW d, d \in Seq(S), NEW r \in Nat, NEW j \in Nat, NEW m \in Nat,
         NEW q \in Nat, NEW e, NEW h,
         r + 2 <= q, Len(d) = q + m, Paired(d, r, q, e, j, h, m),
         h[m + 1] = Hash(e[j + 1], e[j + 2]),
         NEW t, t = Append(d, Hash(d[r + 1], d[r + 2]))
  PROVE  Paired(t, r + 2, q, e, j + 2, h, m + 1)
<1> DEFINE rest == q - r
<1>0. rest \in Nat /\ rest >= 2 /\ Same(d, r, e, j, rest) /\ Same(d, q, h, 0, m)
  BY DEF Paired
<1> HIDE DEF rest
<1>1. PICK x : x = Hash(d[r + 1], d[r + 2])
  OBVIOUS
<1>2. x = h[m + 1]
  <2>1. 1 \in 1..rest /\ 2 \in 1..rest
    BY <1>0
  <2>2. d[r + 1] = e[j + 1] /\ d[r + 2] = e[j + 2]
    BY <1>0, <2>1 DEF Same
  <2> QED BY <1>1, <2>2
<1>3. t = Append(d, x)
  BY <1>1
<1>4. t[Len(d) + 1] = x
  BY <1>3, AppendedAt
<1>5. ASSUME NEW k \in 1..Len(d) PROVE t[k] = d[k]
  <2>1. Append(d, x)[k] = d[k]
    BY AppendedBefore
  <2> QED BY <1>3, <2>1, Zenon
<1>6. ASSUME NEW k \in 1..(q - (r + 2))
      PROVE  t[(r + 2) + k] = e[(j + 2) + k]
  <2>1. /\ k + 2 \in 1..rest /\ r + (k + 2) \in 1..Len(d)
        /\ (r + 2) + k = r + (k + 2) /\ (j + 2) + k = j + (k + 2)
    BY DEF rest
  <2>2. d[r + (k + 2)] = e[j + (k + 2)]
    BY <1>0, <2>1 DEF Same
  <2> QED BY <1>5, <2>1, <2>2
<1>7. ASSUME NEW k \in 1..(m + 1)
      PROVE  t[q + k] = h[0 + k]
  <2>1. CASE k = m + 1
    <3>1. q + k = Len(d) + 1 /\ 0 + k = m + 1
      BY <2>1
    <3> QED BY <1>2, <1>4, <3>1
  <2>2. CASE k # m + 1
    <3>1. k \in 1..m /\ q + k \in 1..Len(d)
      BY <2>2
    <3>2. d[q + k] = h[0 + k]
      BY <1>0, <3>1 DEF Same
    <3> QED BY <1>5, <3>1, <3>2
  <2> QED BY <2>1, <2>2
<1> QED BY <1>6, <1>7 DEF Paired, Same

(* What is unread is the next layer, with its last hash duplicated. *)
LEMMA LayerPadded ==
  ASSUME NEW S, NEW d, d \in Seq(S), NEW r \in Nat, NEW T, NEW h, h \in Seq(T), NEW m \in Nat,
         m >= 1, Len(h) = m, Len(d) = r + m, Same(d, r, h, 0, m),
         NEW t, t = IF Odd(m) /\ m > 1 THEN Duplicated(d) ELSE d
  PROVE  Same(t, r, Padded(h), 0, PaddedSize(m))
<1> SUFFICES ASSUME NEW k \in 1..PaddedSize(m) PROVE t[r + k] = Padded(h)[0 + k]
  BY DEF Same
<1>1. PaddedSize(m) \in Nat /\ PaddedSize(m) <= m + 1
  BY Padding
<1>2. 0 + k = k /\ k \in Nat /\ k >= 1
  BY <1>1
<1>3. /\ \A g \in 1..m : Padded(h)[g] = h[g]
      /\ PaddedSize(m) = m + 1 => Padded(h)[m + 1] = h[m]
  BY PaddedIs
<1>4. PICK x : x = d[Len(d)]
  OBVIOUS
<1>5. CASE k <= m
  <2>1. k \in 1..m /\ r + k \in 1..Len(d)
    BY <1>2, <1>5
  <2>2. d[r + k] = h[k]
    BY <1>2, <2>1 DEF Same
  <2>3. t[r + k] = d[r + k]
    <3>1. CASE Odd(m) /\ m > 1
      <4>1. t = Append(d, x)
        BY <1>4, <3>1 DEF Duplicated
      <4>2. PICK g \in 1..Len(d) : g = r + k
        BY <2>1
      <4>3. Append(d, x)[g] = d[g]
        BY AppendedBefore
      <4>4. t[g] = d[g]
        BY <4>1, <4>3, Zenon
      <4> QED BY <4>2, <4>4
    <3>2. CASE ~(Odd(m) /\ m > 1)
      BY <3>2
    <3> QED BY <3>1, <3>2
  <2> QED BY <1>2, <1>3, <2>1, <2>2, <2>3
<1>6. CASE k > m
  <2>1. k = m + 1 /\ PaddedSize(m) = m + 1
    BY <1>1, <1>2, <1>6
  <2>2. Odd(m) /\ m > 1
    BY <2>1 DEF PaddedSize
  <2>3. t = Append(d, x) /\ r + k = Len(d) + 1
    BY <1>4, <2>1, <2>2 DEF Duplicated
  <2>4. t[Len(d) + 1] = x
    BY <2>3, AppendedAt
  <2>5. x = h[m]
    <3>1. m \in 1..m /\ 0 + m = m
      OBVIOUS
    <3>2. d[r + m] = h[m]
      BY <3>1 DEF Same
    <3> QED BY <1>4, <3>2
  <2> QED BY <1>2, <1>3, <2>1, <2>3, <2>4, <2>5
<1> QED BY <1>2, <1>5, <1>6

LEMMA RootPair ==
  ASSUME Safe, RootInv, Pair
  PROVE  RootInv'
<1>1. /\ pc = "pair" /\ i < layerSize[f]
      /\ hashData' = Append(hashData, Hash(hashData[hashReadIndex + 1],
                                           hashData[hashReadIndex + 2]))
      /\ hashReadIndex' = hashReadIndex + 2 /\ i' = i + 2
      /\ layerSize' = [layerSize EXCEPT ![f + 1] = layerSize[f + 1] + 1]
      /\ UNCHANGED <<pc, numberOfTxHashes, f, merkleRoot>>
  BY DEF Pair
<1>2. Layer' = Layer
  BY <1>1 DEF Layer
<1>3. PICK S : Layer \in Seq(S)
  BY <1>1 DEF RootInv
<1>4. Len(Layer) \in Nat /\ Len(Layer) > 1
  BY <1>1, Indexes, LayerIs
<1>5. PICK e, h, d, r, j, m, z :
        /\ e = Even(Layer) /\ h = Halved(Layer) /\ d = hashData /\ r = hashReadIndex
        /\ j = i /\ m = layerSize[f + 1] /\ z = Len(Even(Layer))
  OBVIOUS
<1>6. /\ z \in Nat /\ z = PaddedSize(layerSize[f]) /\ 2 * Len(h) = z /\ Len(h) \in Nat
      /\ \A k \in 1..Len(h) : h[k] = Hash(e[2 * k - 1], e[2 * k])
  BY <1>1, <1>3, <1>4, <1>5, HalvedIs DEF RootInv
<1>a. PICK b : b = Len(d)
  OBVIOUS
<1>7. /\ r \in Nat /\ j \in Nat /\ m \in Nat /\ z \in Nat
      /\ j = 2 * m /\ j + 2 <= z /\ b = r + (z - j) + m
  BY <1>1, <1>5, <1>6, <1>a, Indexes
<1>8. h[m + 1] = Hash(e[j + 1], e[j + 2])
  <2>1. m + 1 \in 1..Len(h) /\ 2 * (m + 1) - 1 = j + 1 /\ 2 * (m + 1) = j + 2
    BY <1>6, <1>7
  <2>2. h[m + 1] = Hash(e[2 * (m + 1) - 1], e[2 * (m + 1)])
    BY <1>6, <2>1
  <2> QED BY <2>1, <2>2
<1>9. PICK T : d \in Seq(T)
  BY <1>5, Indexes
<1>10. PICK q, t : q = r + (z - j) /\ t = Append(d, Hash(d[r + 1], d[r + 2]))
  OBVIOUS
<1>11. q \in Nat /\ r + 2 <= q /\ q = (r + 2) + (z - (j + 2)) /\ b = q + m
  BY <1>7, <1>10
<1>12. Paired(d, r, q, e, j, h, m)
  BY <1>1, <1>5, <1>10 DEF RootInv
<1>13. Paired(t, r + 2, q, e, j + 2, h, m + 1)
  BY <1>a, <1>7, <1>8, <1>9, <1>10, <1>11, <1>12, PairWritten
<1>14. layerSize'[f'] = layerSize[f] /\ layerSize'[f' + 1] = m + 1
  <2>1. f \in Nat /\ f \in 0..(SizeLimit - 1) /\ f + 1 \in 0..(SizeLimit - 1)
    BY <1>1, MerkleAssumption DEF Safe, TypeOK, LayersLaid
  <2>2. layerSize \in [0..(SizeLimit - 1) -> Nat]
    BY DEF Safe, TypeOK
  <2>3. f # f + 1
    BY <2>1
  <2> QED BY <1>1, <1>5, <1>10, <2>1, <2>2, <2>3
<1>15. /\ hashData' = t /\ hashReadIndex' = r + 2 /\ i' = j + 2
       /\ Even(Layer)' = e /\ Halved(Layer)' = h
  BY <1>1, <1>2, <1>5, <1>10
<1>16. /\ merkleRoot' = <<>> /\ (\E U : Layer' \in Seq(U))
       /\ Sized(numberOfTxHashes', f', Len(Layer'))
       /\ PaddedSize(layerSize'[f']) = PaddedSize(Len(Layer'))
       /\ layerSize'[f'] = 1 <=> Len(Layer') = 1
  BY <1>1, <1>2, <1>14 DEF RootInv
<1>17. Paired(hashData', hashReadIndex', hashReadIndex' + (Len(Even(Layer)') - i'),
              Even(Layer)', i', Halved(Layer)', layerSize'[f' + 1])
  BY <1>5, <1>11, <1>13, <1>14, <1>15
<1> QED BY <1>1, <1>16, <1>17 DEF RootInv

LEMMA RootEndLayer ==
  ASSUME Safe, RootInv, EndLayer
  PROVE  RootInv'
<1>1. /\ pc = "pair" /\ i >= layerSize[f] /\ pc' = "layer" /\ f' = f + 1
      /\ hashData' = IF Odd(layerSize[f + 1]) /\ layerSize[f + 1] > 1
                     THEN Duplicated(hashData) ELSE hashData
      /\ UNCHANGED <<numberOfTxHashes, hashReadIndex, layerSize, i, merkleRoot>>
  BY DEF EndLayer
<1>2. PICK S : Layer \in Seq(S)
  BY <1>1 DEF RootInv
<1>3. Len(Layer) \in Nat /\ Len(Layer) > 1
  BY <1>1, Indexes, LayerIs
<1>4. PICK n, g, s, h, d, r, j, m, z :
        /\ n = numberOfTxHashes /\ g = f /\ s = Layer /\ h = Halved(Layer) /\ d = hashData
        /\ r = hashReadIndex /\ j = i /\ m = layerSize[f + 1] /\ z = Len(Even(Layer))
  OBVIOUS
<1>5. Layer' = h
  <2>1. Layer' = LayersOf(n)[g + 1] /\ s = LayersOf(n)[g] /\ g \in Nat
    BY <1>1, <1>4, Indexes DEF Layer
  <2>2. LayersOf(n)[g + 1] = Above(s)
    BY <2>1, LayersAre
  <2>3. Above(s) = h
    BY <1>3, <1>4 DEF Above
  <2> QED BY <2>1, <2>2, <2>3
<1>6. PICK a, b : a = Len(h) /\ b = Len(d)
  OBVIOUS
<1>7. /\ z \in Nat /\ z = PaddedSize(layerSize[f]) /\ z = PaddedSize(Len(s))
      /\ 2 * a = z /\ a \in Nat
  BY <1>1, <1>2, <1>3, <1>4, <1>6, HalvedIs DEF RootInv
<1>8. PICK T, U : d \in Seq(T) /\ h \in Seq(U)
  <2>1. PICK T : d \in Seq(T)
    BY <1>4, Indexes
  <2>2. PICK U : h \in Seq(U)
    BY <1>2, <1>3, <1>4, HalvedIs
  <2> QED BY <2>1, <2>2
<1>9. /\ n \in Nat /\ r \in Nat /\ j \in Nat /\ m \in Nat
      /\ j = 2 * m /\ j = z /\ b = r + (z - j) + m
  BY <1>1, <1>4, <1>6, <1>7, Indexes
<1>a. PICK q : q = r + (z - j)
  OBVIOUS
<1>10. a = m /\ q = r /\ b = r + m
  <2>1. /\ z \in Nat /\ 2 * a = z /\ a \in Nat /\ r \in Nat /\ j \in Nat /\ m \in Nat
        /\ j = 2 * m /\ j = z /\ b = r + (z - j) + m
    BY <1>7, <1>9, Zenon
  <2> QED BY <1>a, <2>1
<1>11. Sized(n, g + 1, m)
  <2>1. Sized(n, g, Len(s)) /\ Len(s) > 1 /\ g \in Nat
    BY <1>1, <1>3, <1>4, Indexes DEF RootInv
  <2>2. 2 * m = PaddedSize(Len(s))
    BY <1>7, <1>9
  <2> QED BY <1>9, <2>1, <2>2, SizedNext
<1>12. m >= 1
  BY <1>11 DEF Sized
<1>13. Same(d, q, h, 0, m)
  BY <1>1, <1>4, <1>a DEF RootInv, Paired
<1>14. PICK t : t = hashData'
  OBVIOUS
<1>15. Same(t, r, Padded(h), 0, PaddedSize(m))
  <2>1. t = IF Odd(m) /\ m > 1 THEN Duplicated(d) ELSE d
    BY <1>1, <1>4, <1>14
  <2> QED BY <1>6, <1>8, <1>9, <1>10, <1>12, <1>13, <2>1, LayerPadded
<1>16. layerSize'[f'] = m /\ f' = g + 1 /\ numberOfTxHashes' = n /\ hashReadIndex' = r
  BY <1>1, <1>4
<1>17. /\ merkleRoot' = <<>> /\ (\E V : Layer' \in Seq(V))
       /\ Sized(numberOfTxHashes', f', Len(Layer'))
       /\ PaddedSize(layerSize'[f']) = PaddedSize(Len(Layer'))
       /\ layerSize'[f'] = 1 <=> Len(Layer') = 1
  BY <1>1, <1>5, <1>6, <1>8, <1>10, <1>11, <1>16 DEF RootInv
<1>18. Same(hashData', hashReadIndex', Padded(Layer)', 0, PaddedSize(Len(Layer)'))
  BY <1>5, <1>6, <1>10, <1>14, <1>15, <1>16
<1> QED BY <1>1, <1>17, <1>18 DEF RootInv

LEMMA RootNext == Safe /\ RootInv /\ [Next]_vars => RootInv'
<1> SUFFICES ASSUME Safe, RootInv, [Next]_vars PROVE RootInv'
  OBVIOUS
<1>1. CASE Found
  BY <1>1, RootFound
<1>2. CASE OutOfLayers
  BY <1>2, RootMissing
<1>3. CASE StartLayer
  BY <1>3, RootStart
<1>4. CASE Pair
  BY <1>4, RootPair
<1>5. CASE EndLayer
  BY <1>5, RootEndLayer
<1>6. CASE UNCHANGED vars
  BY <1>6 DEF vars, RootInv, RootIsReference, Layer
<1> QED BY <1>1, <1>2, <1>3, <1>4, <1>5, <1>6 DEF Next

(* For any number of layers, and any number of transaction hashes that     *)
(* they are enough for, the root is that of the reference tree             *)
(* (transaction.cpp:60-144).                                               *)
THEOREM RootIsTheReferences == Spec => []RootIsReference
<1>1. RootInv => RootIsReference
  BY DEF RootInv, RootIsReference
<1> QED BY <1>1, SafeInit, SafeNext, RootInit, RootNext, PTL DEF Spec

=============================================================================
