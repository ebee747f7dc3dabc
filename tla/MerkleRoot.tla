----------------------------- MODULE MerkleRoot -----------------------------
(***************************************************************************)
(* bitclient_calculateMerkleRoot: the merkle root of a block's transaction *)
(* hashes, layer by layer in one array.  A hash is a term: a leaf, or the  *)
(* pair it is the hash of; the array is hashData, and a layer is a number  *)
(* of hashes from hashReadIndex on.                                        *)
(***************************************************************************)
EXTENDS Naturals, Sequences

CONSTANTS MaxHashes,  (* bound: transaction hashes of a block               *)
          Layers,     (* 10: layers the loop goes through                   *)
          SizeLimit,  (* 16: entries of layerSize                           *)
          Slack       (* 128: hashes allocated "just to be safe"            *)

(* A layer duplicates one hash at most, which the allocation must allow for. *)
ASSUME MerkleAssumption ==
  /\ {MaxHashes, Layers, SizeLimit, Slack} \subseteq Nat \ {0}
  /\ Layers < SizeLimit /\ 2 * Layers <= Slack

VARIABLES pc,
          numberOfTxHashes,
          hashData,       (* the first hashCount hashes of the array        *)
          hashReadIndex,
          layerSize,
          f, i,           (* the loops over layers and pairs                *)
          merkleRoot      (* <<>> until it is written                       *)

vars == <<pc, numberOfTxHashes, hashData, hashReadIndex, layerSize, f, i, merkleRoot>>

(* Hashes are numbered terms: leaf k is <<k>>, a hash of two is their pair. *)
Leaf(k) == <<k>>
Zero == <<0>>
Hash(a, b) == <<a, b>>

Leaves(n) == [k \in 1..n |-> Leaf(k)]

(* The last hash again. *)
DuplicatedFirst(s) == Append(s, s[1])   (* mutant *)
Duplicated(s) == Append(s, s[Len(s)])

Odd(n) == n % 2 = 1

(* No hash, one hash, or a first layer of an even number of them. *)
Init ==
  /\ numberOfTxHashes \in 0..MaxHashes
  /\ hashReadIndex = 0 /\ f = 0 /\ i = 0
  /\ LET n == numberOfTxHashes padded == Odd(n) /\ n > 1 IN
       /\ pc = IF n <= 1 THEN "done" ELSE "layer"
       /\ merkleRoot = IF n = 0 THEN Zero ELSE IF n = 1 THEN Leaf(1) ELSE <<>>
       /\ hashData = IF padded THEN Duplicated(Leaves(n)) ELSE Leaves(n)
       /\ layerSize = [k \in 0..(SizeLimit - 1) |->
                         IF k > 0 THEN 0 ELSE IF padded THEN n + 1 ELSE n]

(* A layer of one hash is the result.  A layer of none ("Error generating  *)
(* merkleRoot hash") never comes: the layer before had two.                *)
Found ==
  /\ pc = "layer" /\ f < Layers /\ layerSize[f] = 1
  /\ merkleRoot' = hashData[hashReadIndex + 1]
  /\ pc' = "done"
  /\ UNCHANGED <<numberOfTxHashes, hashData, hashReadIndex, layerSize, f, i>>

(* After the last layer the function returns; no root is written. *)
OutOfLayers ==
  /\ pc = "layer" /\ f = Layers
  /\ pc' = "done"
  /\ UNCHANGED <<numberOfTxHashes, hashData, hashReadIndex, layerSize, f, i, merkleRoot>>

StartLayer ==
  /\ pc = "layer" /\ f < Layers /\ layerSize[f] > 1
  /\ pc' = "pair" /\ i' = 0
  /\ UNCHANGED <<numberOfTxHashes, hashData, hashReadIndex, layerSize, f, merkleRoot>>

Pair ==
  /\ pc = "pair" /\ i < layerSize[f]
  /\ hashData' = Append(hashData, Hash(hashData[hashReadIndex + 1],
                                       hashData[hashReadIndex + 2]))
  /\ hashReadIndex' = hashReadIndex + 2
  /\ layerSize' = [layerSize EXCEPT ![f + 1] = @ + 1]
  /\ i' = i + 2
  /\ UNCHANGED <<pc, numberOfTxHashes, f, merkleRoot>>

EndLayerUnpadded ==   (* mutant: nothing is duplicated *)
  /\ pc = "pair" /\ i >= layerSize[f]
  /\ f' = f + 1
  /\ pc' = "layer"
  /\ UNCHANGED <<numberOfTxHashes, hashData, hashReadIndex, layerSize, i, merkleRoot>>

(* The last hash of an odd layer is duplicated; layerSize does not count it, *)
(* as the loop over pairs gets to it all the same.                          *)
EndLayer ==
  /\ pc = "pair" /\ i >= layerSize[f]
  /\ hashData' = IF Odd(layerSize[f + 1]) /\ layerSize[f + 1] > 1
                 THEN Duplicated(hashData) ELSE hashData
  /\ f' = f + 1
  /\ pc' = "layer"
  /\ UNCHANGED <<numberOfTxHashes, hashReadIndex, layerSize, i, merkleRoot>>

Next == Found \/ OutOfLayers \/ StartLayer \/ Pair \/ EndLayer

Spec == Init /\ [][Next]_vars
-----------------------------------------------------------------------------
(* The reference: each layer is padded to an even length and its pairs are *)
(* hashed, until one hash is left.                                         *)
Even(s) == IF Odd(Len(s)) THEN Append(s, s[Len(s)]) ELSE s
Halved(s) == LET e == Even(s)
             IN [k \in 1..(Len(e) \div 2) |-> Hash(e[2 * k - 1], e[2 * k])]

LayersOf(n) ==
  LET layer[k \in Nat] ==
        IF k = 0 THEN Leaves(n)
        ELSE LET below == layer[k - 1]
             IN IF Len(below) <= 1 THEN below ELSE Halved(below)
  IN layer

Reference(n) == LayersOf(n)[n][1]

(* The root is that of the reference tree, for every number of hashes that *)
(* the layers the loop goes through are enough for                         *)
(* (transaction.cpp:60-144).                                               *)
RootIsReference ==
  pc = "done" /\ numberOfTxHashes \in 1..2^(Layers - 1) =>
    merkleRoot = Reference(numberOfTxHashes)

(* "up to 16 layers (which means 2^16 hashes are possible)"                *)
(* (transaction.cpp:80): the same for every number of hashes announced     *)
(* there.  Violated: the loop gives up after ten layers (line 95), so the  *)
(* function returns without a root for more than 2^9 hashes.               *)
RootForAnnounced ==
  pc = "done" /\ numberOfTxHashes \in 1..2^SizeLimit =>
    merkleRoot = Reference(numberOfTxHashes)

(* The array is read where it was written, and written where it was        *)
(* allocated, duplicates included; a layer is never empty                  *)
(* (transaction.cpp:77-136).                                               *)
ArrayInBounds ==
  /\ Len(hashData) <= 2 * (numberOfTxHashes + 1) + Slack
  /\ pc = "layer" => layerSize[f] > 0 /\ hashReadIndex < Len(hashData)
  /\ pc = "pair" /\ i < layerSize[f] => hashReadIndex + 2 <= Len(hashData)
=============================================================================
