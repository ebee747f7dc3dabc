---------------------------- MODULE RiecoinSieve ----------------------------
(***************************************************************************)
(* The arithmetic of the sieve for one header after another:               *)
(* update_remainders, put_offsets_in_segments, process_sieve and the parts *)
(* of riecoin_process that mark primes.  Where RiecoinMiner has many       *)
(* threads that mark a prime in one step, this module has one thread and   *)
(* every index: it is the meaning of a mark.                               *)
(*                                                                         *)
(* Bit x of pass loop stands for the candidate                             *)
(*   target + remainderPrimorial + (loop * riecoin_sieveSize + x) * primorial *)
(* and the five numbers above it at the distances of primeTupleOffset.      *)
(***************************************************************************)
EXTENDS Naturals, Sequences, FiniteSets

CONSTANTS
  Targets,                   (* targets the headers hash to                 *)
  primeTestTable,            (* primes from startingPrimeIndex on, ascending *)
  primorial, primorial_offset,
  primeTupleOffset,          (* <<0, 4, 2, 4, 2, 4>>                        *)
  riecoin_sieveSize,         (* 2^23 bits                                   *)
  maxiter,                   (* 64 passes                                   *)
  riecoin_denseLimit,        (* 16384                                       *)
  PENDING_SIZE,              (* 16                                          *)
  OFFSET_STACK_SIZE,         (* 16384                                       *)
  num_entries_per_segment    (* estimated by riecoin_init                   *)

Indexes == DOMAIN primeTestTable
max_increments == maxiter * riecoin_sieveSize

(* mpz_invert needs the third conjunct from the end: the table starts after *)
(* the factors of the primorial.  The last makes one subtraction enough in  *)
(* Reduce.                                                                 *)
ASSUME SieveAssumption ==
  /\ Targets \subseteq Nat /\ primorial \in Nat \ {0} /\ primorial_offset \in Nat
  /\ {riecoin_sieveSize, maxiter, PENDING_SIZE, OFFSET_STACK_SIZE,
      num_entries_per_segment} \subseteq Nat \ {0}
  /\ DOMAIN primeTupleOffset = 1..6 /\ \A g \in 1..6 : primeTupleOffset[g] \in Nat
  /\ primeTestTable \in Seq(Nat)
  /\ \A k, l \in Indexes : k < l => primeTestTable[k] < primeTestTable[l]
  /\ \A k \in Indexes : \E v \in 0..(primeTestTable[k] - 1) :
       (primorial * v) % primeTestTable[k] = 1
  /\ riecoin_denseLimit \in Nat /\ riecoin_denseLimit <= max_increments
  /\ \A k \in Indexes, g \in 1..6 : primeTupleOffset[g] < primeTestTable[k]

VARIABLES
  pc,
  target,
  i, f,            (* the loop counters of the loop control is in           *)
  remainder,
  offsets,         (* offsets[i]: six indexes                               *)
  offset_stack,
  segment_hits,    (* segment_hits[s]: its first segment_counts[s] entries  *)
  loop,
  sieve,           (* the bits that are set                                 *)
  pending, pending_pos

vars == <<pc, target, i, f, remainder, offsets, offset_stack, segment_hits,
          loop, sieve, pending, pending_pos>>
ring == <<pending, pending_pos>>

-----------------------------------------------------------------------------
(* "find first offset where target%primorial = primorial_offset" *)
remainderPrimorial ==
  ((primorial - (target % primorial)) % primorial) + primorial_offset

(* mpz_invert(primorial, p) *)
inverts == [k \in Indexes |->
              CHOOSE v \in 0..(primeTestTable[k] - 1) :
                (primorial * v) % primeTestTable[k] = 1]

n_dense == Cardinality({k \in Indexes : primeTestTable[k] < riecoin_denseLimit})
n_stored == Cardinality({k \in Indexes : primeTestTable[k] < max_increments})

NoPending == [k \in 0..(PENDING_SIZE - 1) |-> 0]

Init ==
  /\ pc = "mod" /\ target \in Targets /\ i = 1 /\ f = 1 /\ remainder = 0
  /\ offsets = [k \in 1..n_stored |-> <<0, 0, 0, 0, 0, 0>>]
  /\ offset_stack = <<>>
  /\ segment_hits = [s \in 0..(maxiter - 1) |-> <<>>]
  /\ loop = 0 /\ sieve = {} /\ pending = NoPending /\ pending_pos = 0

-----------------------------------------------------------------------------
(* update_remainders *)

(* A remainder equal to p stays: its index comes out as 0 all the same. *)
Reduce(r, p) == IF r > p THEN r - p ELSE r

StackFull == Len(offset_stack) >= OFFSET_STACK_SIZE
ModDone == i > Len(primeTestTable)

(* The f-th number of the tuple, for the i-th prime. *)
UpdateRemainder ==
  /\ pc = "mod" /\ ~ModDone /\ ~StackFull
  /\ LET p == primeTestTable[i]
         before == IF f = 1 THEN (target + remainderPrimorial) % p ELSE remainder
         index == ((p - remainder') * inverts[i]) % p
     IN /\ remainder' = Reduce(before + primeTupleOffset[f], p)
        /\ IF p < max_increments
           THEN offsets' = [offsets EXCEPT ![i][f] = index] /\ UNCHANGED offset_stack
           ELSE /\ offset_stack' = IF index < max_increments
                                   THEN Append(offset_stack, index) ELSE offset_stack
                /\ UNCHANGED offsets
  /\ f' = (f % 6) + 1
  /\ i' = IF f = 6 THEN i + 1 ELSE i
  /\ UNCHANGED <<pc, target, segment_hits, loop, sieve, ring>>

Segment(index) == index \div riecoin_sieveSize
EntryUnbased(index) == index    (* mutant: indexes keep their segment's base *)
Entry(index) == index - riecoin_sieveSize * Segment(index)

Put(hits, index) ==
  [hits EXCEPT ![Segment(index)] = Append(@, Entry(index))]

(* put_offsets_in_segments, after n indexes of the stack. *)
Bucketed[n \in 0..Len(offset_stack)] ==
  IF n = 0 THEN segment_hits ELSE Put(Bucketed[n - 1], offset_stack[n])

NewHits == Bucketed[Len(offset_stack)]
Overflows == \E s \in DOMAIN NewHits : Len(NewHits[s]) > num_entries_per_segment

(* A full stack is emptied; so is what is left after the last prime. *)
PutOffsets ==
  /\ pc = "mod"
  /\ StackFull \/ (ModDone /\ offset_stack # <<>>)
  /\ ~Overflows
  /\ segment_hits' = NewHits
  /\ offset_stack' = <<>>
  /\ UNCHANGED <<pc, target, i, f, remainder, offsets, loop, sieve, ring>>

(* "EEEEK segment": the program ends. *)
BucketOverflow ==
  /\ pc = "mod"
  /\ StackFull \/ (ModDone /\ offset_stack # <<>>)
  /\ Overflows
  /\ pc' = "exit"
  /\ UNCHANGED <<target, i, f, remainder, offsets, offset_stack, segment_hits,
                 loop, sieve, ring>>

-----------------------------------------------------------------------------
(* One pass of riecoin_process. *)

StartPass ==
  /\ pc = "mod" /\ ModDone /\ offset_stack = <<>>
  /\ pc' = "dense" /\ sieve' = {} /\ i' = 1
  /\ UNCHANGED <<target, f, remainder, offsets, offset_stack, segment_hits, loop,
                 ring>>

(* The multiples of p from o on, in this pass, and the index from which the *)
(* next pass goes on.                                                      *)
Hit(o, p) == {x \in 0..(riecoin_sieveSize - 1) : x >= o /\ (x - o) % p = 0}
Carry(o, p) == o + p * Cardinality(Hit(o, p)) - riecoin_sieveSize

(* silly_sort_indexes: the six after n steps of its two loops. *)
Exchanged(indexes, g, h) ==
  IF g < h /\ indexes[h] < indexes[g]
  THEN [indexes EXCEPT ![g] = indexes[h], ![h] = indexes[g]] ELSE indexes
Sorting(indexes) ==
  LET after[n \in 0..36] ==
        IF n = 0 THEN indexes
        ELSE Exchanged(after[n - 1], ((n - 1) \div 6) + 1, ((n - 1) % 6) + 1)
  IN after
silly_sort_indexes(indexes) == Sorting(indexes)[36]

(* All the marks of one dense prime. *)
SieveDense ==
  /\ pc = "dense" /\ i <= n_dense
  /\ LET p == primeTestTable[i]
         sorted == silly_sort_indexes(offsets[i])
     IN /\ sieve' = sieve \cup UNION {Hit(sorted[g], p) : g \in 1..6}
        /\ offsets' = [offsets EXCEPT ![i] = [g \in 1..6 |-> Carry(sorted[g], p)]]
  /\ i' = i + 1
  /\ UNCHANGED <<pc, target, f, remainder, offset_stack, segment_hits, loop, ring>>

StartSparse ==
  /\ pc = "dense" /\ i > n_dense
  /\ pc' = "sparse" /\ f' = 1
  /\ pending' = NoPending /\ pending_pos' = 0
  /\ UNCHANGED <<target, i, remainder, offsets, offset_stack, segment_hits, loop,
                 sieve>>

(* The mark leaves the ring PENDING_SIZE entries later; 0 is an empty entry. *)
add_to_pending(ent) ==
  /\ sieve' = sieve \cup ({pending[pending_pos]} \ {0})
  /\ pending' = [pending EXCEPT ![pending_pos] = ent]
  /\ pending_pos' = (pending_pos + 1) % PENDING_SIZE

(* process_sieve *)
MarkSparse ==
  /\ pc = "sparse" /\ i <= n_stored
  /\ offsets[i][f] < riecoin_sieveSize
  /\ add_to_pending(offsets[i][f])
  /\ offsets' = [offsets EXCEPT ![i][f] = @ + primeTestTable[i]]
  /\ UNCHANGED <<pc, target, i, f, remainder, offset_stack, segment_hits, loop>>

(* Mutant of NextSparse: the offset is not moved to the next pass. *)
NextSparseUnmoved ==
  /\ pc = "sparse" /\ i <= n_stored
  /\ offsets[i][f] >= riecoin_sieveSize
  /\ f' = (f % 6) + 1
  /\ i' = IF f = 6 THEN i + 1 ELSE i
  /\ UNCHANGED <<pc, target, remainder, offsets, offset_stack, segment_hits, loop,
                 sieve, ring>>

NextSparse ==
  /\ pc = "sparse" /\ i <= n_stored
  /\ offsets[i][f] >= riecoin_sieveSize
  /\ offsets' = [offsets EXCEPT ![i][f] = @ - riecoin_sieveSize]
  /\ f' = (f % 6) + 1
  /\ i' = IF f = 6 THEN i + 1 ELSE i
  /\ UNCHANGED <<pc, target, remainder, offset_stack, segment_hits, loop, sieve, ring>>

FlushPending == sieve' = sieve \cup ({pending[k] : k \in DOMAIN pending} \ {0})

EndSparse ==
  /\ pc = "sparse" /\ i > n_stored
  /\ FlushPending
  /\ pc' = "hits" /\ i' = 1
  /\ pending' = NoPending /\ pending_pos' = 0
  /\ UNCHANGED <<target, f, remainder, offsets, offset_stack, segment_hits, loop>>

(* The primes that hit at most once in all passes. *)
MarkHit ==
  /\ pc = "hits" /\ i <= Len(segment_hits[loop])
  /\ add_to_pending(segment_hits[loop][i])
  /\ i' = i + 1
  /\ UNCHANGED <<pc, target, f, remainder, offsets, offset_stack, segment_hits, loop>>

EndHits ==
  /\ pc = "hits" /\ i > Len(segment_hits[loop])
  /\ FlushPending
  /\ pc' = "scan"
  /\ UNCHANGED <<target, i, f, remainder, offsets, offset_stack, segment_hits, loop,
                 ring>>

NextPass ==
  /\ pc = "scan" /\ loop + 1 < maxiter
  /\ loop' = loop + 1
  /\ pc' = "dense" /\ sieve' = {} /\ i' = 1
  /\ UNCHANGED <<target, f, remainder, offsets, offset_stack, segment_hits, ring>>

(* The next header, after the last pass or an abandoned one: the counts of *)
(* the segments are cleared, the offsets are what they were.               *)
NextHeader ==
  /\ pc = "scan"
  /\ target' \in Targets
  /\ segment_hits' = [s \in DOMAIN segment_hits |-> <<>>]
  /\ pc' = "mod" /\ i' = 1 /\ f' = 1 /\ loop' = 0
  /\ UNCHANGED <<remainder, offsets, offset_stack, sieve, ring>>

Next ==
  \/ UpdateRemainder \/ PutOffsets \/ BucketOverflow
  \/ StartPass \/ SieveDense \/ StartSparse \/ MarkSparse \/ NextSparse \/ EndSparse
  \/ MarkHit \/ EndHits \/ NextPass \/ NextHeader

Spec == Init /\ [][Next]_vars
-----------------------------------------------------------------------------
(* The numbers of candidate x that verify_thread tests. *)
Distance[g \in 1..6] == primeTupleOffset[g] + IF g = 1 THEN 0 ELSE Distance[g - 1]
Tested(x, g) ==
  target + remainderPrimorial + (loop * riecoin_sieveSize + x) * primorial + Distance[g]

Divided(x, ks) == \E k \in ks, g \in 1..6 : Tested(x, g) % primeTestTable[k] = 0

(* When a pass is scanned, a bit is set if and only if some prime of the   *)
(* table divides one of the six numbers tested for it, except bit 0, which *)
(* only the dense primes set: 0 is an empty entry of the ring.  So no      *)
(* candidate is lost, whatever the order of marks, the ring's wrap, the    *)
(* remainder left equal to p and the carry from pass to pass               *)
(* (riecoinMiner.cpp:256-370, 733-790).                                    *)
SieveExact ==
  pc = "scan" =>
    sieve = {x \in 0..(riecoin_sieveSize - 1) :
               Divided(x, IF x = 0 THEN 1..n_dense ELSE Indexes)}

(* Every index written through is in the array it goes to: the assertions  *)
(* of lines 261, 366 and 745, and the buckets' bounds                      *)
(* (riecoinMiner.cpp:276-289).                                             *)
IndexesInBounds ==
  /\ \A k \in DOMAIN pending : pending[k] < riecoin_sieveSize
  /\ \A s \in DOMAIN segment_hits :
       /\ Len(segment_hits[s]) <= num_entries_per_segment
       /\ \A k \in DOMAIN segment_hits[s] : segment_hits[s][k] < riecoin_sieveSize
  /\ Len(offset_stack) <= OFFSET_STACK_SIZE
=============================================================================
