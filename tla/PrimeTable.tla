----------------------------- MODULE PrimeTable -----------------------------
(***************************************************************************)
(* riecoin_init's table of primes: the Sieve of Eratosthenes over unsigned *)
(* integers of W bits, for every limit the command line lets through.      *)
(***************************************************************************)
EXTENDS Naturals, Sequences, FiniteSets

CONSTANTS W,                  (* 32: bits of an unsigned int                *)
          MinLimit, MaxLimit  (* 100000 and 0xffffffff                      *)

ASSUME TableAssumption ==
  /\ W \in Nat \ {0} /\ W % 8 = 0   (* whole bytes *)
  /\ {MinLimit, MaxLimit} \subseteq Nat
  /\ 2 <= MinLimit /\ MaxLimit < 2^W

Wrap(n) == n % 2^W

VARIABLES pc,          (* also "exit", and "undefined": anything may follow  *)
          limit,       (* riecoin_primeTestLimit                            *)
          nFactor, nComposite,
          vfComposite, (* the bits that are set                             *)
          table        (* riecoin_primeTestTable                            *)

vars == <<pc, limit, nFactor, nComposite, vfComposite, table>>

(* "Must be between ...": other limits end the program. *)
Init ==
  /\ limit \in MinLimit..MaxLimit
  /\ pc = "factor" /\ nFactor = 2 /\ nComposite = 0
  /\ vfComposite = {} /\ table = <<>>

(* The bytes of vfComposite: the sum is one of unsigned ints, too. *)
AllocatedRoundedDown == Wrap(limit) \div 8   (* mutant *)
Allocated == Wrap(limit + 7) \div 8

(* The flags that are read or set where the program is. *)
Accessed ==
  IF pc = "factor" /\ Wrap(nFactor * nFactor) < limit THEN {nFactor}
  ELSE IF pc = "mark" /\ nComposite < limit THEN {nComposite}
  ELSE IF pc = "collect" THEN 2..(limit - 1) ELSE {}

InMemory == \A n \in Accessed : n \div 8 < Allocated

(* A malloc of no bytes may return NULL, which ends the program. *)
AllocateNothing ==
  /\ pc = "factor" /\ nFactor = 2 /\ Allocated = 0
  /\ pc' = "exit"
  /\ UNCHANGED <<limit, nFactor, nComposite, vfComposite, table>>

(* A flag outside the memory allocated. *)
AccessBeyond ==
  /\ ~InMemory
  /\ pc' = "undefined"
  /\ UNCHANGED <<limit, nFactor, nComposite, vfComposite, table>>

(* Mutant of Square: one multiple too late. *)
SquareNext(n) == Wrap(n * n + n)
Square(n) == Wrap(n * n)

SkipFactor ==
  /\ pc = "factor" /\ Wrap(nFactor * nFactor) < limit /\ InMemory
  /\ nFactor \in vfComposite
  /\ nFactor' = nFactor + 1
  /\ UNCHANGED <<pc, limit, nComposite, vfComposite, table>>

TakeFactor ==
  /\ pc = "factor" /\ Wrap(nFactor * nFactor) < limit /\ InMemory
  /\ nFactor \notin vfComposite
  /\ pc' = "mark" /\ nComposite' = Square(nFactor)
  /\ UNCHANGED <<limit, nFactor, vfComposite, table>>

MarkComposite ==
  /\ pc = "mark" /\ nComposite < limit /\ InMemory
  /\ vfComposite' = vfComposite \cup {nComposite}
  /\ nComposite' = Wrap(nComposite + nFactor)
  /\ UNCHANGED <<pc, limit, nFactor, table>>

NextFactorSame ==    (* mutant *)
  /\ pc = "mark" /\ nComposite >= limit
  /\ pc' = "factor"
  /\ UNCHANGED <<limit, nFactor, nComposite, vfComposite, table>>

NextFactor ==
  /\ pc = "mark" /\ nComposite >= limit
  /\ pc' = "factor" /\ nFactor' = nFactor + 1
  /\ UNCHANGED <<limit, nComposite, vfComposite, table>>

(* The second loop, from 2 on; its step is the next n not marked. *)
EndFactors ==
  /\ pc = "factor" /\ Wrap(nFactor * nFactor) >= limit
  /\ pc' = "collect"
  /\ UNCHANGED <<limit, nFactor, nComposite, vfComposite, table>>

Uncollected ==
  {n \in 2..(limit - 1) :
     n \notin vfComposite /\ (table = <<>> \/ n > table[Len(table)])}

Collect ==
  /\ pc = "collect" /\ Uncollected # {} /\ InMemory
  /\ table' = Append(table, CHOOSE n \in Uncollected :
                              \A m \in Uncollected : n <= m)
  /\ UNCHANGED <<pc, limit, nFactor, nComposite, vfComposite>>

Done ==
  /\ pc = "collect" /\ Uncollected = {} /\ InMemory
  /\ pc' = "done"
  /\ UNCHANGED <<limit, nFactor, nComposite, vfComposite, table>>

Next ==
  \/ AllocateNothing \/ AccessBeyond
  \/ SkipFactor \/ TakeFactor \/ MarkComposite \/ NextFactor \/ EndFactors
  \/ Collect \/ Done

Spec == Init /\ [][Next]_vars
FairSpec == Spec /\ WF_vars(Next)
-----------------------------------------------------------------------------
IsPrime(n) == n >= 2 /\ \A d \in 2..(n - 1) : n % d # 0

(* The limits for which no product or sum wraps: up to 65535 * 65535 for   *)
(* 32 bits, which "4.1 billion" is below and 0xffffffff is not.            *)
NoWrap == LET root == 2^(W \div 2) - 1 IN limit <= root * root

(* The table is the primes below the limit (riecoinMiner.cpp:124-139). *)
TableIsPrimes ==
  NoWrap /\ pc = "done" =>
    /\ {table[k] : k \in DOMAIN table} = {n \in 2..(limit - 1) : IsPrime(n)}
    /\ \A k \in 1..(Len(table) - 1) : table[k] < table[k + 1]

(* The limits for which the size of vfComposite does not wrap: all but the *)
(* last seven that 32 bits have.                                           *)
SizeFits == limit + 7 < 2^W

(* What is allocated is enough: (limit + 7)/8 bytes for every flag that is *)
(* read or set, and limit/4 + 10 entries for the primes, also where        *)
(* products or sums wrap and the table is not that of the primes           *)
(* (riecoinMiner.cpp:110-138).  For the last seven limits vfComposite has  *)
(* no byte at all, and the first flag is read beyond it.                   *)
TableFits ==
  SizeFits => pc # "undefined" /\ Len(table) <= (limit \div 4) + 10

(* The table is ready some time, also where products or sums wrap and the  *)
(* factors or their multiples begin again (riecoinMiner.cpp:124-139).      *)
TableReady == SizeFits => <>(pc = "done")
=============================================================================
